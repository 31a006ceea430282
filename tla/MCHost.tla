-------------------------------- MODULE MCHost --------------------------------
(***************************************************************************)
(* What the host keeps around the runs, checked together: the commands of   *)
(* its HTTP interface, the setup of a model, the authority a tool is called  *)
(* with, the files tools write, the plugin versions runs hold, and the life  *)
(* of the local instance.  The parts share no variable, so each behaviour    *)
(* moves one of them, part, from one common initial state.                   *)
(***************************************************************************)
EXTENDS ApiCommands, ModelSetup, ToolAuthority, WorkspaceFiles, PluginLifecycle, InstanceLifecycle

VARIABLE part

\* A session made before agents were frozen into snapshots: nothing bounds it but the policies.
Unbound == [tools |-> ToolId, allow |-> Permission, approve |-> {}]

HostInit ==
    /\ ApiInit /\ SetupInit /\ AuthorityInit /\ FilesInit /\ PluginInit /\ LifecycleInit
    /\ part \in {"commands", "setup", "authority", "files", "plugins", "instances"}

HostNext ==
    \/ part = "commands" /\ ApiNext /\ UNCHANGED <<pvars, tvars, fvars, lvars, ivars, part>>
    \/ part = "setup" /\ SetupNext /\ UNCHANGED <<avars, tvars, fvars, lvars, ivars, part>>
    \/ part = "authority" /\ AuthorityNext /\ UNCHANGED <<avars, pvars, fvars, lvars, ivars, part>>
    \/ part = "files" /\ FilesNext /\ UNCHANGED <<avars, pvars, tvars, lvars, ivars, part>>
    \/ part = "plugins" /\ PluginNext /\ UNCHANGED <<avars, pvars, tvars, fvars, ivars, part>>
    \/ part = "instances" /\ LifecycleNext /\ UNCHANGED <<avars, pvars, tvars, fvars, lvars, part>>

hostVars == <<avars, pvars, tvars, fvars, lvars, ivars, part>>

HostSpec == HostInit /\ [][HostNext]_hostVars

------------------------------------------------------------------------------
\* The state of every part keeps its shape (Services and the processes it runs in).
HostTypeOK ==
    /\ ApiTypeOK /\ SetupTypeOK /\ AuthorityTypeOK /\ FilesTypeOK /\ PluginTypeOK /\ LifecycleTypeOK

\* ModelSetupService.save: the default model was verified, and its credentials are in the vault.
SetupSound == DefaultVerified /\ CredentialsKept

\* PolicyEngine, ToolGateway.execute and the file tools: no tool starts beyond the policies in
\* force, or beyond what the root of its run was submitted with; no write takes an edit with it
\* that was saved before its check; and what is told of a write is what became of the file.
ToolsSound == AuthorizedStart /\ WithinRoot /\ NoEditLost /\ WriteOutcomeTrue
===============================================================================
