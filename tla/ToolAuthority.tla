----------------------------- MODULE ToolAuthority -----------------------------
(***************************************************************************)
(* What a tool call may do (policy/engine.py, runtime/modes.py, the         *)
(* authorisation part of ToolGateway.execute): the policies in force, the   *)
(* policy frozen into a run when it was submitted or delegated, the user's  *)
(* approval bound to a policy revision and a fingerprint of the target, and *)
(* the second look at all of them before the executor is called.            *)
(*                                                                         *)
(* The policies are saved by the API process at any moment, the target is   *)
(* changed by other programs, and the call waits for the user in between.   *)
(* A policy is the permissions it gives and the effects it wants approved;  *)
(* network destinations are left out.                                       *)
(***************************************************************************)
EXTENDS Integers, Sequences, FiniteSets, FiniteSetsExt

CONSTANTS
    TaskRun,           \* runs
    RootRun,           \* bound: the runs a user may submit; the others are delegated
    NoTaskRun,         \* the root of a run that is not there
    CalledTool,        \* bound: the tools the model calls
    Toggled,           \* bound: the permissions a saved policy may leave out
    Asked,             \* bound: the effects a saved policy may add to those asked for
    Layer,             \* stored policies: environment, global, the agent's own
    MaxPolicySaves,    \* bound: policies saved after the start
    MaxTargetChanges,  \* bound: changes of the target by other programs
    LegacyBound        \* the upper bound of a session made with an older agent

------------------------------------------------------------------------------
\* The catalogue: BuiltinTools.register()

FileAndProcessTools ==
    [list_files   |-> [needs |-> "file_read",  effect |-> "read"],
     stat_file    |-> [needs |-> "file_read",  effect |-> "read"],
     read_file    |-> [needs |-> "file_read",  effect |-> "read"],
     search_files |-> [needs |-> "file_read",  effect |-> "read"],
     write_file   |-> [needs |-> "file_write", effect |-> "workspace_write"],
     apply_patch  |-> [needs |-> "file_write", effect |-> "workspace_write"],
     exec         |-> [needs |-> "process",    effect |-> "process"],
     poll         |-> [needs |-> "process",    effect |-> "read"],
     fetch        |-> [needs |-> "network",    effect |-> "read"],
     search_web   |-> [needs |-> "network",    effect |-> "read"],
     plan_update  |-> [needs |-> "input",      effect |-> "read"]]

HostTools ==
    [cancel_command   |-> [needs |-> "process",   effect |-> "read"],
     request_input    |-> [needs |-> "input",     effect |-> "read"],
     request_approval |-> [needs |-> "input",     effect |-> "read"],
     artifact_create  |-> [needs |-> "artifact",  effect |-> "read"],
     artifact_read    |-> [needs |-> "artifact",  effect |-> "read"],
     artifact_list    |-> [needs |-> "artifact",  effect |-> "read"],
     artifact_preview |-> [needs |-> "artifact",  effect |-> "read"],
     archive_search   |-> [needs |-> "file_read", effect |-> "read"],
     memory_search    |-> [needs |-> "memory",    effect |-> "read"],
     delegate         |-> [needs |-> "delegate",  effect |-> "read"],
     inspect_child    |-> [needs |-> "delegate",  effect |-> "read"],
     wait_children    |-> [needs |-> "delegate",  effect |-> "read"],
     memory_propose   |-> [needs |-> "memory",    effect |-> "read"],
     skill_activate   |-> [needs |-> "skills",    effect |-> "read"],
     skill_read       |-> [needs |-> "skills",    effect |-> "read"]]

ToolId == DOMAIN FileAndProcessTools \cup DOMAIN HostTools
ToolSpec(tool) ==
    IF tool \in DOMAIN FileAndProcessTools THEN FileAndProcessTools[tool] ELSE HostTools[tool]

\* Tools whose arguments name a path: the target is fingerprinted, and asking for it checks
\* the file permission again.
PathTool == {"list_files", "stat_file", "read_file", "search_files", "write_file",
             "apply_patch", "exec"}
PathNeeds(tool) == IF ToolSpec(tool).effect = "workspace_write" THEN "file_write" ELSE "file_read"

Capability == {"file_read", "file_write", "process", "network", "input", "artifact",
               "delegate", "memory", "skills", "mcp"}
Trust == "trusted_local_execution"
Permission == Capability \cup {Trust}
Effect == {"read", "workspace_write", "process", "external_write"}
Policy == [allow : SUBSET Permission, approve : SUBSET Effect]

\* DEFAULT_POLICY
Default == [allow |-> Permission, approve |-> {"workspace_write", "process", "external_write"}]

\* modes.py: PLAN_CAPABILITIES, PLAN_TOOLS
PlanCapability == {"file_read", "network", "input", "delegate", "mcp"}
PlanTool == {"read_file", "stat_file", "list_files", "search_files", "fetch", "search_web",
             "artifact_read", "artifact_preview", "archive_search", "memory_search",
             "inspect_child", "request_input", "plan_update", "delegate", "wait_children",
             "skill_activate", "skill_read"}

\* permitted()
InMode(plan, tool) == plan => tool \in PlanTool /\ ToolSpec(tool).effect = "read"

ASSUME AuthorityAssumption ==
    /\ NoTaskRun \notin TaskRun /\ RootRun \subseteq TaskRun
    /\ CalledTool \subseteq ToolId /\ Toggled \subseteq Permission /\ Asked \subseteq Effect
    /\ Layer /= {} /\ IsFiniteSet(Layer)
    /\ MaxPolicySaves \in Nat /\ MaxTargetChanges \in Nat
    /\ LegacyBound.tools \subseteq ToolId
    /\ LegacyBound.allow \subseteq Permission /\ LegacyBound.approve \subseteq Effect

VARIABLES
    saved,             \* every policy saved in a layer; the last is in force
    task,              \* runs: status, root_run_id, and the snapshot's policy, mode and tools
    target,            \* a version of the file the calls are about
    op,                \* tool_executions: one call of each run
    ask,               \* the approval interaction of that call
    caller             \* ToolGateway.execute in the worker

tvars == <<saved, task, target, op, ask, caller>>

NoSnapshot == [allow |-> {}, approve |-> {}, plan |-> FALSE, tools |-> {}]
NoTask == [status |-> "none", root |-> NoTaskRun, frozen |-> NoSnapshot]
Revision == [Layer -> Nat]
Unset == [l \in Layer |-> 0]
NoOp == [state |-> "none", tool |-> "none", print |-> 0, checked |-> Unset]
NoAsk == [status |-> "none", bound |-> Unset, print |-> 0, late |-> FALSE]
NoCaller == [at |-> "none", print |-> 0, bound |-> Unset, checked |-> Unset]

------------------------------------------------------------------------------
\* The policy engine

\* current() and for_agent(): every layer must allow, any layer may ask.
AllowedAt(revision) == {p \in Permission : \A l \in Layer : p \in saved[l][revision[l]].allow}
AskedAt(revision) == UNION {saved[l][revision[l]].approve : l \in Layer}

\* The revision of the policy read: a number, or a hash, made from each layer's own.
CurrentRevision == [l \in Layer |-> Len(saved[l])]

\* effective(): never more than the run was given, asking for no less.
EffectiveAt(r, revision) ==
    LET frozen == task[r].frozen
        mode == IF frozen.plan THEN PlanCapability \cup {Trust} ELSE Permission
    IN [allow |-> AllowedAt(revision) \cap frozen.allow \cap mode,
        approve |-> AskedAt(revision) \cup frozen.approve]

\* The stored policies alone.
EffectiveUnfrozen(r) == [allow |-> AllowedAt(CurrentRevision), approve |-> AskedAt(CurrentRevision)]

Effective(r) == EffectiveAt(r, CurrentRevision)

\* decide()
Denies(policy, tool) ==
    \/ ToolSpec(tool).needs \notin policy.allow
    \/ ToolSpec(tool).effect = "process" /\ Trust \notin policy.allow
NeedsApproval(policy, tool) ==
    ToolSpec(tool).effect \in policy.approve \/ tool = "request_approval"

\* path(): the target cannot even be named without its capability.
PathDenied(r, tool) == tool \in PathTool /\ PathNeeds(tool) \notin Effective(r).allow

------------------------------------------------------------------------------
\* Saving policies, starting runs

\* save_config("policies"), set_environment_cap(): a new revision of one layer.
Saves == FoldSet(LAMBDA l, n : n + Len(saved[l]) - 1, 0, Layer)

SavePolicy(l) ==
    /\ Saves < MaxPolicySaves
    /\ \E removed \in SUBSET Toggled, added \in SUBSET Asked :
          LET new == [allow |-> Permission \ removed, approve |-> Default.approve \cup added]
          IN new /= saved[l][Len(saved[l])] /\ saved' = [saved EXCEPT ![l] = Append(@, new)]
    /\ l = "environment" => \A r \in TaskRun : caller[r] = NoCaller
    /\ UNCHANGED <<task, target, op, ask, caller>>

\* make_snapshot(): the policy of the moment, within the session's older bound.
SubmitTask(r, plan) ==
    /\ r \in RootRun /\ task[r] = NoTask
    /\ task' = [task EXCEPT ![r] =
          [status |-> "active", root |-> r,
           frozen |-> [allow |-> AllowedAt(CurrentRevision) \cap LegacyBound.allow,
                       approve |-> AskedAt(CurrentRevision) \cup LegacyBound.approve,
                       plan |-> plan,
                       tools |-> {t \in LegacyBound.tools : InMode(plan, t)}]]]
    /\ UNCHANGED <<saved, target, op, ask, caller>>

\* Scheduler.delegate without the comparison with the parent's permissions.
GrantChildAnything(r, c) ==
    /\ task[r].status = "active" /\ "delegate" \in Effective(r).allow
    /\ task[c] = NoTask /\ c \notin RootRun
    /\ \E removed \in SUBSET Toggled :
          task' = [task EXCEPT ![c] =
                [status |-> "active", root |-> task[r].root,
                 frozen |-> [task[r].frozen EXCEPT !.allow = Permission \ removed]]]
    /\ UNCHANGED <<saved, target, op, ask, caller>>

\* Scheduler.delegate: the child gets what it asks for, if the parent has it now; the rest
\* of the parent's snapshot is copied.
GrantChild(r, c) ==
    /\ task[r].status = "active" /\ "delegate" \in Effective(r).allow
    /\ task[c] = NoTask /\ c \notin RootRun
    /\ \E removed \in SUBSET Toggled :
          LET requested == (Effective(r).allow \cap Capability) \ removed
          IN task' = [task EXCEPT ![c] =
                [status |-> "active", root |-> task[r].root,
                 frozen |-> [task[r].frozen EXCEPT !.allow = requested \cup (@ \cap {Trust})]]]
    /\ UNCHANGED <<saved, target, op, ask, caller>>

\* Another program changes the target.
TargetChanges ==
    /\ target < MaxTargetChanges
    /\ target' = target + 1
    /\ UNCHANGED <<saved, task, op, ask, caller>>

------------------------------------------------------------------------------
\* ToolGateway.execute

Return(r) == caller' = [caller EXCEPT ![r] = NoCaller]
EndOp(r, state) == op' = [op EXCEPT ![r].state = state]

\* An exception ends the run: its prepared operation and open interaction with it.
Raise(r) ==
    /\ task' = [task EXCEPT ![r].status = "ended"]
    /\ op' = [op EXCEPT ![r].state = IF @ = "prepared" THEN "cancelled" ELSE @]
    /\ ask' = [ask EXCEPT ![r].status = IF @ = "open" THEN "cancelled" ELSE @]
    /\ Return(r)

\* The tool is in the snapshot and of the mode; the call is written to the ledger.
PrepareCall(r, tool) ==
    /\ task[r].status = "active" /\ caller[r] = NoCaller /\ op[r].state = "none"
    /\ tool \in task[r].frozen.tools /\ InMode(task[r].frozen.plan, tool)
    /\ ~PathDenied(r, tool)
    /\ op' = [op EXCEPT ![r] = [NoOp EXCEPT !.state = "prepared", !.tool = tool, !.print = target]]
    /\ caller' = [caller EXCEPT ![r] = [NoCaller EXCEPT !.at = "prepared", !.print = target]]
    /\ UNCHANGED <<saved, task, target, ask>>

\* The call is made again after a pause or a restart; its ledger entry is found.
RepeatCall(r) ==
    /\ task[r].status = "active" /\ caller[r] = NoCaller
    /\ op[r].state = "prepared" /\ ask[r].status /= "open"
    /\ ~PathDenied(r, op[r].tool)
    /\ caller' = [caller EXCEPT ![r] = [NoCaller EXCEPT !.at = "prepared", !.print = target]]
    /\ UNCHANGED <<saved, task, target, op, ask>>

\* The fingerprint of the target is refused.
CallPathDenied(r) ==
    /\ task[r].status = "active"
    /\ \/ caller[r] = NoCaller /\ op[r].state = "prepared" /\ ask[r].status /= "open"
       \/ caller[r].at = "bound"
    /\ PathDenied(r, op[r].tool)
    /\ Raise(r)
    /\ UNCHANGED <<saved, target>>

\* Every further decision asserts the fence first.
At(r, point) == caller[r].at = point /\ task[r].status = "active"

\* POLICY_DENIED, RESOURCE_CHANGED: the call fails and the model is told.
CallDenied(r) ==
    /\ At(r, "prepared")
    /\ Denies(Effective(r), op[r].tool) \/ caller[r].print /= op[r].print
    /\ EndOp(r, "failed") /\ Return(r)
    /\ UNCHANGED <<saved, task, target, ask>>

Decided(r) ==
    At(r, "prepared") /\ ~Denies(Effective(r), op[r].tool) /\ caller[r].print = op[r].print

\* The approval is bound to the policy and the target as they are now; the run pauses.
CallAsks(r) ==
    /\ Decided(r) /\ NeedsApproval(Effective(r), op[r].tool) /\ ask[r] = NoAsk
    /\ ask' = [ask EXCEPT ![r] = [NoAsk EXCEPT !.status = "open", !.bound = CurrentRevision,
                                               !.print = caller[r].print]]
    /\ Return(r)
    /\ UNCHANGED <<saved, task, target, op>>

\* APPROVAL_DENIED
CallNotApproved(r) ==
    /\ Decided(r) /\ NeedsApproval(Effective(r), op[r].tool)
    /\ ask[r].status \in {"denied", "expired"}
    /\ EndOp(r, "failed") /\ Return(r)
    /\ UNCHANGED <<saved, task, target, ask>>

\* The binding: the approval's, or one of this moment where none is needed.
CallBinds(r) ==
    /\ Decided(r)
    /\ IF NeedsApproval(Effective(r), op[r].tool)
       THEN ask[r].status = "approved" /\ caller' = [caller EXCEPT ![r].at = "bound", ![r].bound = ask[r].bound]
       ELSE caller' = [caller EXCEPT ![r].at = "bound", ![r].bound = CurrentRevision]
    /\ UNCHANGED <<saved, task, target, op, ask>>

\* A second look that only asks whether the tool is still allowed.
StillBoundLoosely(r) == ~Denies(Effective(r), op[r].tool) /\ target = caller[r].print

\* The second look, under the locks of the target.
StillBound(r) ==
    /\ ~Denies(Effective(r), op[r].tool)
    /\ CurrentRevision = caller[r].bound
    /\ target = caller[r].print

CallChecked(r) ==
    /\ At(r, "bound") /\ ~PathDenied(r, op[r].tool) /\ StillBound(r)
    /\ caller' = [caller EXCEPT ![r].at = "checked", ![r].checked = CurrentRevision]
    /\ UNCHANGED <<saved, task, target, op, ask>>

\* BINDING_CHANGED
CallUnbound(r) ==
    /\ At(r, "bound") /\ ~PathDenied(r, op[r].tool) /\ ~StillBound(r)
    /\ EndOp(r, "failed") /\ Return(r)
    /\ UNCHANGED <<saved, task, target, ask>>

\* The binding is an approval's, given for 15 minutes.
ByApproval(r) ==
    NeedsApproval([allow |-> {}, approve |-> AskedAt(caller[r].bound) \cup task[r].frozen.approve],
                  op[r].tool)

\* One transaction adds the grant, consumes it and marks the operation running.
CallStartsTool(r) ==
    /\ At(r, "checked") /\ ~(ByApproval(r) /\ ask[r].late)
    /\ op' = [op EXCEPT ![r].state = "running", ![r].checked = caller[r].checked]
    /\ caller' = [caller EXCEPT ![r].at = "running"]
    /\ UNCHANGED <<saved, task, target, ask>>

\* GRANT_STALE, or the fence of a cancelled run: an exception.
CallStale(r) ==
    /\ \/ At(r, "checked") /\ ByApproval(r) /\ ask[r].late
       \/ caller[r].at \in {"prepared", "bound", "checked"} /\ task[r].status = "cancelling"
    /\ Raise(r)
    /\ UNCHANGED <<saved, target>>

\* The executor: a path tool checks its file permission once more before it acts; an error
\* after it acted is unknown, unless the tool only reads.
ToolActs(r) ==
    /\ caller[r].at = "running"
    /\ \/ EndOp(r, "failed") /\ UNCHANGED target
       \/ /\ ~PathDenied(r, op[r].tool)
          /\ \/ EndOp(r, "succeeded")
             \/ ToolSpec(op[r].tool).effect /= "read" /\ EndOp(r, "unknown")
          /\ target' = IF ToolSpec(op[r].tool).effect = "workspace_write" THEN target + 1 ELSE target
    /\ Return(r)
    /\ UNCHANGED <<saved, task, ask>>

\* The worker dies: a running operation is left to a review.
CallerDies(r) ==
    /\ caller[r] /= NoCaller
    /\ op' = [op EXCEPT ![r].state = IF @ = "running" THEN "unknown" ELSE @]
    /\ Return(r)
    /\ UNCHANGED <<saved, task, target, ask>>

------------------------------------------------------------------------------
\* The user

\* Scheduler.respond: approve or deny; the request is answered once.
Answer(r) ==
    /\ task[r].status = "active" /\ ask[r].status = "open"
    /\ \E status \in {"approved", "denied"} : ask' = [ask EXCEPT ![r].status = status]
    /\ UNCHANGED <<saved, task, target, op, caller>>

\* The approval's time ends: an open one is closed, a given one can no longer be consumed.
AskExpires(r) ==
    /\ ask[r].status \in {"open", "approved"} /\ ~ask[r].late
    /\ ask' = [ask EXCEPT ![r].late = TRUE, ![r].status = IF @ = "open" THEN "expired" ELSE @]
    /\ UNCHANGED <<saved, task, target, op, caller>>

\* Scheduler.cancel: a worker at work notices at its next look at the fence.
CancelTask(r) ==
    /\ task[r].status = "active"
    /\ IF caller[r] = NoCaller THEN Raise(r)
       ELSE task' = [task EXCEPT ![r].status = "cancelling"] /\ UNCHANGED <<op, ask, caller>>
    /\ UNCHANGED <<saved, target>>

AuthorityInit ==
    /\ saved = [l \in Layer |-> <<Default>>]
    /\ task = [r \in TaskRun |-> NoTask]
    /\ target = 0
    /\ op = [r \in TaskRun |-> NoOp]
    /\ ask = [r \in TaskRun |-> NoAsk]
    /\ caller = [r \in TaskRun |-> NoCaller]

GatewayStep(r) ==
    \/ \E tool \in CalledTool : PrepareCall(r, tool)
    \/ RepeatCall(r) \/ CallPathDenied(r) \/ CallDenied(r) \/ CallAsks(r) \/ CallNotApproved(r)
    \/ CallBinds(r) \/ CallChecked(r) \/ CallUnbound(r) \/ CallStartsTool(r) \/ CallStale(r)
    \/ ToolActs(r) \/ CallerDies(r)

AuthorityNext ==
    \/ \E l \in Layer : SavePolicy(l)
    \/ TargetChanges
    \/ \E r \in TaskRun :
          \/ \E plan \in BOOLEAN : SubmitTask(r, plan)
          \/ \E c \in TaskRun : GrantChild(r, c)
          \/ GatewayStep(r) \/ Answer(r) \/ AskExpires(r) \/ CancelTask(r)

AuthoritySpec == AuthorityInit /\ [][AuthorityNext]_tvars

------------------------------------------------------------------------------
\* Policies, snapshots, operations and approvals keep their shapes (PolicyEngine, ToolGateway).
AuthorityTypeOK ==
    /\ saved \in [Layer -> Seq(Policy)]
    /\ task \in [TaskRun -> [status : {"none", "active", "cancelling", "ended"},
                             root : TaskRun \cup {NoTaskRun},
                             frozen : [allow : SUBSET Permission, approve : SUBSET Effect,
                                       plan : BOOLEAN, tools : SUBSET ToolId]]]
    /\ target \in Nat
    /\ \A r \in TaskRun :
          /\ op[r].state \in {"none", "prepared", "running", "succeeded", "failed", "unknown", "cancelled"}
          /\ ask[r].status \in {"none", "open", "approved", "denied", "expired", "cancelled"}
          /\ caller[r].at \in {"none", "prepared", "bound", "checked", "running"}
          /\ op[r].state = "running" <=> caller[r].at = "running"

Started(r) == op[r].checked /= Unset

\* execute()'s two looks: a tool starts only if the policies that were in force at the second
\* look, and the run's own, allow it; where they ask for approval, the user gave it for this
\* target under exactly these policies.
AuthorizedStart ==
    \A r \in TaskRun : Started(r) =>
        LET policy == EffectiveAt(r, op[r].checked) IN
        /\ ~Denies(policy, op[r].tool)
        /\ NeedsApproval(policy, op[r].tool) =>
              ask[r].status = "approved" /\ ask[r].bound = op[r].checked /\ ask[r].print = op[r].print

\* effective(), delegate(): whatever is saved after a root run was submitted, no run of its
\* tree starts a tool the root's snapshot does not allow, or starts one without the approval
\* the root's snapshot asks for.
WithinRoot ==
    \A r \in TaskRun : Started(r) =>
        LET root == task[task[r].root].frozen IN
        /\ ToolSpec(op[r].tool).needs \in root.allow /\ InMode(root.plan, op[r].tool)
        /\ ToolSpec(op[r].tool).effect \in root.approve => ask[r].status = "approved"
=============================================================================
