--------------------------- MODULE PluginLifecycle ---------------------------
(***************************************************************************)
(* The versions of one declarative plugin (plugins/registry.py,              *)
(* plugins/integration.py, Services.load_plugin and drain_plugin): records,   *)
(* run references and contributed configuration in the shared database, and    *)
(* the registry that each of two processes, the API and the worker, keeps in    *)
(* its memory.  Runs are bound when they are submitted or delegated and released *)
(* when they end, in whichever process that is.  A process that starts recovers  *)
(* in several transactions, and the other one goes on meanwhile.                  *)
(*                                                                              *)
(* The plugin contributes one name (an agent or a server); versions are ordered *)
(* as numbers.  Dependencies between plugins and factories, of which the host    *)
(* registers none, are left out.                                                 *)
(***************************************************************************)
EXTENDS Integers, FiniteSets

CONSTANTS
    MaxVersion,        \* bound: versions of the plugin
    PluginRun,         \* bound: runs
    MaxPluginRestarts  \* bound: restarts of a process

ASSUME PluginAssumption == MaxVersion \in Nat \ {0} /\ MaxPluginRestarts \in Nat

VARIABLES
    status,            \* plugins: the record's status
    refs,              \* plugin_run_refs
    contributed,       \* plugin_contributions: versions with a row for the name
    owner,             \* plugin_contribution_owners, and the configuration the name has
    instances,         \* PluginRegistry.instances, by process
    boot,              \* HostPluginManager.recover, by process: where it is and what it has read
    pluginRun,         \* runs, with the version their snapshot names
    overlooked, revived, \* history: runs bound, and runs ended, behind the back of a recovery
    pluginRestarts

lvars == <<status, refs, contributed, owner, instances, boot, pluginRun, overlooked, revived, pluginRestarts>>

Version == 1 .. MaxVersion
NoVersion == 0
Registry == {"api", "worker"}
Serving == {"ready", "draining"}
Up == [at |-> "up", load |-> {}, live |-> {}, stale |-> {}, put |-> {}]
Serves(p) == boot[p].at = "up"
Newest(S) == IF S = {} THEN NoVersion ELSE CHOOSE v \in S : \A w \in S : w <= v

------------------------------------------------------------------------------
\* register_atomic: an older version never replaces the newest default.
Registered(v) ==
    /\ contributed' = contributed \cup {v}
    /\ owner' = IF owner = NoVersion \/ owner < v THEN v ELSE owner

\* load(): a version this process has an instance of is answered with its record, whatever it says.
Load(v) ==
    /\ Serves("api") /\ v \notin instances["api"]
    /\ status' = [status EXCEPT ![v] = IF @ = "draining" THEN @ ELSE "ready"]
    /\ Registered(v)
    /\ instances' = [instances EXCEPT !["api"] = @ \cup {v}]
    /\ UNCHANGED <<refs, boot, pluginRun, overlooked, revived, pluginRestarts>>

\* unregister: the name goes to the newest version that still contributes it.
Unregistered(v) ==
    /\ contributed' = contributed \ {v}
    /\ owner' = IF owner = v THEN Newest(contributed \ {v}) ELSE owner

\* _dispose_if_unused, for the references that are left.
Unused(v, draining, held) == draining /\ ~\E r \in PluginRun : <<v, r>> \in held

Disposes(p, v) ==
    IF status'[v] = "disposed" /\ status[v] /= "disposed"
    THEN Unregistered(v) /\ instances' = [instances EXCEPT ![p] = @ \ {v}]
    ELSE UNCHANGED <<contributed, owner, instances>>

\* drain(), in one transaction.
Drain(v) ==
    /\ Serves("api") /\ status[v] \in Serving
    /\ status' = [status EXCEPT ![v] = IF Unused(v, TRUE, refs) THEN "disposed" ELSE "draining"]
    /\ Disposes("api", v)
    /\ UNCHANGED <<refs, boot, pluginRun, overlooked, revived, pluginRestarts>>

\* snapshot_refs: the version that has the name, which must be ready.
Snapshot(r) ==
    /\ Serves("api") /\ pluginRun[r].at = "none" /\ owner /= NoVersion /\ status[owner] = "ready"
    /\ pluginRun' = [pluginRun EXCEPT ![r] = [at |-> "composed", version |-> owner]]
    /\ UNCHANGED <<status, refs, contributed, owner, instances, boot, overlooked, revived, pluginRestarts>>

------------------------------------------------------------------------------
\* Runs: bound, delegated, ended

\* The run v is bound for is unknown to a recovery that has read the runs and not yet the references.
Bound(r, v) ==
    /\ pluginRun' = [pluginRun EXCEPT ![r] = [at |-> "live", version |-> v]]
    /\ refs' = refs \cup {<<v, r>>}
    /\ overlooked' = IF \E p \in Registry : boot[p].at = "listing" THEN overlooked \cup {r} ELSE overlooked

\* bind_run without a look at the record.
BindsAnyway(r) ==
    /\ Serves("api") /\ pluginRun[r].at = "composed"
    /\ Bound(r, pluginRun[r].version)
    /\ UNCHANGED <<status, contributed, owner, instances, boot, revived, pluginRestarts>>

\* bind_run, in the transaction of submit: refused if the version drains meanwhile.
Binds(r) ==
    /\ Serves("api") /\ pluginRun[r].at = "composed"
    /\ IF status[pluginRun[r].version] = "ready" THEN Bound(r, pluginRun[r].version)
       ELSE /\ pluginRun' = [pluginRun EXCEPT ![r].at = "ended"]
            /\ UNCHANGED <<refs, overlooked>>
    /\ UNCHANGED <<status, contributed, owner, instances, boot, revived, pluginRestarts>>

\* bind_run, in the transaction of delegate: the child has its parent's snapshot, and is refused as well.
Delegated(r, child) ==
    /\ Serves("worker") /\ pluginRun[r].at = "live" /\ pluginRun[child].at = "none"
    /\ status[pluginRun[r].version] = "ready"
    /\ Bound(child, pluginRun[r].version)
    /\ UNCHANGED <<status, contributed, owner, instances, boot, revived, pluginRestarts>>

\* release_run: the reference goes, and a draining version with its last one.
Released(p, r) ==
    LET v == pluginRun[r].version
        held == refs \ {<<v, r>>}
    IN IF <<v, r>> \in refs
       THEN /\ refs' = held
            /\ status' = [status EXCEPT ![v] = IF Unused(v, @ = "draining", held) THEN "disposed" ELSE @]
            /\ Disposes(p, v)
       ELSE UNCHANGED <<refs, status, contributed, owner, instances>>

\* In the transaction that ends the run: cancelled by the API or finished by the worker.  A recovery
\* that still counts it among the live ones does not learn of it.
RunReleased(p, r) ==
    /\ Serves(p) /\ pluginRun[r].at = "live"
    /\ pluginRun' = [pluginRun EXCEPT ![r].at = "ended"]
    /\ Released(p, r)
    /\ revived' = IF \E q \in Registry : r \in boot[q].live \cup boot[q].put THEN revived \cup {r} ELSE revived
    /\ UNCHANGED <<boot, overlooked, pluginRestarts>>

------------------------------------------------------------------------------
\* HostPluginManager.recover, in no transaction of its own

\* A process dies and starts: its memory is gone, a submission it was composing too, and it lists the
\* records that serve.
RegistryRestarts(p) ==
    /\ pluginRestarts < MaxPluginRestarts /\ pluginRestarts' = pluginRestarts + 1
    /\ instances' = [instances EXCEPT ![p] = {}]
    /\ boot' = [boot EXCEPT ![p] = [Up EXCEPT !.at = "loading", !.load = {v \in Version : status[v] \in Serving}]]
    /\ pluginRun' = [r \in PluginRun |-> IF p = "api" /\ pluginRun[r].at = "composed"
                                         THEN [at |-> "none", version |-> NoVersion] ELSE pluginRun[r]]
    /\ UNCHANGED <<status, refs, contributed, owner, overlooked, revived>>

\* load(rehydrate=True): a version that no longer serves is passed over.
Rehydrates(p, v) ==
    /\ boot[p].at = "loading" /\ v \in boot[p].load
    /\ boot' = [boot EXCEPT ![p].load = @ \ {v}]
    /\ IF status[v] \in Serving
       THEN Registered(v) /\ instances' = [instances EXCEPT ![p] = @ \cup {v}]
       ELSE UNCHANGED <<contributed, owner, instances>>
    /\ UNCHANGED <<status, refs, pluginRun, overlooked, revived, pluginRestarts>>

\* First the runs are read ...
RunsRead(p) ==
    /\ boot[p].at = "loading" /\ boot[p].load = {}
    /\ boot' = [boot EXCEPT ![p].at = "listing", ![p].live = {r \in PluginRun : pluginRun[r].at = "live"}]
    /\ UNCHANGED <<status, refs, contributed, owner, instances, pluginRun, overlooked, revived, pluginRestarts>>

\* ... then the references: one of a run that was not among them is stale.
RefsListed(p) ==
    /\ boot[p].at = "listing"
    /\ boot' = [boot EXCEPT ![p].at = "settling",
                            ![p].stale = {pair[2] : pair \in refs} \ boot[p].live]
    /\ UNCHANGED <<status, refs, contributed, owner, instances, pluginRun, overlooked, revived, pluginRestarts>>

StaleReleased(p, r) ==
    /\ boot[p].at = "settling" /\ r \in boot[p].stale
    /\ boot' = [boot EXCEPT ![p].stale = @ \ {r}]
    /\ Released(p, r)
    /\ UNCHANGED <<pluginRun, overlooked, revived, pluginRestarts>>

\* A run that was live must have its reference, or get it back; without its version the process
\* does not start.
RefChecked(p, r) ==
    /\ boot[p].at = "settling" /\ boot[p].stale = {} /\ boot[p].put = {} /\ r \in boot[p].live
    /\ boot' = [boot EXCEPT ![p] =
           IF <<pluginRun[r].version, r>> \in refs THEN [boot[p] EXCEPT !.live = @ \ {r}]
           ELSE IF status[pluginRun[r].version] \in Serving THEN [boot[p] EXCEPT !.live = @ \ {r}, !.put = {r}]
           ELSE [Up EXCEPT !.at = "failed"]]
    /\ UNCHANGED <<status, refs, contributed, owner, instances, pluginRun, overlooked, revived, pluginRestarts>>

RefRestored(p, r) ==
    /\ r \in boot[p].put
    /\ boot' = [boot EXCEPT ![p].put = {}]
    /\ refs' = refs \cup {<<pluginRun[r].version, r>>}
    /\ UNCHANGED <<status, contributed, owner, instances, pluginRun, overlooked, revived, pluginRestarts>>

RegistryRecovered(p) ==
    /\ boot[p] = [Up EXCEPT !.at = "settling"]
    /\ boot' = [boot EXCEPT ![p] = Up]
    /\ UNCHANGED <<status, refs, contributed, owner, instances, pluginRun, overlooked, revived, pluginRestarts>>

Recovery(p) ==
    \/ RegistryRestarts(p) \/ RunsRead(p) \/ RefsListed(p) \/ RegistryRecovered(p)
    \/ \E v \in Version : Rehydrates(p, v)
    \/ \E r \in PluginRun : StaleReleased(p, r) \/ RefChecked(p, r) \/ RefRestored(p, r)

PluginInit ==
    /\ status = [v \in Version |-> "none"]
    /\ refs = {} /\ contributed = {} /\ owner = NoVersion
    /\ instances = [p \in Registry |-> {}] /\ boot = [p \in Registry |-> Up]
    /\ pluginRun = [r \in PluginRun |-> [at |-> "none", version |-> NoVersion]]
    /\ overlooked = {} /\ revived = {} /\ pluginRestarts = 0

PluginNext ==
    \/ \E v \in Version : Load(v) \/ Drain(v)
    \/ \E r \in PluginRun : Snapshot(r) \/ Binds(r) \/ \E child \in PluginRun : Delegated(r, child)
    \/ \E p \in Registry : Recovery(p) \/ \E r \in PluginRun : RunReleased(p, r)

PluginSpec == PluginInit /\ [][PluginNext]_lvars

------------------------------------------------------------------------------
\* Records, references and registries keep their shapes.
PluginTypeOK ==
    /\ status \in [Version -> {"none", "ready", "draining", "disposed"}]
    /\ refs \subseteq Version \X PluginRun
    /\ contributed \subseteq Version /\ owner \in Version \cup {NoVersion}
    /\ instances \in [Registry -> SUBSET Version]
    /\ pluginRun \in [PluginRun -> [at : {"none", "composed", "live", "ended"},
                                    version : Version \cup {NoVersion}]]
    /\ boot \in [Registry -> [at : {"loading", "listing", "settling", "up", "failed"}, load : SUBSET Version,
                              live : SUBSET PluginRun, stale : SUBSET PluginRun, put : SUBSET PluginRun]]
    /\ overlooked \subseteq PluginRun /\ revived \subseteq PluginRun
    /\ pluginRestarts \in 0 .. MaxPluginRestarts

\* drain, bind_run, release_run and recover in two processes: a run keeps the version it was composed
\* with until it ends, unless it was bound while the other process had read the runs and not yet the
\* references; a reference outlives its run, and a process is refused its start, only where a run was
\* bound or ended behind the back of a recovery; a draining version goes with its last reference; and
\* the name is served by a version that has not been disposed, if there is one.
PluginSound ==
    /\ \A r \in PluginRun \ overlooked : pluginRun[r].at = "live" =>
           status[pluginRun[r].version] \in Serving /\ <<pluginRun[r].version, r>> \in refs
    /\ \A pair \in refs : pluginRun[pair[2]].at = "live" \/ pair[2] \in revived
    /\ (\E p \in Registry : boot[p].at = "failed") => overlooked \cup revived /= {}
    /\ \A v \in Version : status[v] = "draining" => \E r \in PluginRun : <<v, r>> \in refs
    /\ contributed = {v \in Version : status[v] \in Serving}
    /\ owner \in contributed \cup {NoVersion} /\ (owner = NoVersion => contributed = {})
==============================================================================
