--------------------------- MODULE InstanceLifecycle ---------------------------
(***************************************************************************)
(* The local service over one data directory (platform/supervisor.py,       *)
(* cli.coordinated_backup, storage/backup.py, Worker.acknowledge): a        *)
(* supervisor starts an API and a worker under a directory lock and records *)
(* them in instance.json; stop asks it, through the shared database, to     *)
(* drain and end them; a backup is taken once nothing recorded is alive.    *)
(*                                                                         *)
(* Commands run in processes of their own.  Any process may be killed at    *)
(* any time; killing a supervisor releases the lock and leaves its children *)
(* running.  Liveness of a process is judged by pid, birth time and command *)
(* line, taken to be exact.                                                *)
(***************************************************************************)
EXTENDS Integers, FiniteSets

CONSTANTS
    MaxInstances,      \* bound: starts, each with an instance id of its own
    Stopper,           \* bound: stop commands that run at a time
    Object,            \* bound: artifacts written
    MaxKills           \* bound: processes killed

ASSUME LifecycleAssumption == MaxInstances \in Nat \ {0} /\ MaxKills \in Nat

VARIABLES
    record,            \* instance.json: the instance and the roles it holds
    lock,              \* instance.lock: free, an instance's supervisor, or a backup
    maintenance,       \* system/maintenance
    workerState,       \* system/worker_state
    sup,               \* where the supervisor of each instance is
    alive,             \* processes, by role and instance
    busy,              \* workers: idle, about to claim, or with a run
    stopper,           \* stop(): the instance a command asked to stop
    objects, indexed,  \* the artifact files, and their rows in app.db
    copy,              \* a backup
    kills

ivars == <<record, lock, maintenance, workerState, sup, alive, busy, stopper, objects, indexed, copy, kills>>

Instance == 1 .. MaxInstances
Role == {"supervisor", "api", "worker"}
NoInstance == 0
Process(role, i) == <<role, i>>
NoStop == [at |-> "none", instance |-> NoInstance]
NoCopy == [at |-> "none", rows |-> {}, objects |-> {}]

\* status(): the recorded processes that are alive.
Seen == {role \in record.roles : Process(role, record.instance) \in alive}

\* check_port(): any API, recorded or not, holds the port.
PortTaken == \E i \in Instance : Process("api", i) \in alive

------------------------------------------------------------------------------
\* Starting

\* start(): nothing recorded is alive; a supervisor with a new id is launched.
Launch(i) ==
    /\ sup[i] = "none" /\ \A j \in 1 .. i - 1 : sup[j] /= "none"
    /\ Seen = {} /\ ~PortTaken
    /\ sup' = [sup EXCEPT ![i] = "launched"]
    /\ alive' = alive \cup {Process("supervisor", i)}
    /\ UNCHANGED <<record, lock, maintenance, workerState, busy, stopper, objects, indexed, copy, kills>>

\* Only the supervisor is looked for.
OrphanedSupervisor == "supervisor" \in Seen

\* ORPHAN_INSTANCE
Orphaned == Seen \cap {"api", "worker"} /= {}

\* The lock is taken, an orphan is alive, or the port is in use: an exception ends it.
SupervisorRefuses(i) ==
    /\ sup[i] = "launched" /\ (lock /= NoInstance \/ Orphaned \/ PortTaken)
    /\ sup' = [sup EXCEPT ![i] = "ended"]
    /\ alive' = alive \ {Process("supervisor", i)}
    /\ UNCHANGED <<record, lock, maintenance, workerState, busy, stopper, objects, indexed, copy, kills>>

\* Under the lock: maintenance ends, the record is the new instance's.
SupervisorBegins(i) ==
    /\ sup[i] = "launched" /\ lock = NoInstance /\ ~Orphaned /\ ~PortTaken
    /\ lock' = i
    /\ maintenance' = [enabled |-> FALSE, instance |-> i]
    /\ record' = [instance |-> i, roles |-> {"supervisor"}]
    /\ sup' = [sup EXCEPT ![i] = "spawning"]
    /\ UNCHANGED <<workerState, alive, busy, stopper, objects, indexed, copy, kills>>

\* The API first, then the worker; neither is in instance.json yet.
SupervisorSpawns(i) ==
    /\ \/ /\ sup[i] = "spawning" /\ sup' = [sup EXCEPT ![i] = "halfway"]
          /\ alive' = alive \cup {Process("api", i)}
       \/ /\ sup[i] = "halfway" /\ sup' = [sup EXCEPT ![i] = "spawned"]
          /\ alive' = alive \cup {Process("worker", i)}
    /\ UNCHANGED <<record, lock, maintenance, workerState, busy, stopper, objects, indexed, copy, kills>>

\* The end of a turn of the loop.
SupervisorRecords(i) ==
    /\ sup[i] = "spawned"
    /\ record' = [instance |-> i, roles |-> Role]
    /\ sup' = [sup EXCEPT ![i] = "running"]
    /\ UNCHANGED <<lock, maintenance, workerState, alive, busy, stopper, objects, indexed, copy, kills>>

------------------------------------------------------------------------------
\* The worker

\* Worker.tick and Scheduler.claim read maintenance before the transaction of the claim.
WorkerLooks(i) ==
    /\ Process("worker", i) \in alive /\ busy[i] = "idle" /\ ~maintenance.enabled
    /\ busy' = [busy EXCEPT ![i] = "claiming"]
    /\ UNCHANGED <<record, lock, maintenance, workerState, sup, alive, stopper, objects, indexed, copy, kills>>

\* A run is claimed, or there is none.
WorkerClaims(i) ==
    /\ Process("worker", i) \in alive /\ busy[i] = "claiming"
    /\ \E found \in {"idle", "busy"} : busy' = [busy EXCEPT ![i] = found]
    /\ UNCHANGED <<record, lock, maintenance, workerState, sup, alive, stopper, objects, indexed, copy, kills>>

WorkerRunEnds(i) ==
    /\ Process("worker", i) \in alive /\ busy[i] = "busy"
    /\ busy' = [busy EXCEPT ![i] = "idle"]
    /\ UNCHANGED <<record, lock, maintenance, workerState, sup, alive, stopper, objects, indexed, copy, kills>>

\* A status that follows maintenance alone.
AckStatusOfMode(i) == IF maintenance.enabled THEN "drained" ELSE IF busy[i] = "busy" THEN "running" ELSE "ready"

AckStatus(i) == IF busy[i] = "busy" THEN "running" ELSE IF maintenance.enabled THEN "drained" ELSE "ready"

\* acknowledge(), at the end of every tick; whose maintenance it is, is not compared.
WorkerAcks(i) ==
    /\ Process("worker", i) \in alive /\ busy[i] /= "claiming"
    /\ workerState' = [instance |-> i, status |-> AckStatus(i)]
    /\ UNCHANGED <<record, lock, maintenance, sup, alive, busy, stopper, objects, indexed, copy, kills>>

\* The row may come first.
WriteObjectAnyOrder(a) ==
    /\ \E i \in Instance : {Process("api", i), Process("worker", i)} \cap alive /= {}
    /\ \/ objects' = objects \cup {a} /\ UNCHANGED indexed
       \/ indexed' = indexed \cup {a} /\ UNCHANGED objects
    /\ UNCHANGED <<record, lock, maintenance, workerState, sup, alive, busy, stopper, copy, kills>>

\* ArtifactStore.put_stream: the file is in place before its row is added.
WriteObject(a) ==
    /\ \E i \in Instance : {Process("api", i), Process("worker", i)} \cap alive /= {}
    /\ \/ objects' = objects \cup {a} /\ UNCHANGED indexed
       \/ a \in objects /\ indexed' = indexed \cup {a} /\ UNCHANGED objects
    /\ UNCHANGED <<record, lock, maintenance, workerState, sup, alive, busy, stopper, copy, kills>>

------------------------------------------------------------------------------
\* Stopping

\* The worker is gone, or has acknowledged the drain of this instance.
Drained(i, workerAlive) ==
    ~workerAlive \/ (workerState.instance = i /\ workerState.status = "drained")

Without(i) == alive \ {Process(role, i) : role \in Role}

\* The supervisor's loop finds the request of its own instance.
SupervisorStops(i) ==
    /\ sup[i] \in {"spawned", "running"}
    /\ maintenance.enabled /\ maintenance.instance = i
    /\ Drained(i, Process("worker", i) \in alive)
    /\ alive' = Without(i)
    /\ busy' = [busy EXCEPT ![i] = "idle"]
    /\ record' = [instance |-> i, roles |-> Role]
    /\ sup' = [sup EXCEPT ![i] = "ended"]
    /\ lock' = NoInstance
    /\ UNCHANGED <<maintenance, workerState, stopper, objects, indexed, copy, kills>>

\* Both children exited, or an exception: what is left of this launch is terminated undrained.
SupervisorFails(i) ==
    /\ sup[i] \in {"spawning", "halfway", "spawned", "running"}
    /\ alive' = Without(i)
    /\ busy' = [busy EXCEPT ![i] = "idle"]
    /\ record' = [instance |-> i, roles |-> Role]
    /\ sup' = [sup EXCEPT ![i] = "failed"]
    /\ lock' = NoInstance
    /\ UNCHANGED <<maintenance, workerState, stopper, objects, indexed, copy, kills>>

\* stop() has looked at status; its request is written later, whatever happened since.
StopReads(s) ==
    /\ stopper[s] = NoStop /\ Seen /= {}
    /\ stopper' = [stopper EXCEPT ![s] = [at |-> "asking", instance |-> record.instance]]
    /\ UNCHANGED <<record, lock, maintenance, workerState, sup, alive, busy, objects, indexed, copy, kills>>

StopAsks(s) ==
    /\ stopper[s].at = "asking"
    /\ maintenance' = [enabled |-> TRUE, instance |-> stopper[s].instance]
    /\ stopper' = [stopper EXCEPT ![s].at = "waiting"]
    /\ UNCHANGED <<record, lock, workerState, sup, alive, busy, objects, indexed, copy, kills>>

\* Nothing recorded is alive, or the time is up.
StopReturns(s) ==
    /\ stopper[s].at = "waiting"
    /\ stopper' = [stopper EXCEPT ![s] = NoStop]
    /\ UNCHANGED <<record, lock, maintenance, workerState, sup, alive, busy, objects, indexed, copy, kills>>

\* The supervisor is dead: stop() ends the drained children itself.
StopTakesOver(s) ==
    /\ stopper[s].at = "waiting" /\ Seen /= {} /\ "supervisor" \notin Seen
    /\ Drained(stopper[s].instance, "worker" \in Seen)
    /\ stopper' = [stopper EXCEPT ![s].at = "terminating"]
    /\ UNCHANGED <<record, lock, maintenance, workerState, sup, alive, busy, objects, indexed, copy, kills>>

\* instance.json is read once more: the processes named there now are terminated.
StopTerminates(s) ==
    /\ stopper[s].at = "terminating"
    /\ LET gone == {Process(role, record.instance) : role \in record.roles \ {"supervisor"}}
       IN /\ alive' = alive \ gone
          /\ busy' = [i \in Instance |-> IF Process("worker", i) \in gone THEN "idle" ELSE busy[i]]
    /\ stopper' = [stopper EXCEPT ![s] = NoStop]
    /\ UNCHANGED <<record, lock, maintenance, workerState, sup, objects, indexed, copy, kills>>

------------------------------------------------------------------------------
\* Backup

\* coordinated_backup, after its own stop(): under the lock nothing recorded may be alive.
\* A process that is in no record is not noticed, and may go on writing.
BackupBegins ==
    /\ copy.at = "none" /\ lock = NoInstance /\ Seen = {}
    /\ lock' = MaxInstances + 1
    /\ copy' = [NoCopy EXCEPT !.at = "database"]
    /\ UNCHANGED <<record, maintenance, workerState, sup, alive, busy, stopper, objects, indexed, kills>>

\* Artifacts first.
BackupCopiesObjectsFirst ==
    /\ copy.at \in {"database", "objects"}
    /\ copy' = IF copy.at = "database"
               THEN [copy EXCEPT !.at = "objects", !.objects = objects]
               ELSE [copy EXCEPT !.at = "done", !.rows = indexed]
    /\ lock' = IF copy.at = "objects" THEN NoInstance ELSE lock
    /\ UNCHANGED <<record, maintenance, workerState, sup, alive, busy, stopper, objects, indexed, kills>>

\* backup(): the databases, then the artifact tree.
BackupCopies ==
    /\ copy.at \in {"database", "objects"}
    /\ copy' = IF copy.at = "database"
               THEN [copy EXCEPT !.at = "objects", !.rows = indexed]
               ELSE [copy EXCEPT !.at = "done", !.objects = objects]
    /\ lock' = IF copy.at = "objects" THEN NoInstance ELSE lock
    /\ UNCHANGED <<record, maintenance, workerState, sup, alive, busy, stopper, objects, indexed, kills>>

------------------------------------------------------------------------------
\* A kill that asks nobody: a supervisor's children live on.
Killed(role, i) ==
    /\ kills < MaxKills /\ Process(role, i) \in alive
    /\ kills' = kills + 1
    /\ alive' = alive \ {Process(role, i)}
    /\ busy' = IF role = "worker" THEN [busy EXCEPT ![i] = "idle"] ELSE busy
    /\ sup' = IF role = "supervisor"
              THEN [sup EXCEPT ![i] = IF @ \in {"spawning", "halfway", "spawned"} THEN "unrecorded" ELSE "ended"]
              ELSE sup
    /\ lock' = IF role = "supervisor" /\ lock = i THEN NoInstance ELSE lock
    /\ UNCHANGED <<record, maintenance, workerState, stopper, objects, indexed, copy>>

LifecycleInit ==
    /\ record = [instance |-> NoInstance, roles |-> {}]
    /\ lock = NoInstance
    /\ maintenance = [enabled |-> FALSE, instance |-> NoInstance]
    /\ workerState = [instance |-> NoInstance, status |-> "none"]
    /\ sup = [i \in Instance |-> "none"]
    /\ alive = {}
    /\ busy = [i \in Instance |-> "idle"]
    /\ stopper = [s \in Stopper |-> NoStop]
    /\ objects = {} /\ indexed = {}
    /\ copy = NoCopy
    /\ kills = 0

LifecycleNext ==
    \/ \E i \in Instance :
          \/ Launch(i) \/ SupervisorRefuses(i) \/ SupervisorBegins(i) \/ SupervisorSpawns(i)
          \/ SupervisorRecords(i) \/ SupervisorStops(i) \/ SupervisorFails(i)
          \/ WorkerLooks(i) \/ WorkerClaims(i) \/ WorkerRunEnds(i) \/ WorkerAcks(i)
          \/ \E role \in Role : Killed(role, i)
    \/ \E s \in Stopper :
          StopReads(s) \/ StopAsks(s) \/ StopReturns(s) \/ StopTakesOver(s) \/ StopTerminates(s)
    \/ \E a \in Object : WriteObject(a)
    \/ BackupBegins \/ BackupCopies

LifecycleSpec == LifecycleInit /\ [][LifecycleNext]_ivars

------------------------------------------------------------------------------
\* instance.json, the shared rows and the processes keep their shapes (Supervisor).
LifecycleTypeOK ==
    /\ record \in [instance : 0 .. MaxInstances, roles : SUBSET Role]
    /\ lock \in 0 .. MaxInstances + 1
    /\ maintenance \in [enabled : BOOLEAN, instance : 0 .. MaxInstances]
    /\ workerState \in [instance : 0 .. MaxInstances, status : {"none", "ready", "running", "drained"}]
    /\ sup \in [Instance -> {"none", "launched", "spawning", "halfway", "spawned", "running", "ended",
                             "failed", "unrecorded"}]
    /\ alive \subseteq Role \X Instance
    /\ busy \in [Instance -> {"idle", "claiming", "busy"}]
    /\ stopper \in [Stopper -> [at : {"none", "asking", "waiting", "terminating"},
                                instance : 0 .. MaxInstances]]
    /\ objects \subseteq Object /\ indexed \subseteq objects
    /\ copy \in [at : {"none", "database", "objects", "done"}, rows : SUBSET Object,
                 objects : SUBSET Object]
    /\ kills \in 0 .. MaxKills

\* Supervisor.run's check of the recorded processes: two workers share the data directory only
\* if the supervisor of one was killed before it had written its children down.
OneRecordedWorker ==
    \A i, j \in Instance :
        (i /= j /\ Process("worker", i) \in alive /\ Process("worker", j) \in alive) =>
            "unrecorded" \in {sup[i], sup[j]}

\* stop() and the supervisor's loop: a worker that still has a run is ended only by an
\* exception of its supervisor, or by a stop command that drained another instance.
DrainedBeforeStop ==
    [][\A i \in Instance :
          (busy[i] = "busy" /\ Process("worker", i) \in alive /\ Process("worker", i) \notin alive') =>
              \/ kills' /= kills
              \/ sup'[i] = "failed"
              \/ \E s \in Stopper : stopper[s].at = "terminating" /\ stopper[s].instance /= i]_ivars

\* backup(): every artifact row in a finished backup has its file in it, even when a process
\* nobody recorded was writing meanwhile.
BackupWhole == copy.at = "done" => copy.rows \subseteq copy.objects

\* Supervisor.run and backup(): one recorded worker, and backups with every file their rows name.
InstancesSound == OneRecordedWorker /\ BackupWhole
=============================================================================
