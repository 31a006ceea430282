----------------------- MODULE InstanceLifecycleProofs -----------------------
(***************************************************************************)
(* One recorded worker, whole backups and drained stops, for any number of  *)
(* starts, stop commands, kills and artifacts.                              *)
(***************************************************************************)
EXTENDS InstanceLifecycle, TLAPS

\* The names of the states and processes of an instance.
Holding == {"spawning", "halfway", "spawned", "running"}       \* supervisors that hold the lock
Gone == {"ended", "failed", "unrecorded"}
Alive(role, i) == Process(role, i) \in alive
Recorded(i) == Alive("worker", i) /\ sup[i] /= "unrecorded"
Idle(i) == maintenance.enabled /\ busy[i] = "idle"

\* No process is two, and no id stands for none or for a backup.
LEMMA Distinct ==
    /\ \A r, q \in Role, i, j \in Instance : Process(r, i) = Process(q, j) <=> r = q /\ i = j
    /\ \A i \in Instance : i \in 0 .. MaxInstances /\ i /= NoInstance /\ i /= MaxInstances + 1
    /\ NoInstance /= MaxInstances + 1 /\ NoInstance \in 0 .. MaxInstances /\ NoInstance \notin Instance
    /\ {"supervisor", "api", "worker"} = Role
  BY LifecycleAssumption DEF Process, Instance, NoInstance, Role

\* The lock, the record and the processes: the supervisor that holds the lock is the one in the
\* record; a worker without its supervisor is in the record, or was never written down.
Holder == \A i \in Instance : sup[i] \in Holding <=> lock = i
\* A live supervisor is in the state it says it is.
Supervised == \A i \in Instance : Alive("supervisor", i) <=> sup[i] \in Holding \cup {"launched"}
Accounted == \A i \in Instance : Recorded(i) =>
                \/ sup[i] \in {"spawned", "running"}
                \/ sup[i] = "ended" /\ record.instance = i /\ record.roles = Role
Unstarted == \A i \in Instance : sup[i] \in {"none", "launched"} => ~Alive("worker", i)
Written ==
    /\ record.roles /= {} => record.instance \in Instance
    /\ \A i \in Instance : record.instance = i =>
           /\ sup[i] \notin {"none", "launched"} /\ record.roles \in {{"supervisor"}, Role}
           /\ sup[i] \in {"spawning", "halfway", "spawned", "unrecorded"} => record.roles = {"supervisor"}
    /\ \A i \in Instance : sup[i] \in Holding => record.instance = i
    /\ \A i \in Instance : sup[i] = "running" => record.roles = Role

\* One instance holds the lock, and its record is its own.
OwnerInv ==
    /\ Holder /\ Supervised /\ Accounted /\ Unstarted /\ Written
    /\ copy.at \in {"database", "objects"} => lock = MaxInstances + 1

\* Draining: a drained acknowledgement of a worker whose supervisor was recorded stays true,
\* because nobody ends maintenance while such a worker lives; and a stop command only ends what
\* has drained, or an instance that began after it looked.
AckTrue == \A i \in Instance :
    (Recorded(i) /\ workerState.instance = i /\ workerState.status = "drained") => Idle(i)
\* An acknowledgement and a stop are of instances that were there.
AckKnown == \A i \in Instance :
    workerState.instance = i => sup[i] \notin {"none", "launched", "spawning", "halfway"}
StopKnown == \A s \in Stopper : stopper[s].at /= "none" =>
    stopper[s].instance \in Instance /\ sup[stopper[s].instance] \notin {"none", "launched"}
StopDrained == \A s \in Stopper, i \in Instance :
    (stopper[s].at = "terminating" /\ stopper[s].instance = i) =>
        /\ sup[i] \in Gone
        /\ (record.instance = i /\ Recorded(i)) => Idle(i)

\* The inductive invariant of stopping.
DrainInv == AckTrue /\ AckKnown /\ StopKnown /\ StopDrained

\* A copy holds the rows first, and files are never removed.
CopyInv ==
    /\ copy.at = "objects" => copy.rows \subseteq objects
    /\ BackupWhole

\* The inductive invariant of an instance's life.
LifeInv == LifecycleTypeOK /\ OwnerInv /\ DrainInv /\ CopyInv

------------------------------------------------------------------------------
(* Shapes *)

\* The steps of one instance's supervisor.
Supervises(i) ==
    \/ Launch(i) \/ SupervisorRefuses(i) \/ SupervisorBegins(i) \/ SupervisorSpawns(i)
    \/ SupervisorRecords(i) \/ SupervisorStops(i) \/ SupervisorFails(i)

\* Every step of a supervisor keeps the shapes.
LEMMA SupervisorType ==
    ASSUME LifecycleTypeOK, NEW i \in Instance, Supervises(i)  PROVE LifecycleTypeOK'
<1> USE LifecycleAssumption, Distinct DEF LifecycleTypeOK
<1>1. \A role \in Role : Process(role, i) \in Role \X Instance
  BY DEF Process
<1>2. CASE Launch(i) \/ SupervisorRefuses(i) \/ SupervisorSpawns(i)
  BY <1>1, <1>2 DEF Launch, SupervisorRefuses, SupervisorSpawns
<1>3. CASE SupervisorBegins(i)
  BY <1>3 DEF SupervisorBegins
<1>4. CASE SupervisorRecords(i)
  <2>1. record' \in [instance : 0 .. MaxInstances, roles : SUBSET Role]
    BY <1>4 DEF SupervisorRecords
  <2> QED
    BY <1>4, <2>1 DEF SupervisorRecords
<1>5. CASE SupervisorStops(i) \/ SupervisorFails(i)
  <2>1. record' \in [instance : 0 .. MaxInstances, roles : SUBSET Role]
    BY <1>5 DEF SupervisorStops, SupervisorFails
  <2>2. alive' \subseteq Role \X Instance
    BY <1>5 DEF SupervisorStops, SupervisorFails, Without
  <2> QED
    BY <1>5, <2>1, <2>2 DEF SupervisorStops, SupervisorFails
<1> QED
  BY <1>2, <1>3, <1>4, <1>5 DEF Supervises

\* The steps of a worker.
Works(i) == WorkerLooks(i) \/ WorkerClaims(i) \/ WorkerRunEnds(i) \/ WorkerAcks(i)

\* So does every step of a worker,
LEMMA WorkerType ==
    ASSUME LifecycleTypeOK, NEW i \in Instance, Works(i)  PROVE LifecycleTypeOK'
<1> USE Distinct DEF LifecycleTypeOK
<1>1. CASE WorkerLooks(i) \/ WorkerClaims(i) \/ WorkerRunEnds(i)
  BY <1>1 DEF WorkerLooks, WorkerClaims, WorkerRunEnds
<1>2. CASE WorkerAcks(i)
  <2>1. AckStatus(i) \in {"none", "ready", "running", "drained"}
    BY DEF AckStatus
  <2> QED
    BY <1>2, <2>1 DEF WorkerAcks
<1> QED
  BY <1>1, <1>2 DEF Works

\* the death of a process,
LEMMA KillType ==
    ASSUME LifecycleTypeOK, NEW role \in Role, NEW i \in Instance, Killed(role, i)
    PROVE  LifecycleTypeOK'
<1> USE LifecycleAssumption, Distinct DEF LifecycleTypeOK
<1>1. kills' \in 0 .. MaxKills
  BY DEF Killed
<1>2. sup' \in [Instance -> {"none", "launched", "spawning", "halfway", "spawned", "running", "ended",
                             "failed", "unrecorded"}]
  BY DEF Killed
<1>3. busy' \in [Instance -> {"idle", "claiming", "busy"}]
  BY DEF Killed
<1>4. lock' \in 0 .. MaxInstances + 1 /\ alive' \subseteq Role \X Instance
  BY DEF Killed
<1> QED
  BY <1>1, <1>2, <1>3, <1>4 DEF Killed

\* (the steps of harness stop)
StopSteps(s) == StopReads(s) \/ StopAsks(s) \/ StopReturns(s) \/ StopTakesOver(s) \/ StopTerminates(s)

\* every step of a stop,
LEMMA StopType ==
    ASSUME LifecycleTypeOK, NEW s \in Stopper, StopSteps(s)  PROVE LifecycleTypeOK'
<1> USE Distinct DEF LifecycleTypeOK
<1> DEFINE Shape == [at : {"none", "asking", "waiting", "terminating"}, instance : 0 .. MaxInstances]
<1>0. stopper[s] \in Shape /\ NoStop \in Shape
  BY DEF NoStop
<1>1. CASE StopReads(s)
  <2>1. stopper' \in [Stopper -> Shape]
    BY <1>1 DEF StopReads
  <2> QED
    BY <1>1, <2>1 DEF StopReads
<1>2. CASE StopAsks(s)
  <2>1. stopper' \in [Stopper -> Shape]
    BY <1>0, <1>2 DEF StopAsks
  <2>2. maintenance' \in [enabled : BOOLEAN, instance : 0 .. MaxInstances]
    BY <1>0, <1>2 DEF StopAsks
  <2> QED
    BY <1>2, <2>1, <2>2 DEF StopAsks
<1>3. CASE StopReturns(s)
  BY <1>0, <1>3 DEF StopReturns
<1>4. CASE StopTakesOver(s)
  <2>1. stopper' \in [Stopper -> Shape]
    BY <1>0, <1>4 DEF StopTakesOver
  <2> QED
    BY <1>4, <2>1 DEF StopTakesOver
<1>5. CASE StopTerminates(s)
  <2>1. stopper' \in [Stopper -> Shape]
    BY <1>0, <1>5 DEF StopTerminates
  <2>2. busy' \in [Instance -> {"idle", "claiming", "busy"}] /\ alive' \subseteq Role \X Instance
    BY <1>5 DEF StopTerminates
  <2> QED
    BY <1>5, <2>1, <2>2 DEF StopTerminates
<1> QED
  BY <1>1, <1>2, <1>3, <1>4, <1>5 DEF StopSteps

\* a backup,
LEMMA BackupType ==
    ASSUME LifecycleTypeOK, BackupBegins \/ BackupCopies  PROVE LifecycleTypeOK'
<1> USE LifecycleAssumption, Distinct DEF LifecycleTypeOK
<1> DEFINE Shape == [at : {"none", "database", "objects", "done"}, rows : SUBSET Object,
                     objects : SUBSET Object]
<1>1. copy' \in Shape
  <2>1. CASE BackupBegins
    <3>1. copy' = [at |-> "database", rows |-> {}, objects |-> {}]
      BY <2>1 DEF BackupBegins, NoCopy
    <3> QED
      BY <3>1
  <2>2. CASE BackupCopies
    <3>1. copy \in Shape /\ indexed \in SUBSET Object /\ objects \in SUBSET Object
      OBVIOUS
    <3> QED
      BY <2>2, <3>1 DEF BackupCopies
  <2> QED
    BY <2>1, <2>2
<1>2. lock' \in 0 .. MaxInstances + 1
  BY DEF BackupBegins, BackupCopies
<1> QED
  BY <1>1, <1>2 DEF BackupBegins, BackupCopies

\* and a stored object.
LEMMA WriteType ==
    ASSUME LifecycleTypeOK, NEW a \in Object, WriteObject(a)  PROVE LifecycleTypeOK'
  BY DEF LifecycleTypeOK, WriteObject

------------------------------------------------------------------------------
(* Ownership *)

\* With the lock free and nothing of the record alive, whoever works was never written down.
LEMMA OnlyUnrecorded ==
    ASSUME OwnerInv, lock \notin Instance, "worker" \notin Seen, NEW i \in Instance
    PROVE  ~Recorded(i)
  BY Distinct DEF OwnerInv, Holder, Accounted, Seen, Recorded, Alive, Holding

\* Only the supervisor that got the lock owns the record.
LEMMA SupervisorOwner ==
    ASSUME LifecycleTypeOK, OwnerInv, NEW i \in Instance, Supervises(i)  PROVE OwnerInv'
<1>0. Holder /\ Supervised /\ Accounted /\ Unstarted /\ Written
  BY DEF OwnerInv
<1>1. CASE Launch(i)
  <2>1. sup[i] = "none" /\ sup'[i] = "launched" /\ \A j \in Instance \ {i} : sup'[j] = sup[j]
    BY <1>1 DEF Launch, LifecycleTypeOK
  <2>2. \A q \in Role, j \in Instance : Alive(q, j)' <=> Alive(q, j) \/ (q = "supervisor" /\ j = i)
    BY <1>1, Distinct DEF Launch, Alive
  <2>3. UNCHANGED <<record, lock, copy>>
    BY <1>1 DEF Launch
  <2>4. Holder'
    BY <1>0, <2>1, <2>3 DEF Holder, Holding
  <2>5. Supervised'
    BY <1>0, <2>1, <2>2, Distinct DEF Supervised, Holding
  <2>6. Unstarted'
    BY <1>0, <2>1, <2>2, Distinct DEF Unstarted
  <2>7. Accounted'
    BY <1>0, <2>1, <2>2, <2>3, Distinct DEF Accounted, Unstarted, Recorded
  <2>8. Written'
    BY <1>0, <2>1, <2>3 DEF Written, Holding
  <2> QED
    BY <2>3, <2>4, <2>5, <2>6, <2>7, <2>8 DEF OwnerInv
<1>2. CASE SupervisorRefuses(i)
  <2>1. sup[i] = "launched" /\ sup'[i] = "ended" /\ \A j \in Instance \ {i} : sup'[j] = sup[j]
    BY <1>2 DEF SupervisorRefuses, LifecycleTypeOK
  <2>2. \A q \in Role, j \in Instance : Alive(q, j)' <=> Alive(q, j) /\ ~(q = "supervisor" /\ j = i)
    BY <1>2, Distinct DEF SupervisorRefuses, Alive
  <2>3. UNCHANGED <<record, lock, copy>>
    BY <1>2 DEF SupervisorRefuses
  <2>4. Holder'
    BY <1>0, <2>1, <2>3 DEF Holder, Holding
  <2>5. Supervised'
    BY <1>0, <2>1, <2>2, Distinct DEF Supervised, Holding
  <2>6. Unstarted'
    BY <1>0, <2>1, <2>2, Distinct DEF Unstarted
  <2>7. Accounted'
    BY <1>0, <2>1, <2>2, <2>3, Distinct DEF Accounted, Unstarted, Recorded
  <2>8. Written'
    BY <1>0, <2>1, <2>3 DEF Written, Holding
  <2> QED
    BY <2>3, <2>4, <2>5, <2>6, <2>7, <2>8 DEF OwnerInv
<1>3. CASE SupervisorBegins(i)
  <2> USE Distinct DEF LifecycleTypeOK, OwnerInv, Holder, Supervised, Accounted, Unstarted, Written,
          Alive, Recorded, Holding
  <2>1. \A j \in Instance : ~Recorded(j) /\ sup[j] \notin Holding
    BY <1>3, OnlyUnrecorded DEF SupervisorBegins, Orphaned
  <2>2. copy.at \notin {"database", "objects"}
    BY <1>3 DEF SupervisorBegins
  <2>3. Holder' /\ Supervised' /\ Accounted' /\ Unstarted'
    BY <1>3, <2>1 DEF SupervisorBegins
  <2>4. Written'
    BY <1>3, <2>1 DEF SupervisorBegins
  <2> QED
    BY <1>3, <2>2, <2>3, <2>4 DEF SupervisorBegins
<1>4. CASE SupervisorSpawns(i)
  <2>1. /\ sup[i] \in {"spawning", "halfway"} /\ sup'[i] \in {"halfway", "spawned"}
        /\ \A j \in Instance \ {i} : sup'[j] = sup[j]
    BY <1>4 DEF SupervisorSpawns, LifecycleTypeOK
  <2>2. /\ \A j \in Instance : Alive("supervisor", j)' <=> Alive("supervisor", j)
        /\ \A j \in Instance \ {i} : Alive("worker", j)' <=> Alive("worker", j)
        /\ sup'[i] /= "spawned" => (Alive("worker", i)' <=> Alive("worker", i))
    BY SMTT(30), <1>4, <2>1, Distinct DEF SupervisorSpawns, Alive, LifecycleTypeOK
  <2>3. UNCHANGED <<record, lock, copy>>
    BY <1>4 DEF SupervisorSpawns
  <2>4. Holder'
    BY <1>0, <2>1, <2>3 DEF Holder, Holding
  <2>5. Supervised'
    BY <1>0, <2>1, <2>2, Distinct DEF Supervised, Holding
  <2>6. Unstarted'
    BY <1>0, <2>1, <2>2, Distinct DEF Unstarted
  <2>7. Accounted'
    BY <1>0, <2>1, <2>2, <2>3, Distinct DEF Accounted, Unstarted, Recorded
  <2>8. Written'
    BY <1>0, <2>1, <2>3 DEF Written, Holding
  <2> QED
    BY <2>3, <2>4, <2>5, <2>6, <2>7, <2>8 DEF OwnerInv
<1>5. CASE SupervisorRecords(i)
  <2>1. /\ sup[i] = "spawned" /\ sup'[i] = "running" /\ \A j \in Instance \ {i} : sup'[j] = sup[j]
        /\ record' = [instance |-> i, roles |-> Role] /\ UNCHANGED <<lock, alive, copy>>
    BY <1>5 DEF SupervisorRecords, LifecycleTypeOK
  <2>2. lock = i /\ record.instance = i /\ \A j \in Instance \ {i} : sup[j] \notin Holding
    BY <1>0, <2>1 DEF Holder, Written, Holding
  <2>3. Holder' /\ Supervised' /\ Unstarted'
    BY <1>0, <2>1 DEF Holder, Supervised, Unstarted, Holding, Alive
  <2>4. Accounted'
    BY <1>0, <2>1, <2>2 DEF Accounted, Recorded, Alive
  <2>5. Written'
    BY <1>0, <2>1, <2>2 DEF Written, Holding
  <2> QED
    BY <2>1, <2>3, <2>4, <2>5 DEF OwnerInv
<1>6. CASE SupervisorStops(i) \/ SupervisorFails(i)
  <2>1. \A role \in Role, j \in Instance : Alive(role, j)' <=> Alive(role, j) /\ j /= i
    BY <1>6, Distinct DEF SupervisorStops, SupervisorFails, Without, Alive
  <2>2. /\ sup[i] \in Holding /\ lock' = NoInstance
        /\ sup'[i] \in {"ended", "failed"} /\ \A j \in Instance \ {i} : sup'[j] = sup[j]
        /\ record' = [instance |-> i, roles |-> Role] /\ copy' = copy
    BY <1>6 DEF SupervisorStops, SupervisorFails, LifecycleTypeOK, Holding
  <2>3. lock = i /\ record.instance = i /\ \A j \in Instance \ {i} : sup[j] \notin Holding
    BY <1>0, <2>2 DEF Holder, Written
  <2>4. Holder'
    BY <2>2, <2>3, Distinct DEF Holder, Holding
  <2>5. Supervised'
    BY <1>0, <2>1, <2>2, Distinct DEF Supervised, Holding
  <2>6. Unstarted'
    BY <1>0, <2>1, <2>2, Distinct DEF Unstarted
  <2>7. Accounted'
    BY <1>0, <2>1, <2>2, <2>3, Distinct DEF Accounted, Recorded
  <2>8. Written'
    BY <1>0, <2>2, <2>3 DEF Written, Holding
  <2>9. (copy.at \in {"database", "objects"} => lock = MaxInstances + 1)'
    BY <2>2, <2>3, Distinct DEF OwnerInv
  <2> QED
    BY <2>4, <2>5, <2>6, <2>7, <2>8, <2>9 DEF OwnerInv
<1> QED
  BY <1>1, <1>2, <1>3, <1>4, <1>5, <1>6 DEF Supervises

\* A process that dies takes its lock with it.
LEMMA KillOwner ==
    ASSUME LifecycleTypeOK, OwnerInv, NEW role \in Role, NEW i \in Instance, Killed(role, i)
    PROVE  OwnerInv'
<1> USE Distinct DEF LifecycleTypeOK, OwnerInv, Holder, Supervised, Accounted, Unstarted, Written,
        Alive, Recorded, Holding
<1>1. \A q \in Role, j \in Instance : Alive(q, j)' <=> Alive(q, j) /\ ~(q = role /\ j = i)
  BY DEF Killed
<1>2. Alive(role, i) /\ record' = record /\ copy' = copy
  BY DEF Killed
<1>3. CASE role = "supervisor"
  <2>1. /\ sup[i] \in Holding \cup {"launched"} /\ \A j \in Instance \ {i} : sup'[j] = sup[j]
        /\ sup'[i] = IF sup[i] \in {"spawning", "halfway", "spawned"} THEN "unrecorded" ELSE "ended"
        /\ lock' = IF lock = i THEN NoInstance ELSE lock
    BY <1>2, <1>3 DEF Killed
  <2>2. Holder' /\ Supervised' /\ Unstarted'
    BY <1>1, <1>3, <2>1
  <2>3. Accounted'
    BY <1>1, <1>2, <1>3, <2>1
  <2>4. Written'
    BY <1>2, <2>1
  <2>5. (copy.at \in {"database", "objects"} => lock = MaxInstances + 1)'
    BY <1>2, <2>1
  <2> QED
    BY <2>2, <2>3, <2>4, <2>5
<1>4. CASE role /= "supervisor"
  <2>1. sup' = sup /\ lock' = lock
    BY <1>4 DEF Killed
  <2> QED
    BY ZenonT(60), <1>1, <1>2, <1>4, <2>1
<1> QED
  BY <1>3, <1>4

\* A stop command ends children only, and writes no record.
LEMMA StopOwner ==
    ASSUME LifecycleTypeOK, OwnerInv, NEW s \in Stopper, StopSteps(s)  PROVE OwnerInv'
<1> USE Distinct DEF LifecycleTypeOK, OwnerInv, Holder, Supervised, Accounted, Unstarted, Written,
        Alive, Recorded, Holding
<1>1. UNCHANGED <<record, lock, sup, copy>>
  BY DEF StopSteps, StopReads, StopAsks, StopReturns, StopTakesOver, StopTerminates
<1>2. /\ \A q \in Role, j \in Instance : Alive(q, j)' => Alive(q, j)
      /\ \A j \in Instance : Alive("supervisor", j)' <=> Alive("supervisor", j)
  <2>1. CASE StopTerminates(s)
    <3>1. \A role \in record.roles : role \in Role
      OBVIOUS
    <3>2. record.roles /= {} => record.instance \in Instance
      OBVIOUS
    <3>3. alive' = alive \ {Process(role, record.instance) : role \in record.roles \ {"supervisor"}}
      BY <2>1 DEF StopTerminates
    <3>4. \A j \in Instance : Process("supervisor", j) \notin
              {Process(role, record.instance) : role \in record.roles \ {"supervisor"}}
      BY SMTT(30), <3>1, <3>2
    <3> QED
      BY <3>3, <3>4
  <2>2. CASE ~StopTerminates(s)
    BY <2>2 DEF StopSteps, StopReads, StopAsks, StopReturns, StopTakesOver
  <2> QED
    BY <2>1, <2>2
<1> QED
  BY <1>1, <1>2

\* A backup leaves the owner alone.
LEMMA BackupOwner ==
    ASSUME LifecycleTypeOK, OwnerInv, BackupBegins \/ BackupCopies  PROVE OwnerInv'
<1> USE Distinct DEF LifecycleTypeOK, OwnerInv, Holder, Supervised, Accounted, Unstarted, Written,
        Alive, Recorded, Holding
<1>0. MaxInstances + 1 \notin Instance
  OBVIOUS
<1>1. UNCHANGED <<record, sup, alive>> /\ lock \notin Instance /\ lock' \notin Instance
  BY <1>0 DEF BackupBegins, BackupCopies
<1>2. (copy.at \in {"database", "objects"} => lock = MaxInstances + 1)'
  <2>1. CASE BackupBegins
    BY <2>1 DEF BackupBegins
  <2>2. CASE BackupCopies
    <3>1. copy.at = "objects" => copy' = [copy EXCEPT !.at = "done", !.objects = objects]
      BY <2>2 DEF BackupCopies
    <3> QED
      BY <2>2, <3>1 DEF BackupCopies
  <2> QED
    BY <2>1, <2>2
<1> QED
  BY <1>1, <1>2

------------------------------------------------------------------------------
(* Draining *)

\* A supervisor changes nothing about instances that have ended, and what it ends is gone.
LEMMA SupervisorDrain ==
    ASSUME LifecycleTypeOK, OwnerInv, DrainInv, NEW i \in Instance, Supervises(i)  PROVE DrainInv'
<1>0. /\ Holder /\ Supervised /\ Accounted /\ Unstarted /\ Written
      /\ AckTrue /\ AckKnown /\ StopKnown /\ StopDrained
  BY DEF OwnerInv, DrainInv
<1>1. /\ UNCHANGED <<workerState, stopper>>
      /\ \A j \in Instance \ {i} : sup'[j] = sup[j]
      /\ sup[i] = "none" => sup'[i] = "launched"
      /\ sup[i] = "launched" => sup'[i] \in {"ended", "spawning"}
      /\ sup[i] \notin {"none", "launched"} => sup'[i] \notin {"none", "launched", "unrecorded"}
      /\ sup[i] \in {"none", "launched"} \cup Holding
  BY DEF Supervises, Launch, SupervisorRefuses, SupervisorBegins, SupervisorSpawns, SupervisorRecords,
     SupervisorStops, SupervisorFails, LifecycleTypeOK, Holding
<1>2. StopKnown'
  BY <1>0, <1>1 DEF StopKnown
<1>3. AckKnown'
  <2>1. workerState.instance = i => sup'[i] \notin {"none", "launched", "spawning", "halfway"}
    BY <1>0, <1>1 DEF AckKnown, Supervises, Launch, SupervisorRefuses, SupervisorBegins, SupervisorSpawns,
       SupervisorRecords, SupervisorStops, SupervisorFails, LifecycleTypeOK
  <2> QED
    BY <1>0, <1>1, <2>1 DEF AckKnown
<1>4. \A j \in Instance \ {i} : Recorded(j)' => Recorded(j)
  <2>1. CASE SupervisorSpawns(i)
    <3>1. \A j \in Instance \ {i} : Alive("worker", j)' => Alive("worker", j)
      BY SMTT(30), <2>1, Distinct DEF SupervisorSpawns, Alive
    <3> QED
      BY <1>1, <3>1, <2>1 DEF Recorded, SupervisorSpawns
  <2>2. CASE ~SupervisorSpawns(i)
    <3>1. \A j \in Instance \ {i} : Alive("worker", j)' => Alive("worker", j)
      BY <2>2, Distinct DEF Supervises, Launch, SupervisorRefuses, SupervisorBegins,
         SupervisorRecords, SupervisorStops, SupervisorFails, Without, Alive
    <3> QED
      BY <1>1, <3>1 DEF Recorded
  <2> QED
    BY <2>1, <2>2
<1>5. \A j \in Instance : Recorded(j) /\ Idle(j) => Idle(j)'
  <2>1. CASE SupervisorBegins(i)
    BY <2>1, OnlyUnrecorded, Distinct DEF SupervisorBegins, Orphaned
  <2>2. CASE ~SupervisorBegins(i)
    BY <2>2 DEF Supervises, Launch, SupervisorRefuses, SupervisorSpawns,
       SupervisorRecords, SupervisorStops, SupervisorFails, Idle, LifecycleTypeOK
  <2> QED
    BY <2>1, <2>2
<1>6. workerState.instance = i => (Recorded(i)' => Recorded(i))
  <2>1. workerState.instance = i => sup[i] \in {"spawned", "running"}
    BY <1>0, <1>1 DEF AckKnown, Holding
  <2>2. sup[i] \in {"spawned", "running"} /\ Alive("worker", i)' => Alive("worker", i)
    BY Distinct DEF Supervises, Launch, SupervisorRefuses, SupervisorBegins, SupervisorSpawns,
       SupervisorRecords, SupervisorStops, SupervisorFails, Without, Alive
  <2> QED
    BY <1>1, <2>1, <2>2 DEF Recorded
<1>7. AckTrue'
  BY <1>0, <1>1, <1>4, <1>5, <1>6 DEF AckTrue
<1>8. StopDrained'
  <2>1. \A j \in Instance : record'.instance = j => record.instance = j \/ j = i
    BY DEF Supervises, Launch, SupervisorRefuses, SupervisorBegins, SupervisorSpawns,
       SupervisorRecords, SupervisorStops, SupervisorFails
  <2>2. \A j \in Instance : sup[j] \in Gone => j /= i
    BY <1>1 DEF Gone, Holding
  <2> QED
    BY <1>0, <1>1, <1>4, <1>5, <2>1, <2>2 DEF StopDrained
<1> QED
  BY <1>2, <1>3, <1>7, <1>8 DEF DrainInv

\* A worker takes no run while it is drained.
LEMMA WorkerDrain ==
    ASSUME LifecycleTypeOK, OwnerInv, DrainInv, NEW i \in Instance, Works(i)
    PROVE  OwnerInv' /\ DrainInv'
<1>0. Unstarted /\ Accounted /\ AckTrue /\ AckKnown /\ StopKnown /\ StopDrained
  BY DEF OwnerInv, DrainInv
<1>1. UNCHANGED <<record, lock, sup, alive, stopper, maintenance, copy>> /\ Alive("worker", i)
  BY DEF Works, WorkerLooks, WorkerClaims, WorkerRunEnds, WorkerAcks, Alive
<1>2. OwnerInv'
  BY <1>1 DEF OwnerInv, Holder, Supervised, Accounted, Unstarted, Written, Alive, Recorded
<1>3. \A j \in Instance : Idle(j) => Idle(j)'
  BY <1>1 DEF Works, WorkerLooks, WorkerClaims, WorkerRunEnds, WorkerAcks, LifecycleTypeOK, Idle
<1>4. \A j \in Instance : Recorded(j)' <=> Recorded(j)
  BY <1>1 DEF Recorded, Alive
<1>5. CASE WorkerAcks(i)
  <2>1. workerState' = [instance |-> i, status |-> AckStatus(i)] /\ UNCHANGED busy /\ busy[i] /= "claiming"
    BY <1>5 DEF WorkerAcks
  <2>2. AckStatus(i) = "drained" => Idle(i)
    BY <2>1 DEF AckStatus, Idle, LifecycleTypeOK
  <2>3. sup[i] \notin {"none", "launched", "spawning", "halfway"}
    BY <1>0, <1>1 DEF Unstarted, Accounted, Recorded
  <2>4. AckTrue' /\ AckKnown'
    BY <1>1, <1>3, <1>4, <2>1, <2>2, <2>3 DEF AckTrue, AckKnown
  <2> QED
    BY <2>4, <1>0, <1>1, <1>2, <1>3, <1>4 DEF DrainInv, StopKnown, StopDrained
<1>6. CASE ~WorkerAcks(i)
  <2>1. UNCHANGED workerState
    BY <1>6 DEF Works, WorkerLooks, WorkerClaims, WorkerRunEnds
  <2> QED
    BY <2>1, <1>0, <1>1, <1>2, <1>3, <1>4 DEF DrainInv, AckTrue, AckKnown, StopKnown, StopDrained
<1> QED
  BY <1>5, <1>6

\* A process that dies acknowledges nothing.
LEMMA KillDrain ==
    ASSUME LifecycleTypeOK, OwnerInv, DrainInv, NEW role \in Role, NEW i \in Instance, Killed(role, i)
    PROVE  DrainInv'
<1>0. /\ Supervised /\ AckTrue /\ AckKnown /\ StopKnown /\ StopDrained
  BY DEF OwnerInv, DrainInv
<1>1. UNCHANGED <<record, maintenance, workerState, stopper>>
  BY DEF Killed
<1>2. \A j \in Instance : Idle(j) => Idle(j)'
  BY <1>1 DEF Killed, Idle, LifecycleTypeOK
<1>3. \A j \in Instance : sup'[j] = sup[j] \/ (sup[j] \in Holding \cup {"launched"} /\ sup'[j] \in {"ended", "unrecorded"})
  BY <1>0 DEF Killed, Supervised, LifecycleTypeOK, Alive
<1>4. \A j \in Instance : Recorded(j)' => Recorded(j)
  <2>1. \A j \in Instance : Alive("worker", j)' => Alive("worker", j)
    BY DEF Killed, Alive
  <2> QED
    BY <1>3, <2>1 DEF Recorded, Holding
<1>5. StopDrained'
  BY <1>0, <1>1, <1>2, <1>3, <1>4 DEF StopDrained, Gone, Holding
<1>6. AckTrue' /\ AckKnown' /\ StopKnown'
  BY <1>0, <1>1, <1>2, <1>3, <1>4 DEF AckTrue, AckKnown, StopKnown, Holding
<1> QED
  BY <1>5, <1>6 DEF DrainInv

\* A stop command that takes over finds the recorded worker gone or drained.
LEMMA StopDrain ==
    ASSUME LifecycleTypeOK, OwnerInv, DrainInv, NEW s \in Stopper, StopSteps(s)  PROVE DrainInv'
<1>0. /\ Holder /\ Supervised /\ Accounted /\ Written
      /\ AckTrue /\ AckKnown /\ StopKnown /\ StopDrained
  BY DEF OwnerInv, DrainInv
<1>1. UNCHANGED <<record, workerState, sup>>
  BY DEF StopSteps, StopReads, StopAsks, StopReturns, StopTakesOver, StopTerminates
<1>2. \A j \in Instance : Idle(j) => Idle(j)'
  BY DEF StopSteps, StopReads, StopAsks, StopReturns, StopTakesOver, StopTerminates, Idle, LifecycleTypeOK
<1>3. \A j \in Instance : Recorded(j)' => Recorded(j)
  BY <1>1 DEF StopSteps, StopReads, StopAsks, StopReturns, StopTakesOver, StopTerminates, Recorded, Alive
<1>4. AckTrue' /\ AckKnown'
  BY <1>0, <1>1, <1>2, <1>3 DEF AckTrue, AckKnown
<1>5. /\ \A q \in Stopper \ {s} : stopper'[q] = stopper[q]
      /\ stopper[s].at /= "none" /\ stopper'[s].at /= "none" => stopper'[s].instance = stopper[s].instance
      /\ stopper'[s].at = "terminating" => StopTakesOver(s) /\ stopper[s].at = "waiting"
      /\ stopper'[s].at /= "none" /\ stopper[s].at = "none" => stopper'[s].instance = record.instance /\ Seen /= {}
  BY DEF StopSteps, StopReads, StopAsks, StopReturns, StopTakesOver, StopTerminates, LifecycleTypeOK, NoStop
<1>6. StopKnown'
  <2>1. Seen /= {} => record.instance \in Instance /\ sup[record.instance] \notin {"none", "launched"}
    BY <1>0 DEF Written, Seen
  <2> QED
    BY <1>0, <1>1, <1>5, <2>1 DEF StopKnown
<1>7. ASSUME NEW i \in Instance, stopper'[s].at = "terminating", stopper'[s].instance = i
      PROVE  sup[i] \in Gone /\ (record.instance = i /\ Recorded(i) => Idle(i))
  <2>1. /\ StopTakesOver(s) /\ stopper[s].instance = i /\ sup[i] \notin {"none", "launched"}
        /\ Seen /= {} /\ "supervisor" \notin Seen
    BY <1>0, <1>5, <1>7 DEF StopKnown, StopTakesOver
  <2>2. sup[i] \notin Holding
    <3>1. sup[i] \in Holding => record.instance = i /\ "supervisor" \in record.roles /\ Alive("supervisor", i)
      BY <1>0, Distinct DEF Written, Supervised
    <3> QED
      BY <2>1, <3>1 DEF Seen, Alive
  <2>3. sup[i] \in Gone
    BY <2>1, <2>2 DEF LifecycleTypeOK, Gone, Holding
  <2>4. ASSUME record.instance = i, Recorded(i)  PROVE Idle(i)
    <3>1. sup[i] \notin {"spawned", "running"}
      BY <2>2 DEF Holding
    <3>2. record.roles = Role
      BY <1>0, <2>4, <3>1 DEF Accounted
    <3>3. "worker" \in Seen
      BY <2>4, <3>2, Distinct DEF Seen, Recorded, Alive
    <3>4. workerState.instance = i /\ workerState.status = "drained"
      BY <2>1, <3>3 DEF StopTakesOver, Drained
    <3> QED
      BY <1>0, <2>4, <3>4 DEF AckTrue
  <2> QED
    BY <2>3, <2>4
<1>8. StopDrained'
  BY <1>0, <1>1, <1>2, <1>3, <1>5, <1>7 DEF StopDrained
<1> QED
  BY <1>4, <1>6, <1>8 DEF DrainInv

\* Artifacts and copies touch none of it.
Stores == (\E a \in Object : WriteObject(a)) \/ BackupBegins \/ BackupCopies

\* Storing objects stops nobody.
LEMMA StoreDrain ==
    ASSUME DrainInv, Stores  PROVE DrainInv'
<1>1. UNCHANGED <<record, maintenance, workerState, sup, alive, busy, stopper>>
  BY DEF Stores, WriteObject, BackupBegins, BackupCopies
<1> QED
  BY <1>1 DEF DrainInv, AckTrue, AckKnown, StopKnown, StopDrained, Recorded, Alive, Idle

------------------------------------------------------------------------------
(* Copies, and the theorems *)

\* A backup has the objects its copy of the index names.
LEMMA CopyKeeps ==
    ASSUME LifecycleTypeOK, CopyInv, [LifecycleNext]_ivars  PROVE CopyInv'
<1>1. CASE BackupBegins
  BY <1>1 DEF BackupBegins, NoCopy, CopyInv, BackupWhole
<1>2. CASE BackupCopies
  <2>1. CASE copy.at = "database"
    <3>1. copy' = [copy EXCEPT !.at = "objects", !.rows = indexed] /\ UNCHANGED objects
      BY <1>2, <2>1 DEF BackupCopies
    <3>2. copy'.at = "objects" /\ copy'.rows = indexed /\ indexed \subseteq objects
      BY <3>1 DEF LifecycleTypeOK
    <3> QED
      BY <3>1, <3>2 DEF CopyInv, BackupWhole
  <2>2. CASE copy.at = "objects"
    <3>1. copy' = [copy EXCEPT !.at = "done", !.objects = objects]
      BY <1>2, <2>2 DEF BackupCopies
    <3>2. copy'.at = "done" /\ copy'.rows = copy.rows /\ copy'.objects = objects
      BY <3>1 DEF LifecycleTypeOK
    <3> QED
      BY <2>2, <3>2 DEF CopyInv, BackupWhole
  <2> QED
    BY <1>2, <2>1, <2>2 DEF BackupCopies
<1>3. CASE ~BackupBegins /\ ~BackupCopies
  <2>1. UNCHANGED copy /\ objects \subseteq objects'
    BY <1>3 DEF LifecycleNext, ivars, Launch, SupervisorRefuses, SupervisorBegins, SupervisorSpawns,
       SupervisorRecords, SupervisorStops, SupervisorFails, WorkerLooks, WorkerClaims, WorkerRunEnds,
       WorkerAcks, Killed, StopReads, StopAsks, StopReturns, StopTakesOver, StopTerminates, WriteObject
  <2> QED
    BY <2>1 DEF CopyInv, BackupWhole
<1> QED
  BY <1>1, <1>2, <1>3

\* Nothing runs and nothing is stored.
LEMMA LifeInit == LifecycleInit => LifeInv
<1> SUFFICES ASSUME LifecycleInit  PROVE LifeInv
  OBVIOUS
<1> USE LifecycleAssumption, Distinct DEF LifecycleInit
<1>1. LifecycleTypeOK
  BY DEF LifecycleTypeOK, NoStop, NoCopy
<1>2. OwnerInv
  BY DEF OwnerInv, Holder, Supervised, Accounted, Unstarted, Written, Holding, Recorded, Alive, NoCopy
<1>3. DrainInv
  BY DEF DrainInv, AckTrue, AckKnown, StopKnown, StopDrained, NoStop, Recorded, Alive
<1>4. CopyInv
  BY DEF CopyInv, BackupWhole, NoCopy
<1> QED
  BY <1>1, <1>2, <1>3, <1>4 DEF LifeInv

\* Every step of supervisors, workers, stops and backups keeps it.
LEMMA LifeKeeps == LifeInv /\ [LifecycleNext]_ivars => LifeInv'
<1> SUFFICES ASSUME LifeInv, [LifecycleNext]_ivars  PROVE LifeInv'
  OBVIOUS
<1>0. LifecycleTypeOK /\ OwnerInv /\ DrainInv /\ CopyInv
  BY DEF LifeInv
<1>1. CopyInv'
  BY <1>0, CopyKeeps
<1>2. ASSUME NEW i \in Instance, Supervises(i)  PROVE LifecycleTypeOK' /\ OwnerInv' /\ DrainInv'
  BY <1>0, <1>2, SupervisorType, SupervisorOwner, SupervisorDrain
<1>3. ASSUME NEW i \in Instance, Works(i)  PROVE LifecycleTypeOK' /\ OwnerInv' /\ DrainInv'
  BY <1>0, <1>3, WorkerType, WorkerDrain
<1>4. ASSUME NEW i \in Instance, NEW role \in Role, Killed(role, i)
      PROVE  LifecycleTypeOK' /\ OwnerInv' /\ DrainInv'
  BY <1>0, <1>4, KillType, KillOwner, KillDrain
<1>5. ASSUME NEW s \in Stopper, StopSteps(s)  PROVE LifecycleTypeOK' /\ OwnerInv' /\ DrainInv'
  BY <1>0, <1>5, StopType, StopOwner, StopDrain
<1>6. ASSUME Stores  PROVE LifecycleTypeOK' /\ OwnerInv' /\ DrainInv'
  <2>1. DrainInv'
    BY <1>0, <1>6, StoreDrain
  <2>2. ASSUME NEW a \in Object, WriteObject(a)  PROVE LifecycleTypeOK' /\ OwnerInv'
    <3>1. OwnerInv'
      BY <1>0, <2>2 DEF WriteObject, OwnerInv, Holder, Supervised, Accounted, Unstarted, Written,
         Recorded, Alive
    <3> QED
      BY <1>0, <2>2, <3>1, WriteType
  <2>3. BackupBegins \/ BackupCopies => LifecycleTypeOK' /\ OwnerInv'
    BY <1>0, BackupType, BackupOwner
  <2> QED
    BY <1>6, <2>1, <2>2, <2>3 DEF Stores
<1>7. CASE UNCHANGED ivars
  <2>1. LifecycleTypeOK'
    BY <1>0, <1>7 DEF ivars, LifecycleTypeOK
  <2>2. OwnerInv'
    BY <1>0, <1>7 DEF ivars, OwnerInv, Holder, Supervised, Accounted, Unstarted, Written, Recorded, Alive
  <2>3. DrainInv'
    BY <1>0, <1>7 DEF ivars, DrainInv, AckTrue, AckKnown, StopKnown, StopDrained, Recorded, Alive, Idle
  <2> QED
    BY <1>1, <2>1, <2>2, <2>3 DEF LifeInv
<1> QED
  BY <1>1, <1>2, <1>3, <1>4, <1>5, <1>6, <1>7 DEF LifeInv, LifecycleNext, Supervises, Works, StopSteps, Stores

\* Supervisor.run, backup(): for any number of instances, stop commands and kills, two workers
\* live only if one was never written down, and a finished backup has every file its rows name.
THEOREM InstancesAreSound == LifecycleSpec => []InstancesSound
<1>1. LifeInv => InstancesSound
  <2> SUFFICES ASSUME LifeInv  PROVE OneRecordedWorker /\ BackupWhole
    BY DEF InstancesSound
  <2>1. BackupWhole
    BY DEF LifeInv, CopyInv
  <2>2. ASSUME NEW i \in Instance, NEW j \in Instance, Recorded(i), Recorded(j)  PROVE i = j
    BY <2>2 DEF LifeInv, OwnerInv, Holder, Accounted, Written, Holding
  <2> QED
    BY <2>1, <2>2 DEF OneRecordedWorker, Recorded, Alive
<1> QED
  BY <1>1, LifeInit, LifeKeeps, PTL DEF LifecycleSpec

\* stop(), the supervisor's loop: a worker with a run is ended only by a kill, by its
\* supervisor's exception, or by a stop command that asked another instance to drain.
THEOREM StopsAreDrained == LifecycleSpec => DrainedBeforeStop
<1> DEFINE EndsRightly(i) ==
        (busy[i] = "busy" /\ Process("worker", i) \in alive /\ Process("worker", i) \notin alive') =>
            \/ kills' /= kills
            \/ sup'[i] = "failed"
            \/ \E s \in Stopper : stopper[s].at = "terminating" /\ stopper[s].instance /= i
<1>1. ASSUME LifeInv, [LifecycleNext]_ivars, NEW i \in Instance  PROVE EndsRightly(i)
  <2> SUFFICES ASSUME busy[i] = "busy", Alive("worker", i), ~Alive("worker", i)'
               PROVE  \/ kills' /= kills
                      \/ sup'[i] = "failed"
                      \/ \E s \in Stopper : stopper[s].at = "terminating" /\ stopper[s].instance /= i
    BY DEF Alive
  <2>0. /\ LifecycleTypeOK /\ AckTrue /\ StopDrained /\ Written /\ ~Idle(i)
    BY <1>1 DEF LifeInv, OwnerInv, DrainInv, Idle
  <2>1. ASSUME NEW j \in Instance, Supervises(j)  PROVE sup'[i] = "failed"
    <3>1. j = i /\ (SupervisorStops(i) \/ SupervisorFails(i))
      BY <2>1, Distinct DEF Supervises, Launch, SupervisorRefuses, SupervisorBegins, SupervisorSpawns,
         SupervisorRecords, SupervisorStops, SupervisorFails, Without, Alive
    <3>2. ~SupervisorStops(i)
      BY <2>0 DEF SupervisorStops, Drained, AckTrue, Recorded, Alive
    <3> QED
      BY <2>0, <3>1, <3>2 DEF SupervisorFails, LifecycleTypeOK
  <2>2. ASSUME NEW j \in Instance, NEW role \in Role, Killed(role, j)  PROVE kills' /= kills
    BY <2>0, <2>2, LifecycleAssumption DEF Killed, LifecycleTypeOK
  <2>3. ASSUME NEW s \in Stopper, StopSteps(s)
        PROVE  stopper[s].at = "terminating" /\ stopper[s].instance /= i
    <3>1. /\ StopTerminates(s)
          /\ Process("worker", i) \in {Process(role, record.instance) : role \in record.roles \ {"supervisor"}}
      BY <2>3 DEF StopSteps, StopReads, StopAsks, StopReturns, StopTakesOver, StopTerminates, Alive
    <3>2. record.instance = i /\ "worker" \in record.roles
      <4>1. PICK role \in record.roles \ {"supervisor"} : Process("worker", i) = Process(role, record.instance)
        BY <3>1
      <4>2. record.instance \in Instance /\ role \in Role /\ "worker" \in Role
        BY <2>0, Distinct DEF Written, LifecycleTypeOK
      <4> QED
        BY <4>1, <4>2, Distinct
    <3>3. Recorded(i)
      BY <2>0, <3>2 DEF Written, Recorded
    <3> QED
      BY <2>0, <3>1, <3>2, <3>3 DEF StopTerminates, StopDrained
  <2>4. ASSUME NEW j \in Instance, Works(j)  PROVE FALSE
    BY <2>4 DEF Works, WorkerLooks, WorkerClaims, WorkerRunEnds, WorkerAcks, Alive
  <2>5. ~Stores /\ ~UNCHANGED ivars
    BY DEF Stores, WriteObject, BackupBegins, BackupCopies, ivars, Alive
  <2> QED
    BY <1>1, <2>1, <2>2, <2>3, <2>4, <2>5 DEF LifecycleNext, Supervises, Works, StopSteps, Stores
<1>2. LifeInv /\ [LifecycleNext]_ivars => [\A i \in Instance : EndsRightly(i)]_ivars
  BY <1>1
<1> QED
  BY <1>2, LifeInit, LifeKeeps, PTL DEF LifecycleSpec, DrainedBeforeStop
=============================================================================
