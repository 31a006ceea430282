------------------------- MODULE RunSchedulerProofs -------------------------
(***************************************************************************)
(* Theorems about RunScheduler, for any number of runs, branches, workers   *)
(* and calls, any limits and any set of workers that may die.               *)
(***************************************************************************)
EXTENDS RunScheduler, TLAPS

(* Facts about the operators the actions are built from. *)

\* A pause can only name interrupts of calls of the run.
LEMMA PendingType ==
    ASSUME NEW r \in Run  PROVE Pending(r) \in SUBSET Interrupt
  BY DEF Pending, Interrupt, OpsOf, Op, Special

\* A waiting settlement always lands in one of the three waiting states.
LEMMA WaitStatusType ==
    ASSUME NEW W  PROVE WaitStatus(W) \in {"needs_review", "waiting_user", "waiting_children"}
  BY DEF WaitStatus

\* What transition() does besides the status, when runs end, keeps the types.
LEMMA EndingType ==
    ASSUME TypeOK, NEW T \in SUBSET Run, NEW S \in SUBSET Run, Ending(T, S)
    PROVE  /\ owner' \in [Branch -> Run \cup {NoRun}]
           /\ ask' \in [Op -> AskStates]
           /\ grant' \in [Op -> BOOLEAN]
           /\ opState' \in [Op -> OpStates]
  BY DEF TypeOK, Ending, ReleaseBranches, CloseAsks, RevokeGrants, DropPrepared, AskStates, OpStates

-----------------------------------------------------------------------------
(* Type correctness, one lemma per group of actions *)

\* The empty database is of the right type.
LEMMA TypeInit == Init => TypeOK
  BY BoundsAssumption
  DEF Init, TypeOK, BoundsAssumption, Status, OpStates, AskStates, NoProbe, Run, NoRun

\* The requests of the API (submit, respond, cancel, reconcile) keep the types.
LEMMA TypeUser ==
    ASSUME TypeOK, User  PROVE TypeOK'
<1>1. ASSUME NEW r \in Run, NEW b \in Branch, Submit(r, b)  PROVE TypeOK'
  BY <1>1, BoundsAssumption DEF TypeOK, Submit, Insert, Status, runVars, leaseVars, opVars, waitVars, procVars, execVars, BoundsAssumption
<1>2. ASSUME NEW o \in Op, NEW answer \in AskStates, Respond(o, answer)  PROVE TypeOK'
  BY <1>2 DEF TypeOK, Respond, Resumed, Status, leaseVars, opVars, procVars, execVars
<1>3. ASSUME NEW u \in Run, Cancel(u)  PROVE TypeOK'
  <2> DEFINE ends == {d \in Marked(u) : EndsAtOnce(d)}
  <2>1. Ending(ends, Marked(u)) /\ Marked(u) \in SUBSET Run
    BY <1>3 DEF Cancel, Marked, Descendants
  <2>2. status' \in [Run -> Status] /\ cancelReq' \in [Run -> BOOLEAN]
    BY <1>3 DEF TypeOK, Cancel, Status, Terminal
  <2> QED
    BY <1>3, <2>1, <2>2, EndingType DEF TypeOK, Cancel, leaseVars, procVars, execVars
<1>4. ASSUME NEW o \in Op, NEW decision \in {"completed", "accept"}, Reconcile(o, decision)
      PROVE TypeOK'
  BY <1>4 DEF TypeOK, Reconcile, RevokeGrants, Status, OpStates, leaseVars, waitVars, procVars, execVars
<1> QED
  BY <1>1, <1>2, <1>3, <1>4 DEF User

\* The periodic duties of a worker keep the types.
LEMMA TypeTick ==
    ASSUME TypeOK, Tick  PROVE TypeOK'
<1>1. ASSUME NEW o \in Op, ExpireAsk(o)  PROVE TypeOK'
  BY <1>1 DEF TypeOK, ExpireAsk, Resumed, Status, AskStates, leaseVars, opVars, procVars, execVars
<1>2. CASE RefreshWaits
  BY <1>2 DEF TypeOK, RefreshWaits, Resumed, Status, leaseVars, opVars, procVars, execVars
<1>3. CASE FinishIdle
  <2>1. Finishing \in SUBSET Run
    BY DEF Finishing, IdleCancelling
  <2>2. Ending(Finishing, Finishing) /\ status' \in [Run -> Status]
    BY <1>3 DEF TypeOK, FinishIdle, Status, Terminal
  <2> QED
    BY <1>3, <2>1, <2>2, EndingType DEF TypeOK, FinishIdle, leaseVars, procVars, execVars
<1>4. ASSUME NEW r \in Run, LeaseExpire(r)  PROVE TypeOK'
  BY <1>4 DEF TypeOK, LeaseExpire, runVars, opVars, waitVars, procVars, execVars
<1> QED
  BY <1>1, <1>2, <1>3, <1>4 DEF Tick

\* Every step of a tool call keeps the types.
LEMMA TypeCalls ==
    ASSUME TypeOK, NEW p \in Proc, NEW r \in Run, NEW o \in Op, Calls(p, r, o)
    PROVE  TypeOK'
<1> USE DEF TypeOK, runVars, leaseVars, opVars, waitVars, procVars, execVars, OpStates, AskStates
<1>1. CASE PrepareOp(p, r, o)
  BY <1>1 DEF PrepareOp
<1>2. CASE AskUser(p, r, o)
  BY <1>2 DEF AskUser
<1>3. ASSUME NEW K \in SUBSET Run, RegisterWait(p, r, o, K)  PROVE TypeOK'
  BY <1>3 DEF RegisterWait
<1>4. CASE RefuseOp(p, r, o)
  BY <1>4 DEF RefuseOp
<1>5. CASE ConcludeSpecial(p, r, o)
  BY <1>5 DEF ConcludeSpecial
<1>6. CASE StartOp(p, r, o)
  BY <1>6 DEF StartOp
<1>7. CASE McpPause(p, r, o)
  BY <1>7 DEF McpPause
<1>8. CASE McpResume(p, r, o)
  BY <1>8 DEF McpResume
<1>9. ASSUME NEW c \in Run, NEW b \in Branch, SpawnChild(p, r, o, c, b)  PROVE TypeOK'
  <2>1. CASE effects[o] > 0
    BY <1>9, <2>1 DEF SpawnChild
  <2>2. CASE ~ (effects[o] > 0)
    <3>1. depth[r] + 1 \in 0 .. MaxDepth
      BY <1>9, <2>2, BoundsAssumption DEF SpawnChild, BoundsAssumption
    <3>2. Insert(c, r, root[r], depth[r] + 1, b) /\ effects' = [effects EXCEPT ![o] = @ + 1]
      BY <1>9, <2>2 DEF SpawnChild
    <3>3. /\ status' \in [Run -> Status] /\ parent' \in [Run -> Run \cup {NoRun}]
          /\ root' \in [Run -> Run \cup {NoRun}] /\ depth' \in [Run -> 0 .. MaxDepth]
          /\ branch' \in [Run -> Branch] /\ effects' \in [Op -> Nat]
      BY <3>1, <3>2 DEF Insert, Status
    <3> QED
      BY <1>9, <3>3 DEF SpawnChild
  <2> QED
    BY <2>1, <2>2
<1> QED
  BY <1>1, <1>2, <1>3, <1>4, <1>5, <1>6, <1>7, <1>8, <1>9 DEF Calls

\* Every settlement of a task keeps the types.
LEMMA TypeSettles ==
    ASSUME TypeOK, NEW p \in Proc, NEW r \in Run, Settles(p, r)
    PROVE  TypeOK'
<1>0. {r} \in SUBSET Run
  OBVIOUS
<1>1. CASE SettleCancelling(p, r)
  <2>1. /\ owner' \in [Branch -> Run \cup {NoRun}] /\ ask' \in [Op -> AskStates]
        /\ grant' \in [Op -> BOOLEAN] /\ opState' \in [Op -> OpStates]
    BY <1>1, <1>0, EndingType DEF SettleCancelling, TypeOK
  <2>2. status' \in [Run -> Status]
    BY SMTT(30), <1>1 DEF SettleCancelling, TypeOK, Status, Terminal
  <2>3. task' \in [Proc -> [Run -> 0 .. MaxFence]] /\ ended' \in [Run -> BOOLEAN]
    BY <1>1, BoundsAssumption DEF SettleCancelling, TypeOK, Retire, BoundsAssumption
  <2> QED
    BY <1>1, <2>1, <2>2, <2>3 DEF SettleCancelling, TypeOK, execVars
<1>2. ASSUME NEW W \in SUBSET Pending(r), SettleWaiting(p, r, W)  PROVE TypeOK'
  <2>1. W \in SUBSET Interrupt
    BY PendingType
  <2>2. status' \in [Run -> Status]
    BY <1>2, WaitStatusType DEF SettleWaiting, TypeOK, Status
  <2>3. task' \in [Proc -> [Run -> 0 .. MaxFence]] /\ ended' \in [Run -> BOOLEAN]
    BY <1>2, BoundsAssumption DEF SettleWaiting, TypeOK, Retire, BoundsAssumption
  <2>4. /\ opState' \in [Op -> OpStates] /\ ask' \in [Op -> AskStates]
        /\ bound' \in [Op -> BOOLEAN] /\ required' \in [Run -> SUBSET Interrupt]
    BY <1>2, <2>1 DEF SettleWaiting, TypeOK, OpStates, AskStates
  <2>5. done' \in [Op -> BOOLEAN]
    BY <1>2 DEF SettleWaiting, TypeOK
  <2> QED
    BY <1>2, <2>2, <2>3, <2>4, <2>5 DEF SettleWaiting, TypeOK, execVars
<1>3. ASSUME NEW final \in BOOLEAN, SettleEnd(p, r, final)  PROVE TypeOK'
  <2>1. /\ owner' \in [Branch -> Run \cup {NoRun}] /\ ask' \in [Op -> AskStates]
        /\ grant' \in [Op -> BOOLEAN] /\ opState' \in [Op -> OpStates]
    BY <1>3, <1>0, EndingType DEF SettleEnd, TypeOK
  <2>2. status' \in [Run -> Status]
    <3>1. FinalStatus(r) \in Status /\ {"failed", "needs_review"} \subseteq Status
      BY DEF FinalStatus, Status, Terminal
    <3> QED
      BY <1>3, <3>1 DEF SettleEnd, TypeOK
  <2>3. task' \in [Proc -> [Run -> 0 .. MaxFence]] /\ ended' \in [Run -> BOOLEAN]
    BY <1>3, BoundsAssumption DEF SettleEnd, TypeOK, Retire, BoundsAssumption
  <2> QED
    BY <1>3, <2>1, <2>2, <2>3 DEF SettleEnd, TypeOK, execVars
<1>4. CASE SettleRejected(p, r)
  BY <1>4, BoundsAssumption
  DEF SettleRejected, TypeOK, BoundsAssumption, runVars, leaseVars, opVars, waitVars, execVars
<1> QED
  BY <1>1, <1>2, <1>3, <1>4 DEF Settles

\* Everything a worker process does keeps the types.
LEMMA TypeWorker ==
    ASSUME TypeOK, NEW p \in Proc, Worker(p)  PROVE TypeOK'
<1>1. CASE StartProc(p)
  BY <1>1 DEF StartProc, TypeOK, runVars, leaseVars, opVars, waitVars, execVars
<1>2. CASE Crash(p)
  BY <1>2, BoundsAssumption
  DEF Crash, TypeOK, BoundsAssumption, runVars, leaseVars, opVars, waitVars
<1>3. ASSUME NEW r \in Run, Claim(p, r)  PROVE TypeOK'
  <2>1. fence[r] + 1 \in 0 .. MaxFence
    BY <1>3, BoundsAssumption DEF Claim, TypeOK, BoundsAssumption
  <2> QED
    BY <1>3, <2>1 DEF Claim, TypeOK, Status, opVars, waitVars, execVars
<1>4. ASSUME NEW r \in Run, RecoverRead(p, r)  PROVE TypeOK'
  <2>1. [run |-> r, fence |-> fence[r], alive |-> HolderAlive(r)] \in Probe
    BY <1>4, BoundsAssumption DEF RecoverRead, HolderAlive, TypeOK, Probe, BoundsAssumption
  <2> QED
    BY <1>4, <2>1 DEF RecoverRead, TypeOK, runVars, leaseVars, opVars, waitVars, execVars
<1>5. ASSUME NEW o \in Op, Act(p, o)  PROVE TypeOK'
  BY <1>5 DEF Act, TypeOK, runVars, leaseVars, opVars, waitVars, procVars
<1>6. ASSUME NEW o \in Op, NEW result \in OpStates, FinishOp(p, o, result)  PROVE TypeOK'
  BY <1>6 DEF FinishOp, TypeOK, runVars, leaseVars, waitVars, procVars
<1>7. CASE RecoverCommit(p)
  <2> DEFINE r == probe[p].run
             running == {o \in OpsOf(r) : opState[o] = "running"}
  <2>0. r \in Run
    BY <1>7 DEF RecoverCommit, TypeOK, Probe
  <2>a. \A st \in Status, doubt \in BOOLEAN : AfterLoss(st, doubt) \in Status
    BY DEF AfterLoss, Status
  <2>b. \/ status' = status
        \/ \E st \in Status : status' = [status EXCEPT ![r] = st]
    <3>1. (IF status[r] = "running" THEN "recovering" ELSE status[r]) \in Status
      BY <2>0 DEF TypeOK, Status
    <3>2. ASSUME NEW after, opState' = [o \in Op |-> IF o \in running THEN after[o] ELSE opState[o]]
          PROVE  (\E o \in OpsOf(r) : opState'[o] = "unknown") \in BOOLEAN
      OBVIOUS
    <3> QED
      BY <1>7, <2>a, <3>1, <3>2 DEF RecoverCommit
  <2>1. status' \in [Run -> Status] /\ ended' \in [Run -> BOOLEAN]
    <3>1. ended' = ended \/ ended' = [ended EXCEPT ![r] = TRUE]
      BY <1>7 DEF RecoverCommit
    <3>2. ended' \in [Run -> BOOLEAN]
      BY <3>1 DEF TypeOK
    <3>3. ASSUME NEW st \in Status, status' = [status EXCEPT ![r] = st]
          PROVE  status' \in [Run -> Status]
      BY <3>3 DEF TypeOK
    <3>4. status' = status => status' \in [Run -> Status]
      BY DEF TypeOK
    <3> QED
      BY <2>b, <3>2, <3>3, <3>4
  <2>2. grant' \in [Op -> BOOLEAN] /\ probe' \in [Proc -> Probe \cup {NoProbe}]
    <3>1. \/ grant' = grant
          \/ grant' = [o \in Op |-> grant[o] /\ (o \in OpsOf(r) => o \in running /\ cont[o])]
      BY <1>7 DEF RecoverCommit
    <3>2. probe' = [probe EXCEPT ![p] = NoProbe]
      BY <1>7 DEF RecoverCommit
    <3> QED
      BY <3>1, <3>2 DEF TypeOK
  <2>3. opState' \in [Op -> OpStates]
    <3>1. CASE opState' = opState
      BY <3>1 DEF TypeOK
    <3>2. ASSUME NEW after \in [running -> OpStates],
                 opState' = [o \in Op |-> IF o \in running THEN after[o] ELSE opState[o]]
          PROVE  opState' \in [Op -> OpStates]
      BY <3>2 DEF TypeOK
    <3> QED
      BY <1>7, <3>1, <3>2 DEF RecoverCommit
  <2> QED
    BY <1>7, <2>1, <2>2, <2>3 DEF RecoverCommit, TypeOK, waitVars, execVars
<1> QED
  BY <1>1, <1>2, <1>3, <1>4, <1>5, <1>6, <1>7, TypeCalls, TypeSettles DEF Worker

\* TypeOK holds in every reachable state, whatever the constants.
THEOREM TypeCorrect == Spec => []TypeOK
<1>1. Init => TypeOK
  BY TypeInit
<1>2. TypeOK /\ [Next]_vars => TypeOK'
  <2>1. CASE UNCHANGED vars
    BY <2>1 DEF TypeOK, vars, runVars, leaseVars, opVars, waitVars, procVars, execVars
  <2> QED
    BY <2>1, TypeUser, TypeTick, TypeWorker DEF Next
<1> QED
  BY <1>1, <1>2, PTL DEF Spec

-----------------------------------------------------------------------------
(* Cancellation is final *)

Stopping == {"cancelling", "cancelled"}

\* The request and the status agree: what makes CancelSticks inductive.
CancelInv == \A r \in Run : cancelReq[r] => status[r] \in Stopping

\* What a step does to one run that is stopping, and to requests to stop.
KeepsStopping(r) ==
    /\ status[r] \in Stopping => status'[r] \in Stopping
    /\ cancelReq[r] => cancelReq'[r]
    /\ cancelReq'[r] => cancelReq[r] \/ status'[r] \in Stopping

\* No request of the API takes a stopping run back to work.
LEMMA StopUser ==
    ASSUME TypeOK, User, NEW r \in Run  PROVE KeepsStopping(r)
<1> USE DEF KeepsStopping, Stopping, TypeOK
<1>1. ASSUME NEW q \in Run, NEW b \in Branch, Submit(q, b)  PROVE KeepsStopping(r)
  BY <1>1 DEF Submit, Insert, NextRun, Created
<1>2. ASSUME NEW o \in Op, NEW answer \in AskStates, Respond(o, answer)  PROVE KeepsStopping(r)
  BY <1>2 DEF Respond, Resumed, Wakes
<1>3. ASSUME NEW u \in Run, Cancel(u)  PROVE KeepsStopping(r)
  BY <1>3 DEF Cancel, Marked, Unfinished
<1>4. ASSUME NEW o \in Op, NEW decision \in {"completed", "accept"}, Reconcile(o, decision)
      PROVE KeepsStopping(r)
  BY <1>4 DEF Reconcile
<1> QED
  BY <1>1, <1>2, <1>3, <1>4 DEF User

\* No periodic duty takes a stopping run back to work.
LEMMA StopTick ==
    ASSUME TypeOK, Tick, NEW r \in Run  PROVE KeepsStopping(r)
<1> USE DEF KeepsStopping, Stopping, TypeOK
<1>1. ASSUME NEW o \in Op, ExpireAsk(o)  PROVE KeepsStopping(r)
  BY <1>1 DEF ExpireAsk, Resumed, Wakes
<1>2. CASE RefreshWaits
  BY <1>2 DEF RefreshWaits, Resumed, Wakes
<1>3. CASE FinishIdle
  BY <1>3 DEF FinishIdle
<1>4. ASSUME NEW q \in Run, LeaseExpire(q)  PROVE KeepsStopping(r)
  BY <1>4 DEF LeaseExpire, runVars
<1> QED
  BY <1>1, <1>2, <1>3, <1>4 DEF Tick

\* No worker takes a stopping run back to work.
LEMMA StopWorker ==
    ASSUME TypeOK, NEW p \in Proc, Worker(p), NEW r \in Run  PROVE KeepsStopping(r)
<1> USE DEF KeepsStopping, Stopping, TypeOK
<1>1. CASE StartProc(p) \/ Crash(p)
  BY <1>1 DEF StartProc, Crash, runVars
<1>2. ASSUME NEW q \in Run, Claim(p, q)  PROVE KeepsStopping(r)
  BY <1>2 DEF Claim, Claimable
<1>3. ASSUME NEW q \in Run, Settles(p, q)  PROVE KeepsStopping(r)
  <2>1. CASE SettleCancelling(p, q)
    BY <2>1 DEF SettleCancelling
  <2>2. ASSUME NEW W \in SUBSET Pending(q), SettleWaiting(p, q, W)  PROVE KeepsStopping(r)
    BY <2>2 DEF SettleWaiting
  <2>3. ASSUME NEW final \in BOOLEAN, SettleEnd(p, q, final)  PROVE KeepsStopping(r)
    BY <2>3 DEF SettleEnd
  <2>4. CASE SettleRejected(p, q)
    BY <2>4 DEF SettleRejected, runVars
  <2> QED
    BY <1>3, <2>1, <2>2, <2>3, <2>4 DEF Settles
<1>4. ASSUME NEW q \in Run, RecoverRead(p, q)  PROVE KeepsStopping(r)
  BY <1>4 DEF RecoverRead, runVars
<1>5. ASSUME NEW q \in Run, NEW o \in Op, Calls(p, q, o)  PROVE KeepsStopping(r)
  <2>1. ASSUME NEW c \in Run, NEW b \in Branch, SpawnChild(p, q, o, c, b)  PROVE KeepsStopping(r)
    BY <2>1 DEF SpawnChild, Insert, NextRun, Created
  <2>2. CASE \A c \in Run, b \in Branch : ~SpawnChild(p, q, o, c, b)
    BY <1>5, <2>2 DEF Calls, PrepareOp, AskUser, RegisterWait, RefuseOp, ConcludeSpecial,
         StartOp, McpPause, McpResume, runVars
  <2> QED
    BY <2>1, <2>2
<1>6. ASSUME NEW o \in Op, Act(p, o)  PROVE KeepsStopping(r)
  BY <1>6 DEF Act, runVars
<1>7. ASSUME NEW o \in Op, NEW result \in OpStates, FinishOp(p, o, result)  PROVE KeepsStopping(r)
  BY <1>7 DEF FinishOp, runVars
<1>8. CASE RecoverCommit(p)
  <2> DEFINE q == probe[p].run
             st == IF status[q] = "running" THEN "recovering" ELSE status[q]
  <2>1. \/ status' = status
        \/ status' = [status EXCEPT ![q] = st]
        \/ \E doubt \in BOOLEAN : status' = [status EXCEPT ![q] = AfterLoss(st, doubt)]
    BY <1>8 DEF RecoverCommit
  <2>2. status[q] \in Stopping => \A doubt \in BOOLEAN : AfterLoss(st, doubt) = status[q]
    BY DEF AfterLoss
  <2>3. cancelReq' = cancelReq
    BY <1>8 DEF RecoverCommit
  <2> QED
    BY <2>1, <2>2, <2>3
<1> QED
  BY <1>1, <1>2, <1>3, <1>4, <1>5, <1>6, <1>7, <1>8 DEF Worker

\* No step at all takes a stopping run back to work.
LEMMA StopStep ==
    ASSUME TypeOK, [Next]_vars, NEW r \in Run  PROVE KeepsStopping(r)
<1>1. CASE UNCHANGED vars
  BY <1>1 DEF KeepsStopping, vars, runVars
<1> QED
  BY <1>1, StopUser, StopTick, StopWorker DEF Next

\* CancelSticks for every instance: no answer, expiry, recovery, review or settlement brings
\* a cancelled run back.
THEOREM CancelIsFinal == Spec => CancelSticks
<1>1. Init => CancelInv
  BY DEF Init, CancelInv
<1>2. TypeOK /\ CancelInv /\ [Next]_vars => CancelInv'
  BY StopStep DEF CancelInv, KeepsStopping
<1>3. TypeOK /\ CancelInv /\ [Next]_vars =>
        \A r \in Run : cancelReq[r] => cancelReq'[r] /\ status'[r] \in {"cancelling", "cancelled"}
  BY StopStep DEF CancelInv, KeepsStopping, Stopping
<1> QED
  BY <1>1, <1>2, <1>3, TypeCorrect, PTL DEF Spec, CancelSticks

-----------------------------------------------------------------------------
(* One effect per call, and none before its approval *)

\* Calls whose effect lies outside the database.
External == FileOp \cup ExternalOp \cup McpOp

\* A call not yet started, or back in "prepared", has left no mark and no executor holds
\* it; one started but not performed has left no mark either.
Unmarked(o) ==
    /\ execBy[o] # NoProc => opState[o] \notin {"none", "prepared"}
    /\ opState[o] \in {"none", "prepared"} => effects[o] = 0
    /\ ~acted[o] => effects[o] = 0
    /\ effects[o] <= 1

\* An executor holds a call that needs approval, or has performed it, only if approved.
Consented(o) == effects[o] > 0 \/ execBy[o] # NoProc => ask[o] = "approved"

\* What makes AtMostOnceEffect inductive.
OnceInv ==
    /\ \A o \in External : Unmarked(o)
    /\ \A o \in DelegateOp : effects[o] <= 1
    /\ \A o \in Approval : Consented(o)

\* Every action but the ones below leaves the executors, their progress and the marks alone,
\* returns no call to "prepared", and touches no answered question.
Harmless ==
    /\ UNCHANGED <<execBy, acted, effects>>
    /\ \A o \in Op : /\ opState'[o] \in {"none", "prepared"} => opState[o] \in {"none", "prepared"}
                     /\ execBy[o] # NoProc /\ opState[o] \notin {"none", "prepared"}
                          => opState'[o] \notin {"none", "prepared"}
                     /\ ask[o] = "approved" => ask'[o] = "approved"

\* A step that touches no call keeps the ledger in agreement with the world.
LEMMA HarmlessKeeps == OnceInv /\ Harmless => OnceInv'
  BY OpAssumption DEF OnceInv, Harmless, Unmarked, Consented, External, Op, OpAssumption

\* The requests of the API carry out no call and authorize none.
LEMMA OnceUser ==
    ASSUME TypeOK, User  PROVE Harmless
<1> USE DEF TypeOK, Harmless, execVars, opVars, waitVars
<1>1. ASSUME NEW q \in Run, NEW b \in Branch, Submit(q, b)  PROVE Harmless
  BY <1>1 DEF Submit
<1>2. ASSUME NEW o \in Op, NEW answer \in AskStates, Respond(o, answer)  PROVE Harmless
  BY <1>2 DEF Respond
<1>3. ASSUME NEW u \in Run, Cancel(u)  PROVE Harmless
  BY <1>3 DEF Cancel, Ending, CloseAsks, DropPrepared
<1>4. ASSUME NEW o \in Op, NEW decision \in {"completed", "accept"}, Reconcile(o, decision)
      PROVE Harmless
  BY <1>4 DEF Reconcile
<1> QED
  BY <1>1, <1>2, <1>3, <1>4 DEF User

\* The periodic duties carry out no call and authorize none.
LEMMA OnceTick ==
    ASSUME TypeOK, Tick  PROVE Harmless
<1> USE DEF TypeOK, Harmless, execVars, opVars, waitVars
<1>1. ASSUME NEW o \in Op, ExpireAsk(o)  PROVE Harmless
  BY <1>1 DEF ExpireAsk
<1>2. CASE RefreshWaits
  BY <1>2 DEF RefreshWaits
<1>3. CASE FinishIdle
  BY <1>3 DEF FinishIdle, Ending, CloseAsks, DropPrepared
<1>4. ASSUME NEW q \in Run, LeaseExpire(q)  PROVE Harmless
  BY <1>4 DEF LeaseExpire
<1> QED
  BY <1>1, <1>2, <1>3, <1>4 DEF Tick

\* Settling a task carries out no call and makes none repeatable.
LEMMA OnceSettles ==
    ASSUME TypeOK, NEW p \in Proc, NEW r \in Run, Settles(p, r)  PROVE Harmless
<1> USE DEF TypeOK, Harmless, execVars, opVars, waitVars
<1>1. CASE SettleCancelling(p, r)
  BY ZenonT(60), <1>1 DEF SettleCancelling, Ending, CloseAsks, DropPrepared
<1>2. ASSUME NEW W \in SUBSET Pending(r), SettleWaiting(p, r, W)  PROVE Harmless
  BY SMTT(30), <1>2 DEF SettleWaiting, Pending
<1>3. ASSUME NEW final \in BOOLEAN, SettleEnd(p, r, final)  PROVE Harmless
  BY ZenonT(60), <1>3 DEF SettleEnd, Ending, CloseAsks, DropPrepared
<1>4. CASE SettleRejected(p, r)
  BY <1>4 DEF SettleRejected
<1> QED
  BY <1>1, <1>2, <1>3, <1>4 DEF Settles

\* The assumption on the kinds of calls, as the proofs below use it.
LEMMA Kinds ==
    /\ External \subseteq Op /\ DelegateOp \subseteq Op /\ Approval \subseteq External
    /\ \A o \in McpOp : o \in External /\ o \notin Approval /\ o \notin DelegateOp
    /\ \A o \in DelegateOp : o \notin External /\ o \notin Approval
  BY OpAssumption DEF External, Op, OpAssumption

\* The steps of a call keep effects and approvals in agreement with the ledger.
LEMMA OnceCalls ==
    ASSUME TypeOK, OnceInv, NEW p \in Proc, NEW r \in Run, NEW o \in Op, Calls(p, r, o)
    PROVE  OnceInv'
<1>1. CASE \/ PrepareOp(p, r, o) \/ AskUser(p, r, o) \/ RefuseOp(p, r, o)
           \/ ConcludeSpecial(p, r, o) \/ \E K \in SUBSET Run : RegisterWait(p, r, o, K)
  <2> USE DEF TypeOK, Harmless, execVars, opVars, waitVars
  <2>1. CASE PrepareOp(p, r, o)
    BY <2>1, HarmlessKeeps DEF PrepareOp
  <2>2. CASE AskUser(p, r, o)
    BY <2>2, HarmlessKeeps DEF AskUser
  <2>3. CASE RefuseOp(p, r, o)
    BY <2>3, HarmlessKeeps DEF RefuseOp
  <2>4. CASE ConcludeSpecial(p, r, o)
    BY <2>4, HarmlessKeeps DEF ConcludeSpecial
  <2>5. ASSUME NEW K \in SUBSET Run, RegisterWait(p, r, o, K)  PROVE OnceInv'
    BY <2>5, HarmlessKeeps DEF RegisterWait
  <2> QED
    BY <1>1, <2>1, <2>2, <2>3, <2>4, <2>5
<1>2. CASE StartOp(p, r, o)
  <2>1. /\ execBy' = [execBy EXCEPT ![o] = p] /\ acted' = [acted EXCEPT ![o] = FALSE]
        /\ opState' = [opState EXCEPT ![o] = "running"] /\ UNCHANGED <<ask, effects>>
        /\ opState[o] = "prepared" /\ (o \in Approval => ask[o] = "approved")
    BY <1>2 DEF StartOp, Cleared, waitVars
  <2>2. \A x \in External : Unmarked(x)'
    BY <2>1, Kinds DEF TypeOK, OnceInv, Unmarked
  <2>3. \A x \in Approval : Consented(x)'
    BY <2>1, Kinds DEF TypeOK, OnceInv, Consented
  <2> QED
    BY <2>1, <2>2, <2>3 DEF OnceInv
<1>3. CASE McpPause(p, r, o) \/ McpResume(p, r, o)
  <2>1. /\ o \in McpOp /\ UNCHANGED <<acted, effects>>
        /\ \A x \in Op : x # o => /\ execBy'[x] = execBy[x] /\ opState'[x] = opState[x]
                                  /\ ask'[x] = ask[x]
    BY <1>3 DEF McpPause, McpResume, TypeOK, waitVars
  <2>2. \/ execBy'[o] = NoProc /\ opState'[o] = opState[o]
        \/ opState'[o] \in {"running", "unknown"}
    BY <1>3 DEF McpPause, McpResume, TypeOK
  <2>3. \A x \in External : Unmarked(x)'
    BY <2>1, <2>2, Kinds DEF OnceInv, Unmarked
  <2>4. \A x \in Approval : Consented(x)'
    BY <2>1, Kinds DEF OnceInv, Consented
  <2> QED
    BY <2>1, <2>3, <2>4 DEF OnceInv
<1>4. ASSUME NEW c \in Run, NEW b \in Branch, SpawnChild(p, r, o, c, b)  PROVE OnceInv'
  <2>1. /\ o \in DelegateOp /\ UNCHANGED <<execBy, opState, ask>>
        /\ acted' = [acted EXCEPT ![o] = TRUE]
        /\ effects' = effects \/ (~ (effects[o] > 0) /\ effects' = [effects EXCEPT ![o] = @ + 1])
    BY <1>4 DEF SpawnChild, opVars, waitVars
  <2>2. \A x \in External : Unmarked(x)'
    BY <2>1, Kinds DEF TypeOK, OnceInv, Unmarked
  <2>3. \A x \in Approval : Consented(x)'
    BY ZenonT(60), <2>1, Kinds DEF TypeOK, OnceInv, Consented
  <2>4. ASSUME NEW x \in DelegateOp  PROVE effects'[x] <= 1
    <3>1. effects[x] \in Nat /\ effects[x] <= 1
      BY Kinds DEF TypeOK, OnceInv
    <3>2. effects'[x] = effects[x] \/ (x = o /\ ~ (effects[o] > 0) /\ effects'[x] = effects[x] + 1)
      BY <2>1, Kinds DEF TypeOK
    <3> QED
      BY <3>1, <3>2
  <2> QED
    BY <2>2, <2>3, <2>4 DEF OnceInv
<1> QED
  BY <1>1, <1>2, <1>3, <1>4 DEF Calls

\* Workers, recovery included, keep effects and approvals in agreement with the ledger.
LEMMA OnceWorker ==
    ASSUME TypeOK, OnceInv, NEW p \in Proc, Worker(p)  PROVE OnceInv'
<1>1. CASE StartProc(p)
  BY <1>1, HarmlessKeeps DEF StartProc, Harmless, execVars, opVars, waitVars
<1>2. CASE Crash(p)
  <2>1. /\ UNCHANGED <<opState, ask, acted, effects>>
        /\ \A o \in Op : execBy'[o] = execBy[o] \/ execBy'[o] = NoProc
    BY <1>2 DEF Crash, opVars, waitVars
  <2> QED
    BY <2>1, Kinds DEF OnceInv, Unmarked, Consented
<1>3. ASSUME NEW r \in Run, Claim(p, r) \/ RecoverRead(p, r)  PROVE OnceInv'
  BY <1>3, HarmlessKeeps DEF Claim, RecoverRead, Harmless, execVars, opVars, waitVars
<1>4. ASSUME NEW r \in Run, Settles(p, r)  PROVE OnceInv'
  BY <1>4, OnceSettles, HarmlessKeeps
<1>5. ASSUME NEW o \in Op, Act(p, o)  PROVE OnceInv'
  <2>1. \A x \in Op : x # o => effects'[x] = effects[x] /\ acted'[x] = acted[x]
    BY <1>5 DEF Act, TypeOK
  <2>2. effects'[o] = effects[o] + 1 /\ acted'[o] /\ o \in External /\ execBy[o] # NoProc
    BY <1>5, BoundsAssumption DEF Act, TypeOK, Effectful, External, BoundsAssumption
  <2>3. effects[o] = 0
    BY <1>5, <2>2 DEF Act, OnceInv, Unmarked
  <2> QED
    BY <1>5, <2>1, <2>2, <2>3, OpAssumption
    DEF Act, OnceInv, Unmarked, Consented, External, Op, OpAssumption, opVars, waitVars
<1>6. ASSUME NEW o \in Op, NEW result \in OpStates, FinishOp(p, o, result)  PROVE OnceInv'
  <2>1. result \notin {"none", "prepared"}
    BY <1>6 DEF FinishOp, Results
  <2> QED
    BY <1>6, <2>1 DEF FinishOp, TypeOK, OnceInv, Unmarked, Consented, External, Op, waitVars
<1>7. CASE RecoverCommit(p)
  <2> DEFINE running == {o \in OpsOf(probe[p].run) : opState[o] = "running"}
  <2>1. UNCHANGED <<execBy, acted, effects, ask>>
    BY <1>7 DEF RecoverCommit, execVars, waitVars
  <2>2. \A o \in External : Settled(o) \cap {"none", "prepared"} = {}
    BY OpAssumption DEF Settled, ReplaySafe, External, OpAssumption
  <2>3. \A o \in External : opState'[o] \in {"none", "prepared"} => opState'[o] = opState[o]
    <3>1. CASE opState' = opState
      BY <3>1
    <3>2. ASSUME NEW after \in [running -> OpStates], \A o \in running : after[o] \in Settled(o),
                 opState' = [o \in Op |-> IF o \in running THEN after[o] ELSE opState[o]]
          PROVE  \A o \in External : opState'[o] \in {"none", "prepared"} => opState'[o] = opState[o]
      BY <2>2, <3>2 DEF External, Op
    <3> QED
      BY <1>7, <3>1, <3>2 DEF RecoverCommit
  <2> QED
    BY <2>1, <2>3 DEF OnceInv, Unmarked, Consented
<1> QED
  BY <1>1, <1>2, <1>3, <1>4, <1>5, <1>6, <1>7, OnceCalls DEF Worker

\* OnceInv is inductive.
LEMMA OnceStep ==
    TypeOK /\ OnceInv /\ [Next]_vars => OnceInv'
<1>1. ASSUME OnceInv, UNCHANGED vars  PROVE OnceInv'
  BY <1>1 DEF OnceInv, Unmarked, Consented, vars, execVars, opVars, waitVars
<1> QED
  BY <1>1, OnceUser, OnceTick, OnceWorker, HarmlessKeeps DEF Next

\* OnceInv holds in every reachable state.
LEMMA OnceInvariant == Spec => []OnceInv
<1>1. Init => OnceInv
  BY OpAssumption DEF Init, OnceInv, Unmarked, Consented, External, Op, OpAssumption
<1> QED
  BY <1>1, OnceStep, TypeCorrect, PTL DEF Spec

\* No crash, recovery or resumption performs the effect of one call twice.
THEOREM EffectsAtMostOnce == Spec => []AtMostOnceEffect
<1>1. OnceInv => AtMostOnceEffect
  BY DEF OnceInv, Unmarked, AtMostOnceEffect, External, Effectful
<1> QED
  BY <1>1, OnceInvariant, PTL

\* A call that needs approval is performed only after the user approved it.
THEOREM ApprovalFirst == Spec => []ApprovalBeforeEffect
<1>1. OnceInv => ApprovalBeforeEffect
  BY DEF OnceInv, Consented, ApprovalBeforeEffect
<1> QED
  BY <1>1, OnceInvariant, PTL

-----------------------------------------------------------------------------
(* A branch admits one claimed run at a time *)

\* BranchExclusive, and that only created runs have been claimed.
BranchInv ==
    \A r \in Run : /\ status[r] = "none" => fence[r] = 0
                   /\ Unfinished(r) /\ fence[r] # 0 => owner[branch[r]] = r

\* Every step but a claim: nobody gains a fence, the runs that are unfinished afterwards were
\* so before in the same branch, or are new, and branches are released for ended runs only.
Releases(T) ==
    /\ fence' = fence
    /\ owner' = owner \/ owner' = ReleaseBranches(T)
    /\ \A r \in Run :
        /\ status'[r] = "none" => status[r] = "none"
        /\ Unfinished(r)' => \/ Unfinished(r) /\ branch'[r] = branch[r] /\ r \notin T
                             \/ status[r] = "none"

\* Ending runs and releasing exactly the branches they own keeps ownership intact.
LEMMA ReleaseKeeps ==
    ASSUME TypeOK, BranchInv, NEW T \in SUBSET Run, Releases(T)  PROVE BranchInv'
<1> SUFFICES ASSUME NEW r \in Run
             PROVE  /\ status'[r] = "none" => fence'[r] = 0
                    /\ Unfinished(r)' /\ fence'[r] # 0 => owner'[branch'[r]] = r
  BY DEF BranchInv
<1>1. status'[r] = "none" => fence'[r] = 0
  BY DEF Releases, BranchInv
<1>2. ASSUME Unfinished(r)', fence'[r] # 0  PROVE owner'[branch'[r]] = r
  <2>1. Unfinished(r) /\ branch'[r] = branch[r] /\ r \notin T /\ owner[branch[r]] = r
    BY <1>2 DEF Releases, BranchInv
  <2>2. branch[r] \in Branch
    BY DEF TypeOK
  <2> QED
    BY <2>1, <2>2 DEF Releases, ReleaseBranches
<1> QED
  BY <1>1, <1>2

\* So does a step that ends no run and releases no branch.
LEMMA NothingReleased ==
    ASSUME TypeOK, BranchInv, Releases({})  PROVE BranchInv'
  BY ReleaseKeeps

\* The requests of the API keep every branch with at most one started run.
LEMMA BranchUser ==
    ASSUME TypeOK, BranchInv, User  PROVE BranchInv'
<1>1. ASSUME NEW q \in Run, NEW b \in Branch, Submit(q, b)  PROVE Releases({})
  BY <1>1 DEF Submit, Insert, NextRun, Created, TypeOK, Releases, Unfinished, leaseVars
<1>2. ASSUME NEW o \in Op, NEW answer \in AskStates, Respond(o, answer)  PROVE Releases({})
  BY <1>2 DEF Respond, Resumed, Wakes, Terminal, TypeOK, Releases, Unfinished, leaseVars
<1>3. ASSUME NEW u \in Run, Cancel(u)  PROVE BranchInv'
  <2> DEFINE T == {d \in Marked(u) : EndsAtOnce(d)}
  <2>1. T \in SUBSET Run
    BY DEF Marked, Descendants
  <2>2. Releases(T)
    BY <1>3 DEF Cancel, Ending, Marked, Terminal, TypeOK, Releases, Unfinished, leaseVars
  <2> QED
    BY <2>1, <2>2, ReleaseKeeps
<1>4. ASSUME NEW o \in Op, NEW decision \in {"completed", "accept"}, Reconcile(o, decision)
      PROVE Releases({})
  BY <1>4 DEF Reconcile, Terminal, TypeOK, Releases, Unfinished, leaseVars
<1> QED
  BY <1>1, <1>2, <1>3, <1>4, NothingReleased DEF User

\* The periodic duties keep every branch with at most one started run.
LEMMA BranchTick ==
    ASSUME TypeOK, BranchInv, Tick  PROVE BranchInv'
<1>1. ASSUME NEW o \in Op, ExpireAsk(o)  PROVE Releases({})
  BY <1>1 DEF ExpireAsk, Resumed, Wakes, Terminal, TypeOK, Releases, Unfinished, leaseVars
<1>2. ASSUME RefreshWaits  PROVE Releases({})
  BY <1>2 DEF RefreshWaits, Resumed, Wakes, Terminal, TypeOK, Releases, Unfinished, leaseVars
<1>3. ASSUME FinishIdle  PROVE BranchInv'
  <2>1. Finishing \in SUBSET Run
    BY DEF Finishing, IdleCancelling
  <2>2. Releases(Finishing)
    BY <1>3 DEF FinishIdle, Ending, Terminal, TypeOK, Releases, Unfinished, leaseVars
  <2> QED
    BY <2>1, <2>2, ReleaseKeeps
<1>4. ASSUME NEW q \in Run, LeaseExpire(q)  PROVE Releases({})
  BY <1>4 DEF LeaseExpire, Releases, Unfinished, runVars
<1> QED
  BY <1>1, <1>2, <1>3, <1>4, NothingReleased DEF Tick

\* Settlements keep every branch with at most one started run.
LEMMA BranchSettles ==
    ASSUME TypeOK, BranchInv, NEW p \in Proc, NEW r \in Run, Settles(p, r)
    PROVE  BranchInv'
\* A settlement ends r in a final status, or moves it between unfinished ones.
<1>1. ASSUME NEW st \in Terminal, status' = [status EXCEPT ![r] = st],
             Ending({r}, {r}), fence' = fence, branch' = branch
      PROVE  BranchInv'
  <2>1. Releases({r})
    BY <1>1 DEF Ending, Terminal, TypeOK, Releases, Unfinished
  <2>2. {r} \in SUBSET Run
    OBVIOUS
  <2> QED
    BY <2>1, <2>2, ReleaseKeeps
<1>2. ASSUME NEW st, status' = [status EXCEPT ![r] = st], st # "none", Unfinished(r),
             UNCHANGED <<owner, fence, branch>>
      PROVE  BranchInv'
  BY <1>2, NothingReleased DEF TypeOK, Releases, Unfinished
<1>3. ASSUME UNCHANGED <<status, owner, fence, branch>>  PROVE BranchInv'
  BY <1>3 DEF BranchInv, Unfinished
<1>4. CASE SettleCancelling(p, r)
  <2>1. fence' = fence /\ branch' = branch /\ "cancelled" \in Terminal
    BY <1>4 DEF SettleCancelling, Terminal
  <2>2. \/ UNCHANGED <<status, owner>>
        \/ status' = [status EXCEPT ![r] = "cancelled"] /\ Ending({r}, {r})
    BY <1>4 DEF SettleCancelling
  <2> QED
    BY <2>1, <2>2, <1>1, <1>3
<1>5. ASSUME NEW W \in SUBSET Pending(r), SettleWaiting(p, r, W)  PROVE BranchInv'
  <2>1. Unfinished(r) /\ UNCHANGED <<owner, fence, branch>>
    BY <1>5 DEF SettleWaiting, Unfinished, Terminal
  <2>2. PICK st \in {"queued", WaitStatus(W)} : status' = [status EXCEPT ![r] = st]
    BY <1>5 DEF SettleWaiting
  <2>3. st # "none"
    BY <2>2, WaitStatusType
  <2> QED
    BY <2>1, <2>2, <2>3, <1>2
<1>6. ASSUME NEW final \in BOOLEAN, SettleEnd(p, r, final)  PROVE BranchInv'
  <2>1. fence' = fence /\ branch' = branch /\ Unfinished(r)
    BY <1>6 DEF SettleEnd, Unfinished, Terminal
  <2>2. CASE Unresolved(r) # {}
    <3>1. status' = [status EXCEPT ![r] = "needs_review"] /\ owner' = owner
      BY <1>6, <2>2 DEF SettleEnd
    <3> QED
      BY <2>1, <3>1, <1>2
  <2>3. CASE Unresolved(r) = {}
    <3>1. PICK st : /\ st = IF final THEN FinalStatus(r) ELSE "failed"
                    /\ status' = [status EXCEPT ![r] = st] /\ Ending({r}, {r})
      BY <1>6, <2>3 DEF SettleEnd
    <3>2. st \in Terminal
      BY <3>1 DEF FinalStatus, Terminal
    <3> QED
      BY <2>1, <3>1, <3>2, <1>1
  <2> QED
    BY <2>2, <2>3
<1>7. CASE SettleRejected(p, r)
  BY <1>7, <1>3 DEF SettleRejected, runVars, leaseVars
<1> QED
  BY <1>4, <1>5, <1>6, <1>7 DEF Settles

\* Claiming and recovering keep every branch with at most one started run.
LEMMA BranchWorker ==
    ASSUME TypeOK, BranchInv, NEW p \in Proc, Worker(p)  PROVE BranchInv'
<1>1. ASSUME NEW r \in Run, Claim(p, r)  PROVE BranchInv'
  <2>1. /\ owner' = [owner EXCEPT ![branch[r]] = r] /\ fence' = [fence EXCEPT ![r] = @ + 1]
        /\ status' = [status EXCEPT ![r] = "running"] /\ branch' = branch
        /\ owner[branch[r]] \in {NoRun, r}
    BY <1>1 DEF Claim, Claimable, BranchFree
  <2>2. ASSUME NEW q \in Run
        PROVE  /\ status'[q] = "none" => fence'[q] = 0
               /\ Unfinished(q)' /\ fence'[q] # 0 => owner'[branch'[q]] = q
    <3>1. CASE q = r
      BY <2>1, <3>1 DEF TypeOK
    <3>2. CASE q # r
      <4>1. status'[q] = status[q] /\ fence'[q] = fence[q] /\ q # NoRun
        BY <2>1, <3>2 DEF TypeOK, Run, NoRun
      <4>2. owner[branch[q]] = q => owner'[branch[q]] = q
        BY <2>1, <3>2, <4>1 DEF TypeOK
      <4> QED
        BY <2>1, <4>1, <4>2 DEF BranchInv, Unfinished
    <3> QED
      BY <3>1, <3>2
  <2> QED
    BY <2>2 DEF BranchInv
<1>2. ASSUME NEW r \in Run, Settles(p, r)  PROVE BranchInv'
  BY <1>2, BranchSettles
<1>3. ASSUME NEW r \in Run, NEW o \in Op, Calls(p, r, o)  PROVE BranchInv'
  <2>1. ASSUME NEW c \in Run, NEW b \in Branch, SpawnChild(p, r, o, c, b)  PROVE Releases({})
    BY <2>1 DEF SpawnChild, Insert, NextRun, Created, TypeOK, Releases, Unfinished, leaseVars
  <2>2. ASSUME \A c \in Run, b \in Branch : ~SpawnChild(p, r, o, c, b)  PROVE Releases({})
    BY <1>3, <2>2 DEF Calls, PrepareOp, AskUser, RegisterWait, RefuseOp, ConcludeSpecial,
       StartOp, McpPause, McpResume, Releases, Unfinished, leaseVars, runVars
  <2> QED
    BY <2>1, <2>2, NothingReleased
<1>4. CASE RecoverCommit(p)
  <2> DEFINE q == probe[p].run
             st == IF status[q] = "running" THEN "recovering" ELSE status[q]
  <2>1. \/ status' = status
        \/ status' = [status EXCEPT ![q] = st]
        \/ \E doubt \in BOOLEAN : status' = [status EXCEPT ![q] = AfterLoss(st, doubt)]
    BY <1>4 DEF RecoverCommit
  <2>2. \A doubt \in BOOLEAN :
           /\ AfterLoss(st, doubt) \in Terminal \cup {"none"} <=> status[q] \in Terminal \cup {"none"}
           /\ AfterLoss(st, doubt) = "none" <=> status[q] = "none"
    BY DEF AfterLoss, Terminal
  <2>3. /\ st \in Terminal \cup {"none"} <=> status[q] \in Terminal \cup {"none"}
        /\ st = "none" <=> status[q] = "none"
    BY DEF Terminal
  <2>4. fence' = fence /\ owner' = owner /\ branch' = branch
    BY <1>4 DEF RecoverCommit
  <2>5. \A r \in Run : /\ status'[r] = "none" <=> status[r] = "none"
                       /\ Unfinished(r)' <=> Unfinished(r)
    <3> HIDE DEF st
    <3> QED
      BY SMTT(30), <2>1, <2>2, <2>3 DEF TypeOK, Unfinished
  <2> QED
    BY <2>4, <2>5 DEF BranchInv
<1>5. CASE \/ StartProc(p) \/ Crash(p) \/ \E r \in Run : RecoverRead(p, r)
           \/ \E o \in Op : Act(p, o) \/ \E result \in OpStates : FinishOp(p, o, result)
  <2>1. UNCHANGED <<status, fence, owner, branch>>
    BY <1>5 DEF StartProc, Crash, RecoverRead, Act, FinishOp, runVars, leaseVars
  <2> QED
    BY <2>1 DEF BranchInv, Unfinished
<1> QED
  BY <1>1, <1>2, <1>3, <1>4, <1>5 DEF Worker

\* From its first claim to its end, a run owns its branch: two runs never write one history
\* in turns.
THEOREM OneRunPerBranch == Spec => []BranchExclusive
<1>1. Init => BranchInv
  BY DEF Init, BranchInv, Unfinished
<1>2. TypeOK /\ BranchInv /\ [Next]_vars => BranchInv'
  <2>1. ASSUME BranchInv, UNCHANGED vars  PROVE BranchInv'
    BY <2>1 DEF BranchInv, Unfinished, vars, runVars, leaseVars
  <2> QED
    BY <2>1, BranchUser, BranchTick, BranchWorker DEF Next
<1>3. BranchInv => BranchExclusive
  BY DEF BranchInv, BranchExclusive
<1> QED
  BY <1>1, <1>2, <1>3, TypeCorrect, PTL DEF Spec

-----------------------------------------------------------------------------
(* One executor per run *)

AtWork == {"running", "recovering", "cancelling"}

\* A task belongs to the process that took the run's current attempt, which has not ended.
TaskHeld(p, r) ==
    /\ proc[p] = "alive" /\ holder[r] = p
    /\ task[p][r] = fence[r] /\ ~ended[r] /\ status[r] \in AtWork

\* What a recovery read of an attempt and has not acted on: a lost lease stays lost, a dead
\* process dead.
ProbeHolds(p) ==
    /\ probe[p].fence <= fence[probe[p].run]
    /\ probe[p].fence = fence[probe[p].run] =>
           ~lease[probe[p].run] /\ (~probe[p].alive => ~HolderAlive(probe[p].run))

\* What makes SingleExecutor inductive.
WorkInv ==
    /\ \A p \in Proc, r \in Run : task[p][r] # 0 => TaskHeld(p, r)
    /\ \A r \in Run : holder[r] # NoProc => proc[holder[r]] # "new"
    /\ \A p \in Proc : probe[p] # NoProbe => ProbeHolds(p)
    /\ \A o \in Op : execBy[o] # NoProc => opRun[o] \in Run /\ task[execBy[o]][opRun[o]] # 0
    /\ \A o \in Op : opState[o] = "none" => opRun[o] = NoRun

\* A step that neither claims nor retires: tasks, attempts and processes are left alone, calls
\* stay with their run, and a run at work stays so.
WorkKept ==
    /\ UNCHANGED <<fence, holder, ended, proc, task, execBy>>
    /\ \A r \in Run : lease'[r] => lease[r]
    /\ \A r \in Run : status[r] \in AtWork =>
           status'[r] \in AtWork \/ \A p \in Proc : task[p][r] = 0
    /\ \A o \in Op : opRun[o] # NoRun => opRun'[o] = opRun[o]
    /\ \A o \in Op : opState'[o] = "none" => opState[o] = "none" /\ opRun'[o] = opRun[o]

\* What a recovery read stays true while no process comes back and fences only grow.
LEMMA ProbesStay ==
    ASSUME TypeOK, WorkInv, \A r \in Run : fence'[r] \in Nat /\ fence[r] <= fence'[r],
           \A r \in Run : fence'[r] = fence[r] =>
               (HolderAlive(r)' => HolderAlive(r)) /\ (lease'[r] => lease[r]),
           NEW p \in Proc, probe'[p] = probe[p], probe'[p] # NoProbe
    PROVE  ProbeHolds(p)'
<1>1. probe[p] \in Probe /\ ProbeHolds(p)
  BY DEF TypeOK, WorkInv
<1>2. PICK r \in Run, f \in 1 .. MaxFence, a \in BOOLEAN : probe[p] = [run |-> r, fence |-> f, alive |-> a]
  BY <1>1 DEF Probe
<1>3. fence[r] \in 0 .. MaxFence /\ MaxFence \in Nat
  BY BoundsAssumption DEF TypeOK
<1>4. f <= fence[r] /\ (f = fence[r] => ~lease[r] /\ (~a => ~HolderAlive(r)))
  BY <1>1, <1>2 DEF ProbeHolds
<1>5. f <= fence'[r] /\ (f = fence'[r] => ~lease'[r] /\ (~a => ~HolderAlive(r)'))
  BY <1>3, <1>4
<1> QED
  BY <1>2, <1>5 DEF ProbeHolds, HolderAlive

\* Fences are numbers.
LEMMA FencesCount ==
    ASSUME TypeOK  PROVE \A r \in Run : fence[r] \in Nat /\ fence[r] <= fence[r]
  BY BoundsAssumption DEF TypeOK

\* Such a step keeps the invariant.
LEMMA WorkStays ==
    ASSUME TypeOK, WorkInv, WorkKept, UNCHANGED probe  PROVE WorkInv'
<1>1. \A p \in Proc : probe'[p] # NoProbe => ProbeHolds(p)'
  <2>1. \A r \in Run : fence'[r] \in Nat /\ fence[r] <= fence'[r]
    BY FencesCount DEF WorkKept
  <2>2. \A r \in Run : (HolderAlive(r)' => HolderAlive(r)) /\ (lease'[r] => lease[r])
    BY DEF WorkKept, HolderAlive
  <2> QED
    BY <2>1, <2>2, ProbesStay
<1>2. \A p \in Proc, r \in Run : task'[p][r] # 0 => TaskHeld(p, r)'
  BY DEF WorkInv, WorkKept, TaskHeld, TypeOK
<1>3. \A o \in Op : execBy'[o] # NoProc => opRun'[o] \in Run /\ task'[execBy'[o]][opRun'[o]] # 0
  <2>1. NoRun \notin Run
    BY DEF Run, NoRun
  <2>2. \A o \in Op : opRun[o] \in Run => opRun'[o] = opRun[o]
    BY <2>1 DEF WorkKept
  <2> QED
    BY <2>2 DEF WorkInv, WorkKept
<1> QED
  BY <1>1, <1>2, <1>3 DEF WorkInv, WorkKept

\* Users take no task and end none: what they end at once holds nothing.
LEMMA WorkUser ==
    ASSUME TypeOK, WorkInv, User  PROVE WorkInv'
<1> SUFFICES WorkKept /\ UNCHANGED probe
  BY WorkStays
<1> USE DEF TypeOK, WorkKept, leaseVars, opVars, procVars, execVars, AtWork
<1>1. ASSUME NEW q \in Run, NEW b \in Branch, Submit(q, b)  PROVE WorkKept /\ UNCHANGED probe
  BY <1>1 DEF Submit, Insert, NextRun, Created
<1>2. ASSUME NEW o \in Op, NEW answer \in AskStates, Respond(o, answer)
      PROVE  WorkKept /\ UNCHANGED probe
  BY <1>2 DEF Respond, Resumed, Wakes
<1>3. ASSUME NEW q \in Run, Cancel(q)  PROVE WorkKept /\ UNCHANGED probe
  BY <1>3 DEF Cancel, Ending, DropPrepared, EndsAtOnce
<1>4. ASSUME NEW o \in Op, NEW decision \in {"completed", "accept"}, Reconcile(o, decision)
      PROVE  WorkKept /\ UNCHANGED probe
  BY <1>4 DEF Reconcile
<1> QED
  BY <1>1, <1>2, <1>3, <1>4 DEF User

\* A tick ends no run with a task: finish_idle_cancellations takes runs whose attempt ended.
LEMMA WorkTick ==
    ASSUME TypeOK, WorkInv, Tick  PROVE WorkInv'
<1> SUFFICES WorkKept /\ UNCHANGED probe
  BY WorkStays
<1> USE DEF TypeOK, WorkKept, leaseVars, opVars, procVars, execVars, AtWork
<1>1. ASSUME NEW o \in Op, ExpireAsk(o)  PROVE WorkKept /\ UNCHANGED probe
  BY <1>1 DEF ExpireAsk, Resumed, Wakes
<1>2. ASSUME RefreshWaits  PROVE WorkKept /\ UNCHANGED probe
  BY <1>2 DEF RefreshWaits, Resumed, Wakes
<1>3. ASSUME FinishIdle  PROVE WorkKept /\ UNCHANGED probe
  <2>1. \A r \in Finishing : fence[r] = 0 \/ ended[r]
    BY DEF Finishing, IdleCancelling
  <2>2. \A r \in Finishing : \A p \in Proc : r \in Run => task[p][r] = 0
    BY <2>1 DEF WorkInv, TaskHeld
  <2> QED
    BY <1>3, <2>2 DEF FinishIdle, Ending, DropPrepared
<1>4. ASSUME NEW r \in Run, LeaseExpire(r)  PROVE WorkKept /\ UNCHANGED probe
  BY <1>4 DEF LeaseExpire, runVars
<1> QED
  BY <1>1, <1>2, <1>3, <1>4 DEF Tick

\* Only a run that no task holds is queued, so a claim gives it its only task.
LEMMA WorkClaim ==
    ASSUME TypeOK, WorkInv, NEW p \in Proc, NEW r \in Run, Claim(p, r)  PROVE WorkInv'
<1> USE BoundsAssumption DEF TypeOK, Claim, execVars, opVars
<1>1. \A q \in Proc : task[q][r] = 0
  BY DEF WorkInv, TaskHeld, AtWork, Claimable
<1>2. \A q \in Proc, s \in Run : task'[q][s] # 0 => TaskHeld(q, s)'
  <2> SUFFICES ASSUME NEW q \in Proc, NEW s \in Run, task'[q][s] # 0  PROVE TaskHeld(q, s)'
    OBVIOUS
  <2>1. CASE s = r
    <3>1. q = p
      BY <1>1, <2>1
    <3> QED
      BY <2>1, <3>1 DEF TaskHeld, AtWork
  <2>2. CASE s # r
    <3>1. TaskHeld(q, s)
      BY <2>2 DEF WorkInv
    <3> QED
      BY <2>2, <3>1 DEF TaskHeld
  <2> QED
    BY <2>1, <2>2
<1>3. \A q \in Proc : probe'[q] # NoProbe => ProbeHolds(q)'
  <2>1. \A s \in Run : fence'[s] \in Nat /\ fence[s] <= fence'[s]
    OBVIOUS
  <2>2. fence'[r] # fence[r] /\ \A s \in Run \ {r} : (HolderAlive(s)' => HolderAlive(s)) /\ lease'[s] = lease[s]
    BY DEF HolderAlive
  <2>3. probe' = probe
    OBVIOUS
  <2> HIDE DEF TypeOK, Claim
  <2> QED
    BY <2>1, <2>2, <2>3, ProbesStay
<1>4. \A o \in Op : execBy'[o] # NoProc => opRun'[o] \in Run /\ task'[execBy'[o]][opRun'[o]] # 0
  BY <1>1 DEF WorkInv, Run
<1>5. \A s \in Run : holder'[s] # NoProc => proc'[holder'[s]] # "new"
  BY DEF WorkInv
<1> QED
  BY <1>2, <1>3, <1>4, <1>5 DEF WorkInv

\* Every step of a call is made for a task, or ends an executor.
LEMMA WorkCalls ==
    ASSUME TypeOK, WorkInv, NEW p \in Proc, NEW r \in Run, NEW o \in Op, Calls(p, r, o)
    PROVE  WorkInv'
<1> USE DEF TypeOK, runVars, leaseVars, opVars, procVars, execVars
<1>1. CASE PrepareOp(p, r, o)
  BY <1>1, WorkStays DEF PrepareOp, WorkKept, WorkInv, Run, NoRun
<1>2. CASE \/ AskUser(p, r, o) \/ RefuseOp(p, r, o) \/ ConcludeSpecial(p, r, o)
           \/ \E K \in SUBSET Run : RegisterWait(p, r, o, K)
  BY <1>2, WorkStays DEF AskUser, RefuseOp, ConcludeSpecial, RegisterWait, WorkKept
<1>3. ASSUME NEW c \in Run, NEW b \in Branch, SpawnChild(p, r, o, c, b)  PROVE WorkInv'
  BY <1>3, WorkStays DEF SpawnChild, Insert, NextRun, Created, WorkKept, AtWork
<1>4. CASE StartOp(p, r, o) \/ McpPause(p, r, o) \/ McpResume(p, r, o)
  <2>1. /\ UNCHANGED <<status, fence, holder, ended, lease, proc, task, probe, opRun>>
        /\ \A q \in Op : opState'[q] = "none" => opState[q] = "none"
    BY <1>4 DEF StartOp, McpPause, McpResume
  <2>2. \A q \in Proc : probe'[q] # NoProbe => ProbeHolds(q)'
    BY <2>1, ProbesStay, FencesCount DEF HolderAlive
  <2>3. \A q \in Op : execBy'[q] = execBy[q] \/ execBy'[q] = NoProc \/ (q = o /\ execBy'[q] = p)
    BY <1>4 DEF StartOp, McpPause, McpResume
  <2>4. opRun[o] = r /\ task[p][r] # 0
    BY <1>4 DEF StartOp, McpPause, McpResume, MayAct, Fenced
  <2>5. \A q \in Op : execBy'[q] # NoProc => opRun'[q] \in Run /\ task'[execBy'[q]][opRun'[q]] # 0
    BY <2>1, <2>3, <2>4 DEF WorkInv
  <2>6. \A q \in Proc, s \in Run : task'[q][s] # 0 => TaskHeld(q, s)'
    BY <2>1 DEF WorkInv, TaskHeld
  <2> QED
    BY <2>1, <2>2, <2>5, <2>6 DEF WorkInv
<1> QED
  BY <1>1, <1>2, <1>3, <1>4 DEF Calls

\* A task that reports was the run's only one, and executes nothing any more.
LEMMA WorkSettles ==
    ASSUME TypeOK, WorkInv, NEW p \in Proc, NEW r \in Run, Settles(p, r)  PROVE WorkInv'
<1> USE DEF TypeOK, runVars, leaseVars, opVars, execVars
<1> DEFINE Dropped ==
        /\ task[p][r] # 0 /\ Quiet(p, r)
        /\ task' = [task EXCEPT ![p][r] = 0]
        /\ UNCHANGED <<fence, holder, lease, proc, probe, execBy, opRun>>
        /\ \A s \in Run \ {r} : status'[s] = status[s] /\ ended'[s] = ended[s]
        /\ \A q \in Op : opState'[q] = "none" => opState[q] = "none"
<1>1. Dropped
  <2>1. CASE SettleCancelling(p, r)
    BY <2>1 DEF SettleCancelling, CanSettle, Retire, Ending, DropPrepared
  <2>2. ASSUME NEW W \in SUBSET Pending(r), SettleWaiting(p, r, W)  PROVE Dropped
    BY <2>2 DEF SettleWaiting, CanSettle, Retire
  <2>3. ASSUME NEW final \in BOOLEAN, SettleEnd(p, r, final)  PROVE Dropped
    BY <2>3 DEF SettleEnd, CanSettle, Retire, Ending, DropPrepared
  <2>4. CASE SettleRejected(p, r)
    BY <2>4 DEF SettleRejected
  <2> QED
    BY <2>1, <2>2, <2>3, <2>4 DEF Settles
<1>2. \A q \in Proc : task'[q][r] = 0
  BY <1>1 DEF WorkInv, TaskHeld
<1>3. \A q \in Proc, s \in Run : task'[q][s] # 0 => TaskHeld(q, s)'
  BY <1>1, <1>2 DEF WorkInv, TaskHeld
<1>4. \A o \in Op : execBy'[o] # NoProc => opRun'[o] \in Run /\ task'[execBy'[o]][opRun'[o]] # 0
  BY <1>1 DEF WorkInv, Quiet, OpsOf
<1>5. \A q \in Proc : probe'[q] # NoProbe => ProbeHolds(q)'
  BY <1>1, ProbesStay, FencesCount DEF HolderAlive
<1> QED
  BY <1>1, <1>3, <1>4, <1>5 DEF WorkInv

\* Recovery ends an attempt only if its process is dead, and so has no task.
LEMMA WorkRecovery ==
    ASSUME TypeOK, WorkInv, NEW p \in Proc, RecoverCommit(p)  PROVE WorkInv'
<1> DEFINE r == probe[p].run
<1> USE DEF TypeOK, waitVars, execVars
<1>1. /\ probe[p] \in Probe /\ ProbeHolds(p)
      /\ probe' = [probe EXCEPT ![p] = NoProbe]
      /\ UNCHANGED <<fence, holder, proc, task, execBy, opRun>>
  BY DEF RecoverCommit, WorkInv
<1>2. r \in Run
  BY <1>1 DEF Probe
<1>3. \/ UNCHANGED <<status, ended>>
      \/ /\ ended' = ended
         /\ status' = [status EXCEPT ![r] = IF status[r] = "running" THEN "recovering" ELSE status[r]]
      \/ /\ fence[r] = probe[p].fence /\ ~probe[p].alive
         /\ ended' = [ended EXCEPT ![r] = TRUE]
         /\ \A s \in Run \ {r} : status'[s] = status[s]
  BY <1>1 DEF RecoverCommit
<1>4. \A q \in Proc, s \in Run : task'[q][s] # 0 => TaskHeld(q, s)'
  <2>1. CASE fence[r] = probe[p].fence /\ ~probe[p].alive
    <3>1. \A q \in Proc : task[q][r] = 0
      BY <1>1, <1>2, <2>1, BoundsAssumption DEF ProbeHolds, HolderAlive, WorkInv, TaskHeld
    <3>2. \A s \in Run \ {r} : status'[s] = status[s] /\ ended'[s] = ended[s]
      <4> HIDE DEF r
      <4> QED
        BY <1>3
    <3>3. SUFFICES ASSUME NEW q \in Proc, NEW s \in Run, task'[q][s] # 0  PROVE TaskHeld(q, s)'
      OBVIOUS
    <3>4. s # r /\ TaskHeld(q, s)
      BY <1>1, <3>1, <3>3 DEF WorkInv
    <3> HIDE DEF r
    <3> QED
      BY <1>1, <3>2, <3>4 DEF TaskHeld
  <2>2. CASE ~(fence[r] = probe[p].fence /\ ~probe[p].alive)
    <3>1. ended' = ended /\ \A s \in Run : status[s] \in AtWork => status'[s] \in AtWork
      <4> HIDE DEF r
      <4> QED
        BY <1>3, <2>2 DEF AtWork
    <3> QED
      BY <1>1, <3>1 DEF WorkInv, TaskHeld
  <2> QED
    BY <2>1, <2>2
<1>5. \A o \in Op : opState'[o] = "none" => opState[o] = "none"
  <2> DEFINE running == {o \in OpsOf(r) : opState[o] = "running"}
  <2>1. \A o \in Op : "none" \notin Settled(o)
    BY DEF Settled
  <2>2. \/ opState' = opState
        \/ \E after \in [running -> OpStates] :
             /\ \A o \in running : after[o] \in Settled(o)
             /\ opState' = [o \in Op |-> IF o \in running THEN after[o] ELSE opState[o]]
    BY DEF RecoverCommit
  <2>3. running \subseteq Op
    BY DEF OpsOf
  <2> HIDE DEF running
  <2> QED
    BY <2>1, <2>2, <2>3
<1>6. \A q \in Proc : probe'[q] # NoProbe => ProbeHolds(q)'
  <2> SUFFICES ASSUME NEW q \in Proc, probe'[q] # NoProbe  PROVE ProbeHolds(q)'
    OBVIOUS
  <2>1. probe'[q] = probe[q]
    BY <1>1
  <2>2. lease' = lease /\ \A s \in Run : fence'[s] \in Nat /\ fence[s] <= fence'[s]
    BY <1>1, BoundsAssumption DEF RecoverCommit
  <2> HIDE DEF TypeOK
  <2> QED
    BY <1>1, <2>1, <2>2, ProbesStay DEF HolderAlive
<1> QED
  BY <1>1, <1>4, <1>5, <1>6 DEF WorkInv

\* The rest of a worker's steps: it starts, dies with its tasks, reads a lost run, acts, finishes.
LEMMA WorkWorker ==
    ASSUME TypeOK, WorkInv, NEW p \in Proc, Worker(p)  PROVE WorkInv'
<1> USE DEF TypeOK, runVars, leaseVars, opVars, execVars
<1>1. CASE StartProc(p)
  <2>1. \A r \in Run : HolderAlive(r)' => HolderAlive(r)
    BY <1>1 DEF StartProc, WorkInv, HolderAlive
  <2>2. \A q \in Proc : probe'[q] # NoProbe => ProbeHolds(q)'
    BY <1>1, <2>1, ProbesStay, BoundsAssumption DEF StartProc
  <2> QED
    BY <1>1, <2>2 DEF StartProc, WorkInv, TaskHeld
<1>2. CASE Crash(p)
  <2>1. \A r \in Run : HolderAlive(r)' => HolderAlive(r)
    BY <1>2 DEF Crash, HolderAlive
  <2>2. \A q \in Proc : probe'[q] # NoProbe => ProbeHolds(q)'
    BY <1>2, <2>1, ProbesStay, BoundsAssumption DEF Crash
  <2>3. \A q \in Proc, r \in Run : task'[q][r] # 0 => TaskHeld(q, r)'
    BY <1>2 DEF Crash, WorkInv, TaskHeld
  <2>4. \A o \in Op : execBy'[o] # NoProc => opRun'[o] \in Run /\ task'[execBy'[o]][opRun'[o]] # 0
    BY <1>2 DEF Crash, WorkInv
  <2> QED
    BY <1>2, <2>2, <2>3, <2>4 DEF Crash, WorkInv
<1>3. ASSUME NEW r \in Run, RecoverRead(p, r)  PROVE WorkInv'
  <2>1. probe' = [probe EXCEPT ![p] = [run |-> r, fence |-> fence[r], alive |-> HolderAlive(r)]]
    BY <1>3 DEF RecoverRead
  <2>2. ~lease[r] /\ UNCHANGED <<status, fence, holder, ended, lease, proc, task, execBy, opRun, opState>>
    BY <1>3 DEF RecoverRead
  <2>3. ProbeHolds(p)'
    <3>1. probe'[p] = [run |-> r, fence |-> fence[r], alive |-> HolderAlive(r)]
      BY <2>1
    <3>2. HolderAlive(r)' = HolderAlive(r) /\ ~lease'[r] /\ fence'[r] = fence[r] /\ fence[r] <= fence[r]
      BY <2>2, FencesCount DEF HolderAlive
    <3> QED
      BY <3>1, <3>2 DEF ProbeHolds
  <2>4. \A q \in Proc \ {p} : probe'[q] # NoProbe => ProbeHolds(q)'
    <3> SUFFICES ASSUME NEW q \in Proc \ {p}, probe'[q] # NoProbe  PROVE ProbeHolds(q)'
      OBVIOUS
    <3>1. probe'[q] = probe[q]
      BY <2>1
    <3>2. \A s \in Run : fence'[s] \in Nat /\ fence[s] <= fence'[s]
      BY <2>2, FencesCount
    <3>3. \A s \in Run : (HolderAlive(s)' => HolderAlive(s)) /\ (lease'[s] => lease[s])
      BY <2>2 DEF HolderAlive
    <3> HIDE DEF TypeOK
    <3> QED
      BY <3>1, <3>2, <3>3, ProbesStay
  <2> HIDE DEF TypeOK
  <2> QED
    BY <2>2, <2>3, <2>4 DEF WorkInv, TaskHeld
<1>4. ASSUME NEW o \in Op, Act(p, o)  PROVE WorkInv'
  BY <1>4, WorkStays DEF Act, WorkKept, procVars
<1>5. ASSUME NEW o \in Op, NEW result \in OpStates, FinishOp(p, o, result)  PROVE WorkInv'
  BY <1>5 DEF FinishOp, Results, procVars, WorkInv, TaskHeld, ProbeHolds, HolderAlive
<1> QED
  BY <1>1, <1>2, <1>3, <1>4, <1>5, WorkClaim, WorkSettles, WorkCalls, WorkRecovery DEF Worker

\* The invariant holds throughout.
LEMMA WorkHolds == Spec => []WorkInv
<1>1. Init => WorkInv
  BY DEF Init, WorkInv, TaskHeld, ProbeHolds
<1>2. TypeOK /\ WorkInv /\ [Next]_vars => WorkInv'
  <2>1. ASSUME WorkInv, UNCHANGED vars  PROVE WorkInv'
    BY <2>1 DEF WorkInv, TaskHeld, ProbeHolds, HolderAlive, vars, runVars, leaseVars, opVars,
       procVars, execVars
  <2> QED
    BY <2>1, WorkUser, WorkTick, WorkWorker DEF Next
<1> QED
  BY <1>1, <1>2, TypeCorrect, PTL DEF Spec

\* Scheduler.claim, recover: whatever leases, crashes and recoveries do, no two processes have a
\* task of one run, or a task and a call still executing: a new attempt starts only when the
\* holder of the last one was seen dead or had reported.
THEOREM OneExecutorPerRun == Spec => []SingleExecutor
<1>1. TypeOK /\ WorkInv => SingleExecutor
  BY BoundsAssumption DEF TypeOK, WorkInv, TaskHeld, SingleExecutor, Working, OpsOf
<1> QED
  BY <1>1, WorkHolds, TypeCorrect, PTL

-----------------------------------------------------------------------------
(* The ledger of a run *)

Parked == {"queued", "waiting_user", "waiting_children"}

\* A call nobody needs to settle any more.
Closed(o) ==
    opState[o] \in {"succeeded", "failed", "cancelled"} \/ (opState[o] = "unknown" /\ accepted[o])

\* What the ledger may say of a call while its run has status st.
Fits(o, st) ==
    /\ st # "none"
    /\ accepted[o] => st \in {"cancelling", "cancelled"}
    /\ st \in Parked => opState[o] \notin {"running", "unknown"}
    /\ st = "needs_review" => opState[o] # "running"
    /\ st \in Terminal => Closed(o)

\* The call's row agrees with its executor and its run: while the task holds its lease, a
\* call it left running is executing.
OpFits(o) ==
    /\ execBy[o] # NoProc => opState[o] = "running"
    /\ ~cont[o]
    /\ accepted[o] => opState[o] \in {"unknown", "succeeded"}
    /\ opRun[o] # NoRun =>
        /\ Fits(o, status[opRun[o]])
        /\ opState[o] = "running" /\ lease[opRun[o]] /\ (\E p \in Proc : task[p][opRun[o]] # 0) =>
               execBy[o] # NoProc

\* What makes LedgerClosed and ReviewActionable inductive, without MCP questions.
LedgerInv ==
    /\ \A o \in Op : OpFits(o)
    /\ \A r \in Run : status[r] = "recovering" => ~lease[r]
    /\ ReviewActionable

\* A step that touches neither a call's outcome nor its executor, and moves runs only from one
\* way of being parked to another, out of nothing, or nowhere.
Calm ==
    /\ UNCHANGED <<opRun, opState, accepted, cont, execBy>>
    /\ \A r \in Run : status'[r] # status[r] =>
           status[r] \in Parked \cup {"none"} /\ status'[r] \in Parked
    /\ \A r \in Run : lease'[r] => lease[r]
    /\ \A p \in Proc, r \in Run : task'[p][r] # 0 => task[p][r] # 0

\* Such a step keeps the invariant.
LEMMA CalmStays ==
    ASSUME TypeOK, LedgerInv, Calm  PROVE LedgerInv'
<1>1. \A o \in Op : OpFits(o)'
  <2> SUFFICES ASSUME NEW o \in Op  PROVE OpFits(o)'
    OBVIOUS
  <2>1. OpFits(o)
    BY DEF LedgerInv
  <2>2. opRun[o] # NoRun => opRun[o] \in Run
    BY DEF TypeOK
  <2>3. opRun[o] # NoRun => Fits(o, status[opRun[o]])'
    BY <2>1, <2>2 DEF OpFits, Fits, Calm, Closed, Parked, Terminal
  <2> QED
    BY <2>1, <2>2, <2>3 DEF OpFits, Calm
<1>2. \A r \in Run : status'[r] = "recovering" => ~lease'[r]
  BY DEF LedgerInv, Calm, Parked
<1>3. ReviewActionable'
  BY DEF LedgerInv, Calm, Parked, ReviewActionable, OpsOf
<1> QED
  BY <1>1, <1>2, <1>3 DEF LedgerInv

\* What the ledger says of a run that ends: nothing of it is unresolved, and what was only
\* prepared is cancelled.
LEMMA EndedCloses ==
    ASSUME TypeOK, WorkInv, LedgerInv, NEW T \in SUBSET Run, opState' = DropPrepared(T),
           accepted' = accepted, NEW o \in Op, opRun[o] \in T, Unresolved(opRun[o]) = {}
    PROVE  Closed(o)'
<1>1. opState[o] # "none"
  BY DEF WorkInv, Run, NoRun
<1>2. opState[o] \in {"prepared", "succeeded", "failed", "cancelled"} \/ (opState[o] = "unknown" /\ accepted[o])
  <2>1. opState[o] \in {"running", "unknown"} => accepted[o]
    BY DEF Unresolved, OpsOf
  <2>2. accepted[o] => opState[o] \in {"unknown", "succeeded"}
    BY DEF LedgerInv, OpFits
  <2> QED
    BY <1>1, <2>1, <2>2 DEF TypeOK, OpStates
<1> QED
  BY <1>2 DEF DropPrepared, Closed

\* A cancel ends only runs without unresolved calls, and the last reconciled call resumes its run.
LEMMA LedgerUser ==
    ASSUME TypeOK, WorkInv, LedgerInv, User  PROVE LedgerInv'
<1> USE DEF leaseVars, opVars, procVars, execVars
<1>1. ASSUME NEW q \in Run, NEW b \in Branch, Submit(q, b)  PROVE LedgerInv'
  BY <1>1, CalmStays DEF Submit, Insert, NextRun, Created, Calm, TypeOK, Parked
<1>2. ASSUME NEW o \in Op, NEW answer \in AskStates, Respond(o, answer)
      PROVE  LedgerInv'
  BY <1>2, CalmStays DEF Respond, Resumed, Wakes, Calm, TypeOK, Parked
<1>3. ASSUME NEW u \in Run, Cancel(u)  PROVE LedgerInv'
  <2> DEFINE marked == Marked(u)
             ends == {d \in marked : EndsAtOnce(d)}
  <2>1. /\ ends \in SUBSET Run
        /\ \A r \in Run : status'[r] = IF r \in ends THEN "cancelled"
                                ELSE IF r \in marked THEN "cancelling" ELSE status[r]
        /\ opState' = DropPrepared(ends)
        /\ UNCHANGED <<opRun, accepted, cont, execBy, lease, task>>
    BY <1>3 DEF Cancel, Ending, Marked, Descendants
  <2>2. \A r \in ends : status[r] \in Parked /\ Unresolved(r) = {}
    <3>1. \A r \in ends : status[r] \in Parked
      BY DEF EndsAtOnce, Parked
    <3> QED
      BY <2>1, <3>1 DEF LedgerInv, OpFits, Fits, Unresolved, OpsOf, Run, NoRun
  <2>3. \A r \in marked : status[r] \notin Terminal \cup {"none"}
    BY DEF Marked, Unfinished
  <2> HIDE DEF marked, ends
  <2>4. ASSUME NEW o \in Op  PROVE OpFits(o)'
    <3>1. OpFits(o) /\ (opRun[o] # NoRun => opRun[o] \in Run)
      BY DEF LedgerInv, TypeOK
    <3>2. opState'[o] = opState[o] \/ (opState[o] = "prepared" /\ opState'[o] = "cancelled")
      BY <2>1 DEF DropPrepared, TypeOK
    <3>3. CASE opRun[o] \in ends
      <4>1. Closed(o)'
        BY <2>1, <2>2, <3>3, EndedCloses
      <4> QED
        BY <2>1, <3>1, <3>2, <3>3, <4>1 DEF OpFits, Fits, Parked, Terminal
    <3>4. CASE opRun[o] \notin ends
      <4>1. opState'[o] = opState[o]
        BY <2>1, <3>4 DEF DropPrepared, TypeOK
      <4>2. opRun[o] # NoRun => Fits(o, status[opRun[o]])'
        BY <2>1, <2>3, <3>1, <3>4, <4>1 DEF OpFits, Fits, Parked, Terminal, Closed
      <4> QED
        BY <2>1, <3>1, <4>1, <4>2 DEF OpFits
    <3> QED
      BY <3>3, <3>4
  <2>5. ReviewActionable'
    BY <2>1, <2>4 DEF LedgerInv, ReviewActionable, DropPrepared, OpsOf, TypeOK
  <2> QED
    BY <2>1, <2>4, <2>5 DEF LedgerInv
<1>4. ASSUME NEW o \in Op, NEW decision \in {"completed", "accept"}, Reconcile(o, decision)
      PROVE  LedgerInv'
  <2> DEFINE r == opRun[o]
             settled == \A x \in OpsOf(r) : opState'[x] = "unknown" => accepted'[x]
  <2>1. /\ r \in Run /\ status[r] \in {"needs_review", "cancelling"} /\ opState[o] = "unknown"
        /\ UNCHANGED <<opRun, cont, execBy, lease, task>>
        /\ \A s \in Run \ {r} : status'[s] = status[s]
        /\ \A x \in Op \ {o} : opState'[x] = opState[x] /\ accepted'[x] = accepted[x]
    BY <1>4 DEF Reconcile, TypeOK
  <2>2. \/ opState'[o] = "succeeded" /\ accepted'[o] = accepted[o]
        \/ opState'[o] = "unknown" /\ accepted'[o] /\ status'[r] = "cancelling"
    BY <1>4, <2>1 DEF Reconcile, TypeOK
  <2>3. \/ status'[r] = status[r] /\ (status[r] = "needs_review" => ~settled)
        \/ status[r] = "needs_review" /\ status'[r] = "queued" /\ settled
        \/ status'[r] = "cancelling"
    BY <1>4, <2>1 DEF Reconcile, TypeOK
  <2>4. ASSUME NEW x \in Op  PROVE OpFits(x)'
    <3>1. OpFits(x) /\ (opRun[x] # NoRun => opRun[x] \in Run)
      BY DEF LedgerInv, TypeOK
    <3>2. opRun[x] = r /\ status[r] = "needs_review" /\ status'[r] = "queued" =>
             opState'[x] \notin {"unknown", "running"}
      BY <2>1, <2>2, <2>3, <3>1 DEF OpFits, Fits, OpsOf, Run, NoRun
    <3> HIDE DEF settled
    <3>3. opRun[x] # NoRun => Fits(x, status[opRun[x]])'
      BY <2>1, <2>2, <2>3, <3>1, <3>2 DEF OpFits, Fits, Closed, Parked, Terminal
    <3> QED
      BY <2>1, <2>2, <3>1, <3>3 DEF OpFits
  <2>5. ReviewActionable'
    <3>1. ASSUME NEW s \in Run, status'[s] = "needs_review"
          PROVE  \E x \in Op : opRun[x] = s /\ opState'[x] = "unknown" /\ ~accepted'[x]
      <4>1. CASE s = r
        BY <2>1, <2>3, <3>1, <4>1 DEF OpsOf
      <4>2. CASE s # r
        <5>1. PICK x \in Op : opRun[x] = s /\ opState[x] = "unknown" /\ ~accepted[x]
          BY <2>1, <3>1, <4>2 DEF LedgerInv, ReviewActionable, OpsOf
        <5> QED
          BY <2>1, <4>2, <5>1
      <4> QED
        BY <4>1, <4>2
    <3> QED
      BY <2>1, <3>1 DEF ReviewActionable, OpsOf
  <2>6. \A s \in Run : status'[s] = "recovering" => ~lease'[s]
    BY <2>1, <2>3 DEF LedgerInv
  <2> QED
    BY <2>4, <2>5, <2>6 DEF LedgerInv
<1> QED
  BY <1>1, <1>2, <1>3, <1>4 DEF User

\* The idle pass ends only runs without unresolved calls.
LEMMA LedgerTick ==
    ASSUME TypeOK, WorkInv, LedgerInv, Tick  PROVE LedgerInv'
<1> USE DEF leaseVars, opVars, procVars, execVars
<1>1. ASSUME NEW o \in Op, ExpireAsk(o)  PROVE LedgerInv'
  BY <1>1, CalmStays DEF ExpireAsk, Resumed, Wakes, Calm, TypeOK, Parked
<1>2. ASSUME RefreshWaits  PROVE LedgerInv'
  BY <1>2, CalmStays DEF RefreshWaits, Resumed, Wakes, Calm, TypeOK, Parked
<1>3. ASSUME FinishIdle  PROVE LedgerInv'
  <2>1. \A r \in Finishing : r \in Run /\ status[r] = "cancelling" /\ Unresolved(r) = {}
    BY DEF Finishing, IdleCancelling
  <2>2. /\ \A r \in Run : status'[r] = IF r \in Finishing THEN "cancelled" ELSE status[r]
        /\ opState' = DropPrepared(Finishing)
        /\ UNCHANGED <<opRun, accepted, cont, execBy, lease, task>>
    BY <1>3 DEF FinishIdle, Ending
  <2>3. ASSUME NEW o \in Op  PROVE OpFits(o)'
    <3>1. OpFits(o) /\ (opRun[o] # NoRun => opRun[o] \in Run)
      BY DEF LedgerInv, TypeOK
    <3>2. opState'[o] = opState[o] \/ (opState[o] = "prepared" /\ opState'[o] = "cancelled")
      BY <2>2 DEF DropPrepared, TypeOK
    <3>3. opRun[o] \in Finishing => Closed(o)'
      BY <2>1, <2>2, EndedCloses
    <3>4. opRun[o] \notin Finishing => opState'[o] = opState[o]
      BY <2>2 DEF DropPrepared, TypeOK
    <3> QED
      BY <2>2, <3>1, <3>2, <3>3, <3>4 DEF OpFits, Fits, Closed, Parked, Terminal
  <2>4. ReviewActionable'
    BY <2>1, <2>2 DEF LedgerInv, ReviewActionable, DropPrepared, OpsOf, TypeOK
  <2> QED
    BY <2>2, <2>3, <2>4 DEF LedgerInv
<1>4. ASSUME NEW r \in Run, LeaseExpire(r)  PROVE LedgerInv'
  BY <1>4, CalmStays DEF LeaseExpire, runVars, Calm, TypeOK
<1> QED
  BY <1>1, <1>2, <1>3, <1>4 DEF Tick

\* While a task holds its lease and none of the run's calls executes, the ledger has none
\* left running.
LEMMA QuietLeavesNoneRunning ==
    ASSUME TypeOK, WorkInv, LedgerInv, NEW p \in Proc, NEW r \in Run, CanSettle(p, r)
    PROVE  /\ \A o \in Op : opRun[o] = r => opState[o] # "running"
           /\ \A q \in Proc : task'[q][r] # 0 /\ task' = [task EXCEPT ![p][r] = 0] => FALSE
<1>1. task[p][r] # 0 /\ lease[r] /\ \A o \in Op : opRun[o] = r => execBy[o] # p
  BY DEF CanSettle, RowFenced, Quiet, OpsOf
<1>2. \A q \in Proc : task[q][r] # 0 => q = p
  BY <1>1 DEF WorkInv, TaskHeld
<1>3. ASSUME NEW o \in Op, opRun[o] = r, opState[o] = "running"  PROVE FALSE
  <2>1. execBy[o] # NoProc
    BY <1>1, <1>3 DEF LedgerInv, OpFits, Run, NoRun
  <2>2. execBy[o] \in Proc /\ task[execBy[o]][r] # 0
    BY <1>3, <2>1 DEF WorkInv, TypeOK
  <2> QED
    BY <1>1, <1>2, <1>3, <2>2
<1> QED
  BY <1>2, <1>3 DEF TypeOK

\* A task that reports leaves its run waiting, ended or under review as its ledger demands.
LEMMA LedgerSettles ==
    ASSUME TypeOK, WorkInv, LedgerInv, NEW p \in Proc, NEW r \in Run, Settles(p, r)
    PROVE  LedgerInv'
<1> USE DEF opVars, execVars, leaseVars
<1> DEFINE Fate(o) == opState'[o] = opState[o] \/ (opState[o] = "prepared" /\ opState'[o] = "cancelled")
\* The run's row and calls change, and no other.
<1> DEFINE Own ==
        /\ UNCHANGED <<opRun, accepted, cont, execBy, lease>>
        /\ \A s \in Run \ {r} : status'[s] = status[s]
        /\ \A q \in Proc, s \in Run : task'[q][s] # 0 => task[q][s] # 0 /\ s # r
        /\ \A o \in Op : opRun[o] # r => opState'[o] = opState[o]
<1>1. ASSUME Own, status'[r] # "recovering",
             \A o \in Op : opRun[o] = r => Fits(o, status[r])' /\ (execBy[o] # NoProc => opState'[o] = "running")
                 /\ (accepted[o] => opState'[o] \in {"unknown", "succeeded"}),
             status'[r] = "needs_review" =>
                 \E o \in Op : opRun[o] = r /\ opState'[o] = "unknown" /\ ~accepted[o]
      PROVE  LedgerInv'
  <2>1. ASSUME NEW o \in Op  PROVE OpFits(o)'
    <3>1. OpFits(o) /\ (opRun[o] # NoRun => opRun[o] \in Run) /\ r # NoRun
      BY DEF LedgerInv, TypeOK, Run, NoRun
    <3>2. CASE opRun[o] = r
      BY <1>1, <3>1, <3>2 DEF OpFits
    <3>3. CASE opRun[o] # r
      <4>1. opRun[o] # NoRun => Fits(o, status[opRun[o]])'
        BY <1>1, <3>1, <3>3 DEF OpFits, Fits, Closed
      <4> QED
        BY <1>1, <3>1, <3>3, <4>1 DEF OpFits
    <3> QED
      BY <3>2, <3>3
  <2>2. ReviewActionable'
    <3>1. ASSUME NEW s \in Run, status'[s] = "needs_review"
          PROVE  \E x \in Op : opRun[x] = s /\ opState'[x] = "unknown" /\ ~accepted[x]
      <4>1. CASE s # r
        <5>1. PICK x \in Op : opRun[x] = s /\ opState[x] = "unknown" /\ ~accepted[x]
          BY <1>1, <3>1, <4>1 DEF LedgerInv, ReviewActionable, OpsOf
        <5> QED
          BY <1>1, <4>1, <5>1
      <4> QED
        BY <1>1, <3>1, <4>1
    <3> QED
      BY <1>1, <3>1 DEF ReviewActionable, OpsOf
  <2>3. \A s \in Run : status'[s] = "recovering" => ~lease'[s]
    BY <1>1 DEF LedgerInv
  <2> QED
    BY <2>1, <2>2, <2>3 DEF LedgerInv
<1>2. \A o \in Op : OpFits(o)
  BY DEF LedgerInv
<1>3. \A o \in Op : opRun[o] = r => Fits(o, status[r]) /\ opState[o] # "none"
  BY <1>2 DEF OpFits, WorkInv, Run, NoRun
<1>4. ASSUME CanSettle(p, r), Retire(p, r)
      PROVE  /\ \A o \in Op : opRun[o] = r => opState[o] # "running" /\ execBy[o] = NoProc
             /\ \A q \in Proc, s \in Run : task'[q][s] # 0 => task[q][s] # 0 /\ s # r
  <2>1. \A o \in Op : opRun[o] = r => opState[o] # "running"
    BY <1>4, QuietLeavesNoneRunning
  <2>2. \A q \in Proc : task'[q][r] = 0
    BY <1>4, QuietLeavesNoneRunning DEF Retire
  <2> QED
    BY <1>2, <1>4, <2>1, <2>2 DEF OpFits, Retire, TypeOK
<1>5. CASE SettleCancelling(p, r)
  <2>1. CASE Unresolved(r) = {} /\ ChildrenSettled(r)
    <3>1. /\ CanSettle(p, r) /\ Retire(p, r) /\ status' = [status EXCEPT ![r] = "cancelled"]
          /\ opState' = DropPrepared({r}) /\ UNCHANGED <<opRun, accepted, cont, execBy, lease>>
      BY <1>5, <2>1 DEF SettleCancelling, Ending
    <3>2. Own /\ status'[r] = "cancelled"
      BY <1>4, <3>1 DEF DropPrepared, TypeOK
    <3>3. \A o \in Op : opRun[o] = r => Closed(o)' /\ Fate(o)
      <4>1. \A o \in Op : opRun[o] = r => Closed(o)'
        BY <2>1, <3>1, EndedCloses
      <4> QED
        BY <3>1, <4>1 DEF DropPrepared, TypeOK
    <3> HIDE DEF Own
    <3> QED
      BY <1>1, <1>2, <1>4, <3>1, <3>2, <3>3 DEF Fits, OpFits, Parked, Terminal
  <2>2. CASE ~(Unresolved(r) = {} /\ ChildrenSettled(r))
    <3>1. /\ CanSettle(p, r) /\ Retire(p, r)
          /\ UNCHANGED <<status, opRun, opState, accepted, cont, execBy, lease>>
      BY <1>5, <2>2 DEF SettleCancelling
    <3> QED
      BY <1>4, <3>1, CalmStays DEF Calm
  <2> QED
    BY <2>1, <2>2
<1>6. ASSUME NEW W \in SUBSET Pending(r), SettleWaiting(p, r, W)  PROVE LedgerInv'
  <2>1. /\ CanSettle(p, r) /\ Retire(p, r) /\ status[r] = "running"
        /\ UNCHANGED <<opRun, accepted, cont, execBy, lease>>
        /\ opState' = [o \in Op |-> IF <<o, "review">> \in W THEN "unknown" ELSE opState[o]]
        /\ \A i \in Pending(r) : i[2] = "review" => i \in W
        /\ \A s \in Run \ {r} : status'[s] = status[s]
        /\ status'[r] \in {"queued", WaitStatus(W)}
        /\ status'[r] = "queued" => WaitStatus(W) # "needs_review"
    BY <1>6 DEF SettleWaiting, TypeOK
  <2>2. \A o \in Op : <<o, "review">> \in Pending(r) <=> opRun[o] = r /\ opState[o] = "unknown"
    BY <1>2, <1>4, <2>1 DEF Pending, OpsOf
  <2>3. \A o \in Op : opState'[o] = opState[o]
    BY <2>1, <2>2 DEF TypeOK
  <2>4. WaitStatus(W) \in {"needs_review", "waiting_user", "waiting_children"}
    BY DEF WaitStatus
  <2>5. WaitStatus(W) = "needs_review" <=> \E o \in Op : <<o, "review">> \in W
    <3>1. \A i \in W : i \in Interrupt
      BY DEF Pending, Interrupt, OpsOf
    <3>2. \A i \in Interrupt : i[1] \in Op /\ (i[2] = "review" => i = <<i[1], "review">>)
      BY DEF Interrupt
    <3>3. "review" \in KindsOf(W) <=> \E i \in W : i[2] = "review"
      BY DEF KindsOf
    <3>4. "review" \in KindsOf(W) <=> \E o \in Op : <<o, "review">> \in W
      <4>1. \A o \in Op : <<o, "review">>[2] = "review"
        OBVIOUS
      <4> QED
        BY <3>1, <3>2, <3>3, <4>1
    <3> QED
      BY <3>4 DEF WaitStatus
  <2>6. \A o \in Op : opRun[o] = r => ~accepted[o]
    BY <1>3, <2>1 DEF Fits
  <2>7. Own
    BY <1>4, <2>1, <2>3
  <2>8. \A o \in Op : opRun[o] = r => Fits(o, status[r])'
    <3>1. \A o \in Op : opRun[o] = r => opState[o] # "running"
      BY <1>4, <2>1
    <3>2. status'[r] # "needs_review" => \A o \in Op : opRun[o] = r => opState[o] # "unknown"
      BY <2>1, <2>2, <2>5
    <3> QED
      BY <2>1, <2>3, <2>4, <2>6, <3>1, <3>2 DEF Fits, Parked, Terminal
  <2>9. status'[r] = "needs_review" => \E o \in Op : opRun[o] = r /\ opState'[o] = "unknown" /\ ~accepted[o]
    BY <2>1, <2>2, <2>3, <2>5, <2>6
  <2> HIDE DEF Own
  <2> QED
    BY <1>1, <1>2, <2>1, <2>3, <2>4, <2>7, <2>8, <2>9 DEF OpFits
<1>7. ASSUME NEW final \in BOOLEAN, SettleEnd(p, r, final)  PROVE LedgerInv'
  <2>1. /\ CanSettle(p, r) /\ Retire(p, r) /\ status[r] = "running"
        /\ UNCHANGED <<opRun, accepted, cont, execBy, lease>>
        /\ \A s \in Run \ {r} : status'[s] = status[s]
    BY <1>7 DEF SettleEnd, TypeOK
  <2>2. CASE Unresolved(r) # {}
    <3>1. status'[r] = "needs_review" /\ UNCHANGED opState
      BY <1>7, <2>2 DEF SettleEnd, TypeOK
    <3>2. \E o \in Op : opRun[o] = r /\ opState[o] = "unknown" /\ ~accepted[o]
      BY <1>4, <2>1, <2>2 DEF Unresolved, OpsOf
    <3>3. Own
      BY <1>4, <2>1, <3>1
    <3>4. \A o \in Op : opRun[o] = r => Fits(o, status[r])'
      BY <1>3, <1>4, <2>1, <3>1 DEF Fits, Parked, Terminal
    <3> HIDE DEF Own
    <3> QED
      BY <1>1, <1>2, <2>1, <3>1, <3>2, <3>3, <3>4 DEF OpFits
  <2>3. CASE Unresolved(r) = {}
    <3>1. status'[r] \in {"completed", "failed"} /\ opState' = DropPrepared({r})
      BY <1>7, <2>3 DEF SettleEnd, FinalStatus, Ending, TypeOK
    <3>2. Own
      BY <1>4, <2>1, <3>1 DEF DropPrepared, TypeOK
    <3>3. \A o \in Op : opRun[o] = r => Closed(o)' /\ Fate(o) /\ ~accepted[o]
      <4>1. \A o \in Op : opRun[o] = r => Closed(o)'
        BY <2>1, <2>3, <3>1, EndedCloses
      <4>2. \A o \in Op : opRun[o] = r => ~accepted[o]
        BY <1>3, <2>1 DEF Fits
      <4> QED
        BY <3>1, <4>1, <4>2 DEF DropPrepared, TypeOK
    <3> HIDE DEF Own
    <3> QED
      BY <1>1, <1>2, <1>4, <2>1, <3>1, <3>2, <3>3 DEF Fits, OpFits, Parked, Terminal
  <2> QED
    BY <2>2, <2>3
<1>8. CASE SettleRejected(p, r)
  BY <1>8, CalmStays DEF SettleRejected, runVars, Calm, TypeOK
<1> QED
  BY <1>5, <1>6, <1>7, <1>8 DEF Settles

\* A claimed run was queued, so nothing of it runs or is in doubt.
LEMMA LedgerClaim ==
    ASSUME TypeOK, WorkInv, LedgerInv, NEW p \in Proc, NEW r \in Run, Claim(p, r)
    PROVE  LedgerInv'
<1>1. /\ status[r] = "queued" /\ status' = [status EXCEPT ![r] = "running"]
      /\ lease' = [lease EXCEPT ![r] = TRUE] /\ task' = [task EXCEPT ![p][r] = fence[r] + 1]
      /\ UNCHANGED <<opRun, opState, accepted, cont, execBy>>
  BY DEF Claim, Claimable, opVars, execVars
<1>2. ASSUME NEW o \in Op  PROVE OpFits(o)'
  <2>1. OpFits(o) /\ (opRun[o] # NoRun => opRun[o] \in Run)
    BY DEF LedgerInv, TypeOK
  <2>2. CASE opRun[o] = r
    BY <1>1, <2>1, <2>2 DEF OpFits, Fits, Parked, Terminal, TypeOK
  <2>3. CASE opRun[o] # r
    <3>1. opRun[o] # NoRun => Fits(o, status[opRun[o]])'
      BY <1>1, <2>1, <2>3 DEF OpFits, Fits, Closed, TypeOK
    <3>2. opRun[o] # NoRun => /\ lease'[opRun[o]] = lease[opRun[o]]
                              /\ \A q \in Proc : task'[q][opRun[o]] = task[q][opRun[o]]
      BY <1>1, <2>1, <2>3 DEF TypeOK
    <3> QED
      BY <1>1, <2>1, <3>1, <3>2 DEF OpFits
  <2> QED
    BY <2>2, <2>3
<1>3. ReviewActionable'
  BY <1>1 DEF LedgerInv, ReviewActionable, OpsOf, TypeOK
<1>4. \A s \in Run : status'[s] = "recovering" => ~lease'[s]
  BY <1>1 DEF LedgerInv, TypeOK
<1> QED
  BY <1>2, <1>3, <1>4 DEF LedgerInv

\* A step of one call, made while its run is at work.
LEMMA OneCall ==
    ASSUME TypeOK, WorkInv, LedgerInv, NEW o \in Op, opRun'[o] \in Run,
           status[opRun'[o]] \in {"running", "cancelling", "recovering"},
           opRun[o] \in {NoRun, opRun'[o]},
           UNCHANGED <<status, lease, task, accepted, cont>>,
           \A x \in Op \ {o} : opRun'[x] = opRun[x] /\ opState'[x] = opState[x] /\ execBy'[x] = execBy[x],
           accepted[o] => opState'[o] \in {"unknown", "succeeded"} /\ opRun'[o] = opRun[o],
           execBy'[o] # NoProc => opState'[o] = "running",
           opState'[o] = "running" /\ lease[opRun'[o]] /\ (\E p \in Proc : task[p][opRun'[o]] # 0) =>
               execBy'[o] # NoProc
    PROVE  LedgerInv'
<1>1. ASSUME NEW x \in Op  PROVE OpFits(x)'
  <2>1. OpFits(x)
    BY DEF LedgerInv
  <2>2. CASE x = o
    BY <2>1, <2>2 DEF OpFits, Fits, Closed, Parked, Terminal, Run, NoRun
  <2>3. CASE x # o
    BY <2>1, <2>3 DEF OpFits, Fits, Closed
  <2> QED
    BY <2>2, <2>3
<1>2. ReviewActionable'
  BY DEF LedgerInv, ReviewActionable, OpsOf, Run, NoRun
<1> QED
  BY <1>1, <1>2 DEF LedgerInv

\* Every step of a call moves its own row, for the task that executes it.
LEMMA LedgerCalls ==
    ASSUME TypeOK, WorkInv, LedgerInv, McpOp = {},
           NEW p \in Proc, NEW r \in Run, NEW o \in Op, Calls(p, r, o)
    PROVE  LedgerInv'
<1> USE DEF runVars, leaseVars, opVars, procVars, execVars
<1>1. OpFits(o) /\ (opState[o] = "none" => opRun[o] = NoRun)
  BY DEF LedgerInv, WorkInv
<1>2. CASE PrepareOp(p, r, o)
  BY <1>1, <1>2, OneCall DEF PrepareOp, MayAct, OpFits, TypeOK
<1>3. CASE AskUser(p, r, o) \/ \E K \in SUBSET Run : RegisterWait(p, r, o, K)
  BY <1>3, CalmStays DEF AskUser, RegisterWait, Calm
<1>4. CASE RefuseOp(p, r, o)
  BY <1>1, <1>4, OneCall DEF RefuseOp, MayRecord, OpFits, TypeOK
<1>5. CASE ConcludeSpecial(p, r, o)
  BY <1>1, <1>5, OneCall DEF ConcludeSpecial, MayAct, OpFits, TypeOK
<1>6. CASE StartOp(p, r, o)
  <2>1. p # NoProc
    BY BoundsAssumption
  <2> QED
    BY <1>1, <1>6, <2>1, OneCall DEF StartOp, MayAct, OpFits, TypeOK
<1>7. ~McpPause(p, r, o) /\ ~McpResume(p, r, o)
  BY DEF McpPause, McpResume
<1>8. ASSUME NEW c \in Run, NEW b \in Branch, SpawnChild(p, r, o, c, b)  PROVE LedgerInv'
  BY <1>8, CalmStays DEF SpawnChild, Insert, NextRun, Created, Calm, TypeOK, Parked
<1> QED
  BY <1>2, <1>3, <1>4, <1>5, <1>6, <1>7, <1>8 DEF Calls

\* A lost run is queued again or sent to review by what its ledger says then.
LEMMA LedgerRecovery ==
    ASSUME TypeOK, WorkInv, LedgerInv, NEW p \in Proc, RecoverCommit(p)  PROVE LedgerInv'
<1> DEFINE r == probe[p].run
           running == {o \in OpsOf(r) : opState[o] = "running"}
           st == IF status[r] = "running" THEN "recovering" ELSE status[r]
           doubt == \E o \in OpsOf(r) : opState'[o] = "unknown"
<1>1. /\ probe[p] \in Probe /\ ProbeHolds(p)
      /\ UNCHANGED <<opRun, accepted, cont, execBy, lease, task>>
  BY DEF RecoverCommit, WorkInv, TypeOK, execVars
<1>2. r \in Run /\ (probe[p].fence = fence[r] => ~lease[r] /\ (~probe[p].alive => ~HolderAlive(r)))
  BY <1>1 DEF Probe, ProbeHolds
<1>3. CASE UNCHANGED <<status, opState>>
  BY <1>1, <1>3, CalmStays DEF Calm
<1>4. CASE ~lease[r] /\ status' = [status EXCEPT ![r] = st] /\ UNCHANGED opState
  <2>1. CASE status[r] # "running"
    BY <1>1, <1>4, <2>1, CalmStays DEF Calm, TypeOK
  <2>2. CASE status[r] = "running"
    <3>1. status'[r] = "recovering" /\ \A s \in Run \ {r} : status'[s] = status[s]
      BY <1>2, <1>4, <2>2 DEF TypeOK
    <3> HIDE DEF r, st
    <3>2. ASSUME NEW o \in Op  PROVE OpFits(o)'
      <4>1. OpFits(o) /\ (opRun[o] # NoRun => opRun[o] \in Run)
        BY DEF LedgerInv, TypeOK
      <4>2. opRun[o] # NoRun => Fits(o, status[opRun[o]])'
        BY <1>1, <1>4, <2>2, <3>1, <4>1 DEF OpFits, Fits, Closed, Parked, Terminal
      <4> QED
        BY <1>1, <1>4, <4>1, <4>2 DEF OpFits
    <3>3. ReviewActionable'
      BY <1>1, <1>4, <3>1 DEF LedgerInv, ReviewActionable, OpsOf
    <3>4. \A s \in Run : status'[s] = "recovering" => ~lease'[s]
      BY <1>1, <1>4, <3>1 DEF LedgerInv
    <3> QED
      BY <3>2, <3>3, <3>4 DEF LedgerInv
  <2> QED
    BY <2>1, <2>2
<1>5. CASE /\ ~lease[r] /\ ~HolderAlive(r)
           /\ status' = [status EXCEPT ![r] = AfterLoss(st, doubt)]
           /\ \E after \in [running -> OpStates] :
                /\ \A o \in running : after[o] \in Settled(o)
                /\ opState' = [o \in Op |-> IF o \in running THEN after[o] ELSE opState[o]]
  <2>1. \A o \in Op : opRun[o] = r => execBy[o] = NoProc
    BY <1>2, <1>5, BoundsAssumption DEF WorkInv, TaskHeld, HolderAlive, TypeOK
  <2>2. \A o \in Op : IF o \in running THEN opState'[o] \in {"prepared", "succeeded", "unknown"}
                                        ELSE opState'[o] = opState[o]
    BY <1>5 DEF Settled, LedgerInv, OpFits, OpsOf
  <2>3. \A s \in Run \ {r} : status'[s] = status[s]
    BY <1>5 DEF TypeOK
  <2>4. status'[r] = AfterLoss(st, doubt)
    BY <1>2, <1>5 DEF TypeOK
  <2>5. \A o \in Op : o \in running <=> opRun[o] = r /\ opState[o] = "running"
    BY DEF OpsOf
  <2>6. doubt <=> \E o \in Op : opRun[o] = r /\ opState'[o] = "unknown"
    BY DEF OpsOf
  <2>7. \/ status[r] \in {"running", "recovering"} /\ status'[r] = "needs_review" /\ doubt
        \/ status[r] \in {"running", "recovering"} /\ status'[r] = "queued" /\ ~doubt
        \/ status[r] \notin {"running", "recovering"} /\ status'[r] = status[r]
    BY <2>4 DEF AfterLoss
  <2>8. ~lease[r] /\ r # NoRun
    BY <1>2, <1>5 DEF Run, NoRun
  <2> HIDE DEF r, running, st, doubt
  <2>9. ASSUME NEW o \in Op  PROVE OpFits(o)'
    <3>1. OpFits(o) /\ (opRun[o] # NoRun => opRun[o] \in Run)
      BY DEF LedgerInv, TypeOK
    <3>2. CASE opRun[o] = r
      <4>1. Fits(o, status[opRun[o]])'
        BY <1>1, <1>2, <2>2, <2>5, <2>6, <2>7, <2>8, <3>1, <3>2 DEF OpFits, Fits, Closed, Parked, Terminal
      <4>2. accepted[o] => opState'[o] \in {"unknown", "succeeded"}
        BY <2>2, <2>5, <3>1 DEF OpFits
      <4> QED
        BY <1>1, <2>1, <2>8, <3>1, <3>2, <4>1, <4>2 DEF OpFits
    <3>3. CASE opRun[o] # r
      <4>1. opState'[o] = opState[o]
        BY <2>2, <2>5, <3>3
      <4>2. opRun[o] # NoRun => Fits(o, status[opRun[o]])'
        BY <1>1, <2>3, <3>1, <3>3, <4>1 DEF OpFits, Fits, Closed
      <4> QED
        BY <1>1, <3>1, <4>1, <4>2 DEF OpFits
    <3> QED
      BY <3>2, <3>3
  <2>10. ReviewActionable'
    <3>1. ASSUME NEW s \in Run, status'[s] = "needs_review"
          PROVE  \E x \in Op : opRun[x] = s /\ opState'[x] = "unknown" /\ ~accepted[x]
      <4>1. CASE s # r \/ status[r] = "needs_review"
        <5>1. status[s] = "needs_review"
          BY <2>3, <2>7, <3>1, <4>1
        <5>2. PICK x \in Op : opRun[x] = s /\ opState[x] = "unknown" /\ ~accepted[x]
          BY <5>1 DEF LedgerInv, ReviewActionable, OpsOf
        <5> QED
          BY <2>2, <2>5, <5>2
      <4>2. CASE s = r /\ status[r] # "needs_review"
        <5>1. PICK x \in Op : opRun[x] = r /\ opState'[x] = "unknown"
          BY <2>6, <2>7, <3>1, <4>2
        <5>2. status[r] \in {"running", "recovering"}
          BY <2>7, <3>1, <4>2
        <5>3. ~accepted[x]
          BY <2>8, <5>1, <5>2 DEF LedgerInv, OpFits, Fits
        <5> QED
          BY <4>2, <5>1, <5>3
      <4> QED
        BY <4>1, <4>2
    <3> QED
      BY <1>1, <3>1 DEF ReviewActionable, OpsOf
  <2>11. \A s \in Run : status'[s] = "recovering" => ~lease'[s]
    BY <1>1, <2>3, <2>8 DEF LedgerInv
  <2> QED
    BY <2>9, <2>10, <2>11 DEF LedgerInv
<1> QED
  BY <1>2, <1>3, <1>4, <1>5 DEF RecoverCommit

\* A death takes a task and its executors together; a result that cannot be recorded is one
\* whose lease is lost.
LEMMA LedgerWorker ==
    ASSUME TypeOK, WorkInv, LedgerInv, McpOp = {}, NEW p \in Proc, Worker(p)  PROVE LedgerInv'
<1> USE DEF runVars, leaseVars, opVars, execVars
<1>1. CASE StartProc(p)
  BY <1>1, CalmStays DEF StartProc, Calm
<1>2. CASE Crash(p)
  <2>1. /\ UNCHANGED <<status, lease, opRun, opState, accepted, cont>>
        /\ \A o \in Op : execBy'[o] = IF execBy[o] = p THEN NoProc ELSE execBy[o]
        /\ \A q \in Proc, r \in Run : task'[q][r] # 0 => task[q][r] # 0 /\ q # p
    BY <1>2 DEF Crash, TypeOK
  <2>2. ASSUME NEW o \in Op  PROVE OpFits(o)'
    <3>1. OpFits(o) /\ (opRun[o] # NoRun => opRun[o] \in Run)
      BY DEF LedgerInv, TypeOK
    <3>2. opRun[o] # NoRun /\ execBy[o] = p => \A q \in Proc : task'[q][opRun[o]] = 0
      BY <2>1, <3>1, BoundsAssumption DEF WorkInv, TaskHeld
    <3>3. opRun[o] # NoRun => Fits(o, status[opRun[o]])'
      BY <2>1, <3>1 DEF OpFits, Fits, Closed
    <3> QED
      BY <2>1, <3>1, <3>2, <3>3 DEF OpFits
  <2>3. ReviewActionable'
    BY <2>1 DEF LedgerInv, ReviewActionable, OpsOf
  <2> QED
    BY <2>1, <2>2, <2>3 DEF LedgerInv
<1>3. ASSUME NEW r \in Run, RecoverRead(p, r)  PROVE LedgerInv'
  BY <1>3, CalmStays DEF RecoverRead, Calm
<1>4. ASSUME NEW o \in Op, Act(p, o)  PROVE LedgerInv'
  BY <1>4, CalmStays DEF Act, Calm, procVars
<1>5. ASSUME NEW o \in Op, NEW result \in OpStates, FinishOp(p, o, result)  PROVE LedgerInv'
  <2> DEFINE r == opRun[o]
  <2>1. /\ execBy[o] = p /\ result \in {"failed", "succeeded", "cancelled", "unknown"}
        /\ UNCHANGED <<status, lease, task, accepted, cont, opRun>>
        /\ execBy' = [execBy EXCEPT ![o] = NoProc]
        /\ opState' = IF MayRecord(p, r) THEN [opState EXCEPT ![o] = result] ELSE opState
    BY <1>5 DEF FinishOp, Results, procVars
  <2>2. r \in Run /\ TaskHeld(p, r) /\ opState[o] = "running" /\ ~accepted[o]
    BY <2>1, BoundsAssumption DEF WorkInv, LedgerInv, OpFits
  <2>3. lease[r] => MayRecord(p, r)
    <3>1. task[p][r] # 0
      BY <2>1, BoundsAssumption DEF WorkInv
    <3> QED
      BY <2>2, <3>1 DEF TaskHeld, MayRecord, Fenced, AtWork, LedgerInv
  <2>4. opState'[o] = "running" => ~lease[r]
    BY <2>1, <2>3 DEF TypeOK
  <2>5. /\ execBy'[o] = NoProc
        /\ \A x \in Op \ {o} : opState'[x] = opState[x] /\ execBy'[x] = execBy[x]
    BY <2>1 DEF TypeOK
  <2> QED
    BY <2>1, <2>2, <2>4, <2>5, OneCall DEF TaskHeld, AtWork
<1> QED
  BY <1>1, <1>2, <1>3, <1>4, <1>5, LedgerClaim, LedgerSettles, LedgerCalls, LedgerRecovery DEF Worker

\* Without MCP questions the ledger invariant holds throughout.
LEMMA LedgerHolds == ASSUME McpOp = {}  PROVE Spec => []LedgerInv
<1>1. Init => LedgerInv
  BY DEF Init, LedgerInv, OpFits, ReviewActionable
<1>2. TypeOK /\ WorkInv /\ LedgerInv /\ [Next]_vars => LedgerInv'
  <2>1. ASSUME TypeOK, LedgerInv, UNCHANGED vars  PROVE LedgerInv'
    BY <2>1, CalmStays DEF Calm, vars, runVars, leaseVars, opVars, procVars, execVars
  <2> QED
    BY <2>1, LedgerUser, LedgerTick, LedgerWorker DEF Next
<1> QED
  BY <1>1, <1>2, WorkHolds, TypeCorrect, PTL DEF Spec

\* Scheduler.settle, cancel, reconcile, finish_idle_cancellations: when no MCP question is
\* involved, a run ends only with a ledger that leaves nothing in doubt unaccepted.
THEOREM LedgerClosesWithRun == ASSUME McpOp = {}  PROVE Spec => []LedgerClosed
<1>1. TypeOK /\ LedgerInv => LedgerClosed
  BY DEF LedgerInv, OpFits, Fits, Closed, LedgerClosed, OpsOf, Run, NoRun
<1> QED
  BY <1>1, LedgerHolds, TypeCorrect, PTL

\* Scheduler.settle, recover: when no MCP question is involved, a run under review has an
\* operation the user can reconcile, so a review never blocks a run for nothing.
THEOREM ReviewsCanBeSettled == ASSUME McpOp = {}  PROVE Spec => []ReviewActionable
<1>1. LedgerInv => ReviewActionable
  BY DEF LedgerInv
<1> QED
  BY <1>1, LedgerHolds, PTL
=============================================================================
