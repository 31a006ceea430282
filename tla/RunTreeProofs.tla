---------------------------- MODULE RunTreeProofs -----------------------------
(***************************************************************************)
(* A run and the tree it belongs to: the run keeps the promise its user is shown,*)
(* a barrier opens as its children ended, and a cancelled tree is covered. *)
(***************************************************************************)
EXTENDS RunSchedulerProofs

------------------------------------------------------------------------------
(* The promise and the tree *)

(* A run that is being cancelled was asked to cancel *)

\* With CancelInv, status and request say the same.
AskedInv == \A r \in Run : status[r] = "cancelling" => cancelReq[r]

\* Only a cancel and an accepted review make a run cancelling, and both record the request.
AsksFirst(r) == status'[r] = "cancelling" => status[r] = "cancelling" \/ cancelReq'[r]

\* The requests of the API that make a run cancelling record why.
LEMMA AskedUser ==
    ASSUME TypeOK, User, NEW r \in Run  PROVE AsksFirst(r)
<1> USE DEF AsksFirst, TypeOK
<1>1. ASSUME NEW q \in Run, NEW b \in Branch, Submit(q, b)  PROVE AsksFirst(r)
  BY <1>1 DEF Submit, Insert
<1>2. ASSUME NEW o \in Op, NEW answer \in AskStates, Respond(o, answer)  PROVE AsksFirst(r)
  BY <1>2 DEF Respond, Resumed
<1>3. ASSUME NEW u \in Run, Cancel(u)  PROVE AsksFirst(r)
  BY <1>3 DEF Cancel
<1>4. ASSUME NEW o \in Op, NEW decision \in {"completed", "accept"}, Reconcile(o, decision)
      PROVE AsksFirst(r)
  BY <1>4 DEF Reconcile
<1> QED
  BY <1>1, <1>2, <1>3, <1>4 DEF User

\* No periodic duty makes a run cancelling.
LEMMA AskedTick ==
    ASSUME TypeOK, Tick, NEW r \in Run  PROVE AsksFirst(r)
<1> USE DEF AsksFirst, TypeOK
<1>1. ASSUME NEW o \in Op, ExpireAsk(o)  PROVE AsksFirst(r)
  BY <1>1 DEF ExpireAsk, Resumed
<1>2. CASE RefreshWaits
  BY <1>2 DEF RefreshWaits, Resumed
<1>3. CASE FinishIdle
  BY <1>3 DEF FinishIdle
<1>4. ASSUME NEW q \in Run, LeaseExpire(q)  PROVE AsksFirst(r)
  BY <1>4 DEF LeaseExpire, runVars
<1> QED
  BY <1>1, <1>2, <1>3, <1>4 DEF Tick

\* No worker makes a run cancelling.
LEMMA AskedWorker ==
    ASSUME TypeOK, NEW p \in Proc, Worker(p), NEW r \in Run  PROVE AsksFirst(r)
<1> USE DEF AsksFirst, TypeOK
<1>1. CASE StartProc(p) \/ Crash(p)
  BY <1>1 DEF StartProc, Crash, runVars
<1>2. ASSUME NEW q \in Run, Claim(p, q)  PROVE AsksFirst(r)
  BY <1>2 DEF Claim
<1>3. ASSUME NEW q \in Run, Settles(p, q)  PROVE AsksFirst(r)
  <2>1. CASE SettleCancelling(p, q)
    BY <2>1 DEF SettleCancelling
  <2>2. ASSUME NEW W \in SUBSET Pending(q), SettleWaiting(p, q, W)  PROVE AsksFirst(r)
    BY <2>2, WaitStatusType DEF SettleWaiting
  <2>3. ASSUME NEW final \in BOOLEAN, SettleEnd(p, q, final)  PROVE AsksFirst(r)
    BY <2>3 DEF SettleEnd, FinalStatus
  <2>4. CASE SettleRejected(p, q)
    BY <2>4 DEF SettleRejected, runVars
  <2> QED
    BY <1>3, <2>1, <2>2, <2>3, <2>4 DEF Settles
<1>4. ASSUME NEW q \in Run, RecoverRead(p, q)  PROVE AsksFirst(r)
  BY <1>4 DEF RecoverRead, runVars
<1>5. ASSUME NEW q \in Run, NEW o \in Op, Calls(p, q, o)  PROVE AsksFirst(r)
  <2>1. ASSUME NEW c \in Run, NEW b \in Branch, SpawnChild(p, q, o, c, b)  PROVE AsksFirst(r)
    BY <2>1 DEF SpawnChild, Insert
  <2>2. CASE \A c \in Run, b \in Branch : ~SpawnChild(p, q, o, c, b)
    BY <1>5, <2>2 DEF Calls, PrepareOp, AskUser, RegisterWait, RefuseOp, ConcludeSpecial,
         StartOp, McpPause, McpResume, runVars
  <2> QED
    BY <2>1, <2>2
<1>6. ASSUME NEW o \in Op, Act(p, o)  PROVE AsksFirst(r)
  BY <1>6 DEF Act, runVars
<1>7. ASSUME NEW o \in Op, NEW result \in OpStates, FinishOp(p, o, result)  PROVE AsksFirst(r)
  BY <1>7 DEF FinishOp, runVars
<1>8. CASE RecoverCommit(p)
  <2> DEFINE q == probe[p].run
             st == IF status[q] = "running" THEN "recovering" ELSE status[q]
  <2>1. \/ status' = status
        \/ status' = [status EXCEPT ![q] = st]
        \/ \E doubt \in BOOLEAN : status' = [status EXCEPT ![q] = AfterLoss(st, doubt)]
    BY <1>8 DEF RecoverCommit
  <2>2. st = "cancelling" => status[q] = "cancelling"
    OBVIOUS
  <2>3. \A doubt \in BOOLEAN : AfterLoss(st, doubt) = "cancelling" => status[q] = "cancelling"
    BY DEF AfterLoss
  <2> QED
    BY <2>1, <2>2, <2>3
<1> QED
  BY <1>1, <1>2, <1>3, <1>4, <1>5, <1>6, <1>7, <1>8 DEF Worker

-----------------------------------------------------------------------------
(* Every step is a step of the promise *)

\* What the steps need: requests and statuses agree, a queued run that was never claimed has
\* no fence, and a started run owns its branch.
RefineInv == TypeOK /\ CancelInv /\ AskedInv /\ BranchInv

\* A run a user sees queued or active is exactly one that has not ended.
LEMMA LivePhase ==
    ASSUME NEW r \in Run  PROVE Phase(r) \in {"queued", "active"} <=> Unfinished(r)
  BY DEF Phase, Unfinished, Terminal

\* Whatever keeps ended runs ended, and no more, is invisible.
LEMMA SamePhase ==
    ASSUME UNCHANGED <<parent, branch, cancelReq, fence>>,
           \A r \in Run : status'[r] = status[r] \/ (Unfinished(r) /\ Unfinished(r)')
    PROVE  UNCHANGED Promise!promiseVars
<1>1. ASSUME NEW r \in Run  PROVE Phase(r)' = Phase(r)
  BY <1>1 DEF Phase, Unfinished
<1> QED
  BY <1>1 DEF Promise!promiseVars

\* A new run is queued, because nobody has claimed it.
LEMMA NewPhase ==
    ASSUME RefineInv, NEW q \in Run, status[q] = "none", fence' = fence,
           status' = [status EXCEPT ![q] = "queued"]
    PROVE  [r \in Run |-> Phase(r)'] = [[r \in Run |-> Phase(r)] EXCEPT ![q] = "queued"]
<1>1. Phase(q)' = "queued"
  BY DEF RefineInv, TypeOK, BranchInv, Phase, Unfinished, Terminal
<1>2. ASSUME NEW r \in Run, r # q  PROVE Phase(r)' = Phase(r)
  BY <1>2 DEF RefineInv, TypeOK, Phase, Unfinished
<1> QED
  BY <1>1, <1>2

\* The end of one run.
LEMMA EndPhase ==
    ASSUME TypeOK, NEW q \in Run, NEW st \in Terminal, fence' = fence,
           status' = [status EXCEPT ![q] = st]
    PROVE  [r \in Run |-> Phase(r)'] = [[r \in Run |-> Phase(r)] EXCEPT ![q] = st]
<1>1. Phase(q)' = st
  BY DEF TypeOK, Phase, Unfinished, Terminal
<1>2. ASSUME NEW r \in Run, r # q  PROVE Phase(r)' = Phase(r)
  BY <1>2 DEF TypeOK, Phase, Unfinished
<1> QED
  BY <1>1, <1>2

\* A cancel is visible as a stop of the same tree.
LEMMA CancelStops ==
    ASSUME RefineInv, NEW u \in Run, Cancel(u)
    PROVE  \E now \in SUBSET Run : Promise!Stops(u, now)
<1> DEFINE now == {d \in Marked(u) : EndsAtOnce(d)}
           told == {d \in Promise!Below(u) : Promise!Live(d)}
<1>1. told = Marked(u)
  BY LivePhase DEF Marked, Descendants, Promise!Below, Promise!Live
<1>2. now \in SUBSET Run /\ now \subseteq told
  BY <1>1 DEF Marked, Descendants
<1>3. ASSUME NEW r \in Run
      PROVE  Phase(r)' = IF r \in now THEN "cancelled" ELSE Phase(r)
  BY <1>3 DEF Cancel, Marked, Phase, Unfinished, Terminal, leaseVars
<1>4. cancelReq' = [r \in Run |-> cancelReq[r] \/ r \in told] /\ UNCHANGED <<parent, branch>>
  BY <1>1 DEF Cancel
<1>5. Promise!Stops(u, now)
  <2> HIDE DEF now
  <2> QED
    BY <1>2, <1>3, <1>4 DEF Promise!Stops
<1> QED
  BY <1>2, <1>5

\* The requests of the API: submitting, stopping and giving up are visible.
LEMMA PromiseUser ==
    ASSUME RefineInv, User  PROVE Promise!Next \/ UNCHANGED Promise!promiseVars
<1>1. ASSUME NEW q \in Run, NEW b \in Branch, Submit(q, b)  PROVE Promise!Submitted(q, b)
  <2>1. status[q] = "none" /\ fence' = fence /\ status' = [status EXCEPT ![q] = "queued"]
    BY <1>1 DEF Submit, NextRun, Created, Insert, leaseVars
  <2>2. Phase(q) = "none"
    BY <2>1 DEF Phase, Unfinished
  <2>3. [r \in Run |-> Phase(r)'] = [[r \in Run |-> Phase(r)] EXCEPT ![q] = "queued"]
    BY <2>1, NewPhase
  <2> QED
    BY <1>1, <2>2, <2>3 DEF Submit, Insert, Promise!Submitted
<1>2. ASSUME NEW o \in Op, NEW answer \in AskStates, Respond(o, answer)
      PROVE UNCHANGED Promise!promiseVars
  BY <1>2, SamePhase DEF Respond, Resumed, Wakes, Unfinished, Terminal, leaseVars, RefineInv, TypeOK
<1>3. ASSUME NEW u \in Run, Cancel(u)
      PROVE  \E now \in SUBSET Run : Promise!Stops(u, now)
  BY <1>3, CancelStops
<1>4. ASSUME NEW o \in Op, NEW decision \in {"completed", "accept"}, Reconcile(o, decision)
      PROVE (\E r \in Run : Promise!GivenUp(r)) \/ UNCHANGED Promise!promiseVars
  <2> DEFINE r == opRun[o]
  <2>1. r \in Run /\ status[r] \in {"needs_review", "cancelling"}
    BY <1>4 DEF Reconcile, RefineInv, TypeOK
  <2>2. UNCHANGED <<parent, branch, fence>>
    BY <1>4 DEF Reconcile, leaseVars
  <2>3. \E st \in {"queued", "cancelling", "needs_review"} : status' = [status EXCEPT ![r] = st]
    BY <1>4, <2>1 DEF Reconcile
  <2>4. \A q \in Run : status'[q] = status[q] \/ (Unfinished(q) /\ Unfinished(q)')
    BY <2>1, <2>3 DEF RefineInv, TypeOK, Unfinished, Terminal
  <2>5. CASE decision = "accept" /\ status[r] = "needs_review"
    <3>1. ~cancelReq[r]
      BY <2>1, <2>5 DEF RefineInv, CancelInv, Stopping
    <3>2. cancelReq' = [cancelReq EXCEPT ![r] = TRUE]
      BY <1>4, <2>5 DEF Reconcile
    <3>3. Phase(r) \in {"queued", "active"}
      BY <2>1, <2>5, LivePhase DEF Unfinished, Terminal
    <3>4. [q \in Run |-> Phase(q)'] = [q \in Run |-> Phase(q)]
      BY <2>2, <2>4 DEF Phase, Unfinished
    <3>5. Promise!GivenUp(r)
      BY <2>1, <2>2, <3>1, <3>2, <3>3, <3>4 DEF Promise!GivenUp, Promise!Live
    <3> QED
      BY <2>1, <3>5
  <2>6. CASE ~ (decision = "accept" /\ status[r] = "needs_review")
    <3>1. cancelReq' = cancelReq
      BY <1>4, <2>6 DEF Reconcile, RefineInv, TypeOK
    <3> QED
      BY <2>2, <2>4, <3>1, SamePhase
  <2> QED
    BY <2>5, <2>6
<1> QED
  BY <1>1, <1>2, <1>3, <1>4 DEF User, Promise!Next

\* The periodic duties: the idle pass closes stopped runs, the rest is invisible.
LEMMA PromiseTick ==
    ASSUME RefineInv, Tick  PROVE Promise!Next \/ UNCHANGED Promise!promiseVars
<1> USE DEF RefineInv, TypeOK
<1>1. ASSUME NEW o \in Op, ExpireAsk(o)  PROVE UNCHANGED Promise!promiseVars
  BY <1>1, SamePhase DEF ExpireAsk, Resumed, Wakes, Unfinished, Terminal, leaseVars
<1>2. CASE RefreshWaits
  BY <1>2, SamePhase DEF RefreshWaits, Resumed, Wakes, Unfinished, Terminal, leaseVars
<1>3. ASSUME FinishIdle  PROVE \E S \in SUBSET Run : Promise!Closes(S)
  <2>1. /\ Finishing \in SUBSET Run
        /\ \A r \in Finishing : status[r] = "cancelling"
        /\ \A r \in Finishing : \A c \in Run :
               parent[c] = r => status[c] \in Terminal \/ c \in Finishing
    BY DEF Finishing, IdleCancelling, Children
  <2>2. \A r \in Finishing : Promise!Live(r) /\ cancelReq[r]
    BY <2>1, LivePhase DEF Promise!Live, AskedInv, Unfinished, Terminal
  <2>3. \A c \in Run : status[c] \in Terminal => Phase(c) \in Promise!Ended
    BY DEF Phase, Unfinished, Terminal, Promise!Ended
  <2>4. \A r \in Finishing : Promise!Alone(r, Finishing)
    BY <2>1, <2>3 DEF Promise!Alone
  <2>5. ASSUME NEW r \in Run
        PROVE  Phase(r)' = IF r \in Finishing THEN "cancelled" ELSE Phase(r)
    BY <1>3, <2>5 DEF FinishIdle, Phase, Unfinished, Terminal, leaseVars
  <2>6. UNCHANGED <<parent, branch, cancelReq>>
    BY <1>3 DEF FinishIdle
  <2>7. Promise!Closes(Finishing)
    BY <2>1, <2>2, <2>4, <2>5, <2>6 DEF Promise!Closes
  <2> QED
    BY <2>1, <2>7
<1>4. ASSUME NEW r \in Run, LeaseExpire(r)  PROVE UNCHANGED Promise!promiseVars
  BY <1>4, SamePhase DEF LeaseExpire, runVars
<1> QED
  BY <1>1, <1>2, <1>3, <1>4 DEF Tick, Promise!Next

\* Settlements: an answer needs ended children, a stopped run closes alone, a pause is invisible.
LEMMA PromiseSettles ==
    ASSUME RefineInv, NEW p \in Proc, NEW q \in Run, Settles(p, q)
    PROVE  Promise!Next \/ UNCHANGED Promise!promiseVars
<1> USE DEF RefineInv
<1>1. CASE SettleCancelling(p, q)
  <2>1. UNCHANGED <<parent, branch, cancelReq, fence>> /\ status[q] = "cancelling"
    BY <1>1 DEF SettleCancelling
  <2>2. CASE status' = status
    BY <2>1, <2>2, SamePhase
  <2>3. CASE status' = [status EXCEPT ![q] = "cancelled"] /\ ChildrenSettled(q)
    <3>1. [r \in Run |-> Phase(r)'] = [[r \in Run |-> Phase(r)] EXCEPT ![q] = "cancelled"]
      BY <2>1, <2>3, EndPhase DEF Terminal
    <3>2. Promise!Live(q) /\ cancelReq[q]
      BY <2>1, LivePhase DEF Promise!Live, AskedInv, Unfinished, Terminal
    <3>3. Promise!Alone(q, {q})
      BY <2>3 DEF Promise!Alone, Promise!Ended, ChildrenSettled, Children, Phase, Unfinished, Terminal
    <3>4. Promise!Closes({q})
      BY <2>1, <3>1, <3>2, <3>3 DEF Promise!Closes
    <3> QED
      BY <3>4 DEF Promise!Next
  <2> QED
    BY <1>1, <2>2, <2>3 DEF SettleCancelling
<1>2. ASSUME NEW W \in SUBSET Pending(q), SettleWaiting(p, q, W)
      PROVE  UNCHANGED Promise!promiseVars
  <2>1. UNCHANGED <<parent, branch, cancelReq, fence>> /\ status[q] = "running"
    BY <1>2 DEF SettleWaiting
  <2>2. PICK st \in {"queued", WaitStatus(W)} : status' = [status EXCEPT ![q] = st]
    BY <1>2 DEF SettleWaiting
  <2>3. st \notin Terminal \cup {"none"}
    BY <2>2, WaitStatusType DEF Terminal
  <2> QED
    BY <2>1, <2>2, <2>3, SamePhase DEF TypeOK, Unfinished, Terminal
<1>3. ASSUME NEW final \in BOOLEAN, SettleEnd(p, q, final)
      PROVE  Promise!Next \/ UNCHANGED Promise!promiseVars
  <2>1. UNCHANGED <<parent, branch, cancelReq, fence>> /\ status[q] = "running" /\ fence[q] # 0
    BY <1>3 DEF SettleEnd, CanSettle, RowFenced
  <2>2. Phase(q) = "active" /\ ~cancelReq[q]
    BY <2>1 DEF Phase, Unfinished, Terminal, CancelInv, Stopping
  <2>3. CASE status' = [status EXCEPT ![q] = "needs_review"]
    BY <2>1, <2>3, SamePhase DEF TypeOK, Unfinished, Terminal
  <2>4. CASE status' = [status EXCEPT ![q] = "failed"]
    <3>1. [r \in Run |-> Phase(r)'] = [[r \in Run |-> Phase(r)] EXCEPT ![q] = "failed"]
      BY <2>1, <2>4, EndPhase DEF Terminal
    <3>2. Promise!Fails(q)
      BY <2>1, <2>2, <3>1 DEF Promise!Fails
    <3> QED
      BY <3>2 DEF Promise!Next
  <2>5. CASE status' = [status EXCEPT ![q] = "completed"] /\ ChildrenSettled(q)
    <3>1. [r \in Run |-> Phase(r)'] = [[r \in Run |-> Phase(r)] EXCEPT ![q] = "completed"]
      BY <2>1, <2>5, EndPhase DEF Terminal
    <3>2. Promise!Alone(q, {})
      BY <2>5 DEF Promise!Alone, Promise!Ended, ChildrenSettled, Children, Phase, Unfinished, Terminal
    <3>3. Promise!Answers(q)
      BY <2>1, <2>2, <3>1, <3>2 DEF Promise!Answers
    <3> QED
      BY <3>3 DEF Promise!Next
  <2> QED
    BY <1>3, <2>3, <2>4, <2>5 DEF SettleEnd, FinalStatus
<1>4. CASE SettleRejected(p, q)
  BY <1>4, SamePhase DEF SettleRejected, runVars, leaseVars
<1> QED
  BY <1>1, <1>2, <1>3, <1>4 DEF Settles

\* Workers: a first claim begins a run where no other is active, delegation creates a run for
\* one that was not stopped, and recovery is invisible.
LEMMA PromiseWorker ==
    ASSUME RefineInv, NEW p \in Proc, Worker(p)
    PROVE  Promise!Next \/ UNCHANGED Promise!promiseVars
<1> USE DEF RefineInv
<1>1. ASSUME NEW q \in Run, Claim(p, q)  PROVE Promise!Begins(q) \/ UNCHANGED Promise!promiseVars
  <2>1. /\ UNCHANGED <<parent, branch, cancelReq>> /\ status[q] = "queued"
        /\ status' = [status EXCEPT ![q] = "running"] /\ fence' = [fence EXCEPT ![q] = @ + 1]
        /\ owner[branch[q]] \in {NoRun, q}
    BY <1>1 DEF Claim, Claimable, BranchFree
  <2>2. Phase(q)' = "active"
    BY <2>1 DEF TypeOK, Phase, Unfinished, Terminal
  <2>3. ASSUME NEW r \in Run, r # q  PROVE Phase(r)' = Phase(r)
    BY <2>1, <2>3 DEF TypeOK, Phase, Unfinished
  <2>4. CASE fence[q] # 0
    <3>1. Phase(q) = "active"
      BY <2>1, <2>4 DEF Phase, Unfinished, Terminal
    <3> QED
      BY <2>1, <2>2, <2>3, <3>1 DEF Promise!promiseVars
  <2>5. CASE fence[q] = 0
    <3>1. Phase(q) = "queued" /\ ~cancelReq[q]
      BY <2>1, <2>5 DEF Phase, Unfinished, Terminal, CancelInv, Stopping
    <3>2. ASSUME NEW r \in Run, Phase(r) = "active"  PROVE branch[r] # branch[q]
      <4>1. Unfinished(r) /\ fence[r] # 0 /\ r # q /\ r # NoRun
        BY <2>5, <3>2 DEF Phase, Unfinished, TypeOK, Status, Terminal, Run, NoRun
      <4> QED
        BY <2>1, <4>1 DEF BranchInv
    <3>3. [r \in Run |-> Phase(r)'] = [[r \in Run |-> Phase(r)] EXCEPT ![q] = "active"]
      BY <2>2, <2>3
    <3> QED
      BY <2>1, <3>1, <3>2, <3>3 DEF Promise!Begins
  <2> QED
    BY <2>4, <2>5
<1>2. ASSUME NEW q \in Run, Settles(p, q)  PROVE Promise!Next \/ UNCHANGED Promise!promiseVars
  BY <1>2, PromiseSettles
<1>3. ASSUME NEW q \in Run, NEW o \in Op, NEW c \in Run, NEW b \in Branch, SpawnChild(p, q, o, c, b)
      PROVE  Promise!Delegated(c, q, b) \/ UNCHANGED Promise!promiseVars
  <2>1. UNCHANGED <<cancelReq, fence>> /\ status[q] = "running" /\ ~cancelReq[q] /\ fence[q] # 0
    BY <1>3 DEF SpawnChild, MayAct, Fenced, leaseVars, TypeOK
  <2>2. CASE effects[o] > 0
    BY <1>3, <2>1, <2>2, SamePhase DEF SpawnChild
  <2>3. CASE ~ (effects[o] > 0)
    <3>1. NextRun(c) /\ NewBranch(b) /\ Insert(c, q, root[q], depth[q] + 1, b)
      BY <1>3, <2>3 DEF SpawnChild
    <3>2. status[c] = "none" /\ status' = [status EXCEPT ![c] = "queued"]
      BY <3>1 DEF NextRun, Created, Insert
    <3>3. Phase(c) = "none" /\ Phase(q) = "active"
      BY <2>1, <3>2 DEF Phase, Unfinished, Terminal
    <3>4. \A r \in Run : Phase(r) # "none" => branch[r] # b
      BY <3>1 DEF NewBranch, Unused, Created, Phase, Unfinished
    <3>5. [r \in Run |-> Phase(r)'] = [[r \in Run |-> Phase(r)] EXCEPT ![c] = "queued"]
      BY <2>1, <3>2, NewPhase
    <3> QED
      BY <2>1, <3>1, <3>3, <3>4, <3>5 DEF Insert, Promise!Delegated
  <2> QED
    BY <2>2, <2>3
<1>4. ASSUME NEW q \in Run, NEW o \in Op, Calls(p, q, o),
             \A c \in Run, b \in Branch : ~SpawnChild(p, q, o, c, b)
      PROVE  UNCHANGED Promise!promiseVars
  BY <1>4, SamePhase DEF Calls, PrepareOp, AskUser, RegisterWait, RefuseOp, ConcludeSpecial,
     StartOp, McpPause, McpResume, runVars, leaseVars
<1>5. CASE RecoverCommit(p)
  <2> DEFINE q == probe[p].run
             st == IF status[q] = "running" THEN "recovering" ELSE status[q]
  <2>1. \/ status' = status
        \/ status' = [status EXCEPT ![q] = st]
        \/ \E doubt \in BOOLEAN : status' = [status EXCEPT ![q] = AfterLoss(st, doubt)]
    BY <1>5 DEF RecoverCommit
  <2> DEFINE Open(s) == s \notin Terminal \cup {"none"}
             Moved(s) == s = status[q] \/ (Open(s) /\ Open(status[q]))
  <2>2. Moved(st) /\ \A doubt \in BOOLEAN : Moved(AfterLoss(st, doubt))
    BY DEF AfterLoss, Terminal
  <2>3. \E s : Moved(s) /\ (status' = status \/ status' = [status EXCEPT ![q] = s])
    <3> HIDE DEF st, Moved, q
    <3>1. CASE status' = status
      BY <2>2, <3>1
    <3>2. CASE status' = [status EXCEPT ![q] = st]
      BY <2>2, <3>2
    <3>3. ASSUME NEW doubt \in BOOLEAN, status' = [status EXCEPT ![q] = AfterLoss(st, doubt)]
          PROVE  \E s : Moved(s) /\ (status' = status \/ status' = [status EXCEPT ![q] = s])
      BY <2>2, <3>3
    <3> QED
      BY <2>1, <3>1, <3>2, <3>3
  <2>4. \A r \in Run : status'[r] = status[r] \/ (Unfinished(r) /\ Unfinished(r)')
    <3>1. status \in [Run -> Status]
      BY DEF TypeOK
    <3>2. PICK s : Moved(s) /\ (status' = status \/ status' = [status EXCEPT ![q] = s])
      BY <2>3
    <3> HIDE DEF q, Open
    <3>3. \A r \in Run : status'[r] = status[r] \/ (Open(status[r]) /\ Open(status'[r]))
      BY <3>1, <3>2
    <3> QED
      BY <3>3 DEF Open, Unfinished
  <2> QED
    BY <1>5, <2>4, SamePhase DEF RecoverCommit
<1>6. CASE \/ StartProc(p) \/ Crash(p) \/ \E q \in Run : RecoverRead(p, q)
           \/ \E o \in Op : Act(p, o) \/ \E result \in OpStates : FinishOp(p, o, result)
  <2>1. UNCHANGED <<status, parent, branch, cancelReq, fence>>
    BY <1>6 DEF StartProc, Crash, RecoverRead, Act, FinishOp, runVars, leaseVars
  <2> QED
    BY <2>1, SamePhase
<1> QED
  BY <1>1, <1>2, <1>3, <1>4, <1>5, <1>6 DEF Worker, Promise!Next

\* The strengthening holds of every reachable state.
LEMMA RefineHolds == Spec => []RefineInv
<1>1. Init => CancelInv /\ AskedInv /\ BranchInv
  BY DEF Init, CancelInv, AskedInv, BranchInv, Unfinished
<1>2. RefineInv /\ [Next]_vars => (CancelInv /\ AskedInv /\ BranchInv)'
  <2> SUFFICES ASSUME RefineInv, [Next]_vars  PROVE (CancelInv /\ AskedInv /\ BranchInv)'
    OBVIOUS
  <2>1. ASSUME NEW r \in Run  PROVE KeepsStopping(r) /\ AsksFirst(r)
    <3>1. CASE UNCHANGED vars
      BY <3>1 DEF AsksFirst, KeepsStopping, vars, runVars
    <3> QED
      BY <3>1, StopStep, AskedUser, AskedTick, AskedWorker DEF Next, RefineInv
  <2>2. BranchInv'
    <3>1. CASE UNCHANGED vars
      BY <3>1 DEF RefineInv, BranchInv, Unfinished, vars, runVars, leaseVars
    <3> QED
      BY <3>1, BranchUser, BranchTick, BranchWorker DEF Next, RefineInv
  <2> QED
    BY <2>1, <2>2 DEF RefineInv, CancelInv, AskedInv, KeepsStopping, AsksFirst
<1> QED
  BY <1>1, <1>2, TypeCorrect, PTL DEF Spec, RefineInv

\* Every step is a step of the promise, or invisible in it.
LEMMA StepsKeepPromise == RefineInv /\ [Next]_vars => [Promise!Next]_(Promise!promiseVars)
<1>1. UNCHANGED vars => UNCHANGED Promise!promiseVars
  BY SamePhase DEF vars, runVars, leaseVars
<1> QED
  BY <1>1, PromiseUser, PromiseTick, PromiseWorker DEF Next

\* The scheduler implements its promise: for every instance, each step of a user, a clock or a
\* worker is a step of RunPromise or invisible in it.
THEOREM SchedulerKeepsPromise == Spec => PromiseKept
<1>1. Init => Promise!Init
  <2> SUFFICES ASSUME Init  PROVE Promise!Init
    OBVIOUS
  <2>1. branch \in [Run -> Branch]
    BY TypeInit DEF TypeOK
  <2>2. \A r \in Run : Phase(r) = "none"
    BY DEF Init, Phase, Unfinished
  <2> QED
    BY <2>1, <2>2 DEF Init, Promise!Init
<1> QED
  BY <1>1, StepsKeepPromise, RefineHolds, PTL DEF Spec, PromiseKept, Promise!Spec

-----------------------------------------------------------------------------
(* What RunPromise guarantees, and so the scheduler *)

\* AnsweredAlone with what makes it inductive: a run that does not exist yet has no parent.
AnsweredInv ==
    /\ Promise!AnsweredAlone
    /\ parent \in [Run -> Run \cup {NoRun}]
    /\ \A c \in Run : Phase(c) = "none" => parent[c] = NoRun

\* Children are only added below active runs, and what has ended stays ended.
LEMMA AnsweredStep ==
    ASSUME AnsweredInv, Promise!Next  PROVE AnsweredInv'
<1> DEFINE ph == [r \in Run |-> Phase(r)]
<1>0. NoRun \notin Run
  BY DEF Run, NoRun
<1>1. AnsweredInv <=>
        /\ \A r, c \in Run : ph[r] = "completed" /\ parent[c] = r => ph[c] \in Promise!Ended
        /\ \A c \in Run : ph[c] = "none" => parent[c] = NoRun
        /\ parent \in [Run -> Run \cup {NoRun}]
  BY DEF AnsweredInv, Promise!AnsweredAlone, Promise!Alone
<1>2. AnsweredInv' <=>
        /\ \A r, c \in Run : ph'[r] = "completed" /\ parent'[c] = r => ph'[c] \in Promise!Ended
        /\ \A c \in Run : ph'[c] = "none" => parent'[c] = NoRun
        /\ parent' \in [Run -> Run \cup {NoRun}]
  BY DEF AnsweredInv, Promise!AnsweredAlone, Promise!Alone, Promise!Ended
<1>3. ASSUME NEW r \in Run, NEW b \in Branch, Promise!Submitted(r, b)  PROVE AnsweredInv'
  BY <1>0, <1>1, <1>2, <1>3 DEF Promise!Submitted, Promise!Ended
<1>4. ASSUME NEW c \in Run, NEW r \in Run, NEW b \in Branch, Promise!Delegated(c, r, b)
      PROVE  AnsweredInv'
  BY <1>0, <1>1, <1>2, <1>4 DEF Promise!Delegated, Promise!Ended
<1>5. ASSUME NEW u \in Run, NEW now \in SUBSET Run, Promise!Stops(u, now)  PROVE AnsweredInv'
  BY <1>1, <1>2, <1>5 DEF Promise!Stops, Promise!Live, Promise!Ended
<1>6. ASSUME NEW S \in SUBSET Run, Promise!Closes(S)  PROVE AnsweredInv'
  BY <1>1, <1>2, <1>6 DEF Promise!Closes, Promise!Live, Promise!Ended
<1>7. ASSUME NEW r \in Run, Promise!Begins(r) \/ Promise!GivenUp(r)  PROVE AnsweredInv'
  BY <1>1, <1>2, <1>7 DEF Promise!Begins, Promise!GivenUp, Promise!Ended
<1>8. ASSUME NEW r \in Run, Promise!Answers(r)  PROVE AnsweredInv'
  BY <1>1, <1>2, <1>8 DEF Promise!Answers, Promise!Alone, Promise!Ended
<1>9. ASSUME NEW r \in Run, Promise!Fails(r)  PROVE AnsweredInv'
  BY <1>1, <1>2, <1>9 DEF Promise!Fails, Promise!Ended
<1> QED
  BY <1>3, <1>4, <1>5, <1>6, <1>7, <1>8, <1>9 DEF Promise!Next

\* An answer races with the run's children and never loses: a completed run's children have
\* ended.  It follows from the promise alone, for every instance.
THEOREM AnsweredTreesAreSettled == Spec => []CompletedSettled
<1>1. Promise!Init => AnsweredInv
  BY DEF Promise!Init, AnsweredInv, Promise!AnsweredAlone
<1>2. AnsweredInv /\ [Promise!Next]_(Promise!promiseVars) => AnsweredInv'
  <2>1. ASSUME AnsweredInv, UNCHANGED Promise!promiseVars  PROVE AnsweredInv'
    BY <2>1 DEF Promise!promiseVars, AnsweredInv, Promise!AnsweredAlone, Promise!Alone, Promise!Ended
  <2> QED
    BY <2>1, AnsweredStep
<1>3. AnsweredInv => CompletedSettled
  BY DEF AnsweredInv, Promise!AnsweredAlone, Promise!Alone, Promise!Ended, CompletedSettled,
     ChildrenSettled, Children, Phase, Unfinished, Terminal
<1> QED
  BY <1>1, <1>2, <1>3, SchedulerKeepsPromise, PTL DEF PromiseKept, Promise!Spec

-----------------------------------------------------------------------------
(* A cancelled tree is cancelled as a whole *)

\* A run that does not exist is in no tree.
FreshTree ==
    /\ parent \in [Run -> Run \cup {NoRun}]
    /\ \A c \in Run : Phase(c) = "none" => parent[c] = NoRun /\ \A x \in Run : parent[x] # c

\* Whatever r delegated, directly or not, was told to stop or has ended.
Covers(r) == \A d \in Promise!Below(r) : cancelReq[d] \/ Phase(d) \in Promise!Ended

\* cancel() walks down: what is below a run below u is below u.
LEMMA BelowBelow ==
    ASSUME NEW u \in Run, NEW r \in Promise!Below(u)
    PROVE  Promise!Below(r) \subseteq Promise!Below(u)
  BY DEF Promise!Below

\* A run without a parent is below itself alone.
LEMMA OrphanAlone ==
    ASSUME NEW r \in Run, NEW d \in Promise!Below(r), d # r
    PROVE  parent[d] # NoRun
<1> SUFFICES ASSUME parent[d] = NoRun PROVE FALSE
  OBVIOUS
<1>1. d \in Run /\ NoRun \notin Run
  BY DEF Promise!Below, Run, NoRun
<1>2. \A c \in Run : parent[c] \in Run \ {d} => c \in Run \ {d}
  BY <1>1
<1>3. r \in Run \ {d} /\ Run \ {d} \in SUBSET Run
  BY <1>1
<1> QED BY <1>2, <1>3 DEF Promise!Below

\* A new leaf joins exactly the trees its parent is in.
LEMMA LeafJoins ==
    ASSUME FreshTree, NEW c \in Run, Phase(c) = "none", NEW up \in Run \cup {NoRun},
           parent' = [parent EXCEPT ![c] = up], NEW r \in Run, r # c,
           NEW d \in Promise!Below(r)'
    PROVE  d \in Promise!Below(r) \/ (d = c /\ up \in Promise!Below(r))
<1>1. /\ d \in Run /\ parent'[c] = up /\ \A x \in Run \ {c} : parent'[x] = parent[x]
      /\ \A x \in Run : parent[x] # c
  BY DEF FreshTree, Promise!Below
<1>2. \A S \in SUBSET Run : (r \in S /\ \A x \in Run : parent'[x] \in S => x \in S) => d \in S
  BY DEF Promise!Below
<1>3. ASSUME d \notin Promise!Below(r) PROVE d = c
  <2>1. PICK S \in SUBSET Run : r \in S /\ d \notin S /\ \A x \in Run : parent[x] \in S => x \in S
    BY <1>1, <1>3 DEF Promise!Below
  <2>2. \A x \in Run : parent'[x] \in S \cup {c} => x \in S \cup {c}
    BY <1>1, <2>1
  <2>3. S \cup {c} \in SUBSET Run /\ r \in S \cup {c}
    BY <2>1
  <2>4. d \in S \cup {c}
    BY <1>2, <2>2, <2>3
  <2> QED BY <2>1, <2>4
<1>4. ASSUME d = c, up \notin Promise!Below(r) PROVE FALSE
  <2>1. PICK S \in SUBSET Run : r \in S /\ up \notin S /\ \A x \in Run : parent[x] \in S => x \in S
    <3>1. CASE up \in Run
      BY <1>4, <3>1 DEF Promise!Below
    <3>2. CASE up \notin Run
      BY <3>2
    <3> QED BY <3>1, <3>2
  <2>2. \A x \in Run : parent'[x] \in S \ {c} => x \in S \ {c}
    BY <1>1, <2>1
  <2>3. S \ {c} \in SUBSET Run /\ r \in S \ {c}
    BY <2>1
  <2>4. d \in S \ {c}
    BY <1>2, <2>2, <2>3
  <2> QED BY <1>4, <2>4
<1> QED BY <1>3, <1>4

\* No step of the promise joins a run that does not exist to a tree.
LEMMA FreshStays == FreshTree /\ [Promise!Next]_(Promise!promiseVars) => FreshTree'
<1> SUFFICES ASSUME FreshTree, [Promise!Next]_(Promise!promiseVars) PROVE FreshTree'
  OBVIOUS
<1> DEFINE ph == [r \in Run |-> Phase(r)]
<1>0. NoRun \notin Run
  BY DEF Run, NoRun
<1>1. FreshTree <=>
        /\ parent \in [Run -> Run \cup {NoRun}]
        /\ \A c \in Run : ph[c] = "none" => parent[c] = NoRun /\ \A x \in Run : parent[x] # c
  BY DEF FreshTree
<1>2. FreshTree' <=>
        /\ parent' \in [Run -> Run \cup {NoRun}]
        /\ \A c \in Run : ph'[c] = "none" => parent'[c] = NoRun /\ \A x \in Run : parent'[x] # c
  BY DEF FreshTree
<1>3. ASSUME NEW r \in Run, NEW b \in Branch, Promise!Submitted(r, b)  PROVE FreshTree'
  BY <1>0, <1>1, <1>2, <1>3 DEF Promise!Submitted
<1>4. ASSUME NEW c \in Run, NEW r \in Run, NEW b \in Branch, Promise!Delegated(c, r, b)
      PROVE  FreshTree'
  BY <1>0, <1>1, <1>2, <1>4 DEF Promise!Delegated
<1>5. ASSUME NEW u \in Run, NEW now \in SUBSET Run, Promise!Stops(u, now)  PROVE FreshTree'
  BY <1>1, <1>2, <1>5 DEF Promise!Stops
<1>6. ASSUME NEW S \in SUBSET Run, Promise!Closes(S)  PROVE FreshTree'
  BY <1>1, <1>2, <1>6 DEF Promise!Closes
<1>7. ASSUME NEW r \in Run,
             Promise!Begins(r) \/ Promise!GivenUp(r) \/ Promise!Answers(r) \/ Promise!Fails(r)
      PROVE  FreshTree'
  BY <1>1, <1>2, <1>7 DEF Promise!Begins, Promise!GivenUp, Promise!Answers, Promise!Fails
<1>8. CASE UNCHANGED Promise!promiseVars
  BY <1>1, <1>2, <1>8 DEF Promise!promiseVars
<1> QED BY <1>3, <1>4, <1>5, <1>6, <1>7, <1>8 DEF Promise!Next

\* A covered tree stays covered: nothing is delegated in it, and what has ended stays so.
LEMMA CoverStays ==
    ASSUME FreshTree, NEW r \in Run, cancelReq[r], Covers(r), Phase(r) # "none",
           cancelReq \in [Run -> BOOLEAN], [Promise!Next]_(Promise!promiseVars)
    PROVE  Covers(r)'
<1> DEFINE ph == [q \in Run |-> Phase(q)]
<1>0. Promise!Below(r) \subseteq Run
  BY DEF Promise!Below
<1>1. ASSUME parent' = parent,
             \A d \in Run : /\ cancelReq[d] => cancelReq'[d]
                            /\ ph[d] \in Promise!Ended => ph'[d] \in Promise!Ended
      PROVE  Covers(r)'
  <2>1. Promise!Below(r)' = Promise!Below(r)
    BY <1>1 DEF Promise!Below
  <2> QED BY <1>0, <1>1, <2>1 DEF Covers, Promise!Ended
<1>2. ASSUME NEW c \in Run, NEW up \in Run \cup {NoRun}, Phase(c) = "none",
             parent' = [parent EXCEPT ![c] = up], cancelReq' = cancelReq,
             ph' = [ph EXCEPT ![c] = "queued"],
             up \in Run => ph[up] = "active" /\ ~cancelReq[up]
      PROVE  Covers(r)'
  <2>1. ASSUME NEW d \in Promise!Below(r)' PROVE d \in Promise!Below(r) /\ d # c
    <3>1. up \notin Promise!Below(r)
      BY <1>0, <1>2 DEF Covers, Promise!Ended
    <3>2. d \in Promise!Below(r)
      BY <1>2, <3>1, LeafJoins
    <3>3. c \notin Promise!Below(r)
      <4>1. parent[c] = NoRun
        BY <1>2 DEF FreshTree
      <4> QED BY <1>2, <4>1, OrphanAlone
    <3> QED BY <3>2, <3>3
  <2>2. \A d \in Run \ {c} : Phase(d)' = Phase(d)
    BY <1>2
  <2> QED BY <1>0, <1>2, <2>1, <2>2 DEF Covers, Promise!Ended
<1>3. ASSUME NEW q \in Run, NEW b \in Branch, Promise!Submitted(q, b)  PROVE Covers(r)'
  <2>1. NoRun \notin Run
    BY DEF Run, NoRun
  <2> QED BY <1>2, <1>3, <2>1 DEF Promise!Submitted
<1>4. ASSUME NEW c \in Run, NEW q \in Run, NEW b \in Branch, Promise!Delegated(c, q, b)
      PROVE  Covers(r)'
  BY <1>2, <1>4 DEF Promise!Delegated
<1>5. ASSUME NEW u \in Run, NEW now \in SUBSET Run, Promise!Stops(u, now)  PROVE Covers(r)'
  BY <1>1, <1>5 DEF Promise!Stops, Promise!Ended
<1>6. ASSUME NEW S \in SUBSET Run, Promise!Closes(S)  PROVE Covers(r)'
  BY <1>1, <1>6 DEF Promise!Closes, Promise!Ended
<1>7. ASSUME NEW q \in Run,
             Promise!Begins(q) \/ Promise!GivenUp(q) \/ Promise!Answers(q) \/ Promise!Fails(q)
      PROVE  Covers(r)'
  BY <1>1, <1>7 DEF Promise!Begins, Promise!GivenUp, Promise!Answers, Promise!Fails, Promise!Ended
<1>8. CASE UNCHANGED Promise!promiseVars
  BY <1>1, <1>8 DEF Promise!promiseVars
<1> QED BY <1>3, <1>4, <1>5, <1>6, <1>7, <1>8 DEF Promise!Next

\* cancel() covers every run it tells.
LEMMA StopsCover ==
    ASSUME FreshTree, NEW u \in Run, NEW now \in SUBSET Run, Promise!Stops(u, now), TypeOK, TypeOK',
           NEW r \in Run, cancelReq'[r], ~cancelReq[r]
    PROVE  Covers(r)'
<1> DEFINE ph == [q \in Run |-> Phase(q)]
<1>1. /\ r \in Promise!Below(u) /\ parent' = parent /\ Phase(r) # "none"
      /\ \A d \in Run : cancelReq'[d] = (cancelReq[d] \/ (d \in Promise!Below(u) /\ Promise!Live(d)))
      /\ \A d \in Run : Phase(d)' = IF d \in now THEN "cancelled" ELSE Phase(d)
  BY DEF Promise!Stops, Promise!Live
<1>2. \A d \in Run : Phase(d) \in {"none", "queued", "active"} \cup Promise!Ended
  BY DEF TypeOK, Status, Phase, Unfinished, Terminal, Promise!Ended
<1>3. ASSUME NEW d \in Promise!Below(r) PROVE cancelReq'[d] \/ Phase(d)' \in Promise!Ended
  <2>1. d \in Promise!Below(u) /\ d \in Run
    BY <1>1, BelowBelow DEF Promise!Below
  <2>2. Phase(d) # "none"
    <3>1. CASE d = r
      BY <1>1, <3>1
    <3>2. CASE d # r
      BY <2>1, <3>2, OrphanAlone DEF FreshTree
    <3> QED BY <3>1, <3>2
  <2> QED BY <1>1, <1>2, <2>1, <2>2 DEF Promise!Live, Promise!Ended
<1>4. Promise!Below(r)' = Promise!Below(r)
  BY <1>1 DEF Promise!Below
<1> QED BY <1>3, <1>4 DEF Covers, Promise!Ended

\* The ledger keeps what was accepted, and the run it was accepted for.
KeepsAccepted(o) ==
    /\ opState[o] # "none" => opState'[o] # "none" /\ opRun'[o] = opRun[o]
    /\ accepted[o] => accepted'[o]
    /\ accepted'[o] => accepted[o] \/ opState'[o] # "none"

\* Only a cancel of a tree, or an outcome accepted for this very run, tells a run to stop.
ToldBy(r) ==
    ~cancelReq[r] /\ cancelReq'[r] =>
        (\E u \in Run : Cancel(u)) \/ \E o \in OpsOf(r)' : accepted'[o]

\* What ends with runs never takes an operation out of the ledger.
LEMMA EndingKeeps ==
    ASSUME TypeOK, NEW T, NEW S, Ending(T, S), UNCHANGED <<opRun, accepted>>, NEW o \in Op
    PROVE  KeepsAccepted(o)
  BY DEF TypeOK, Ending, DropPrepared, KeepsAccepted

\* The requests of the API: a reconciled operation keeps its run, and stops it if accepted.
LEMMA ToldUser ==
    ASSUME TypeOK, User
    PROVE  (\A o \in Op : KeepsAccepted(o)) /\ (\A r \in Run : ToldBy(r))
<1> USE DEF TypeOK
<1>1. ASSUME NEW q \in Run, NEW b \in Branch, Submit(q, b)
      PROVE  (\A o \in Op : KeepsAccepted(o)) /\ (\A r \in Run : ToldBy(r))
  BY <1>1 DEF Submit, opVars, KeepsAccepted, ToldBy
<1>2. ASSUME NEW x \in Op, NEW answer \in AskStates, Respond(x, answer)
      PROVE  (\A o \in Op : KeepsAccepted(o)) /\ (\A r \in Run : ToldBy(r))
  BY <1>2 DEF Respond, opVars, KeepsAccepted, ToldBy
<1>3. ASSUME NEW u \in Run, Cancel(u)
      PROVE  (\A o \in Op : KeepsAccepted(o)) /\ (\A r \in Run : ToldBy(r))
  <2>1. PICK T, S : Ending(T, S) /\ UNCHANGED <<opRun, accepted>>
    BY <1>3 DEF Cancel
  <2> QED BY <1>3, <2>1, EndingKeeps DEF ToldBy
<1>4. ASSUME NEW x \in Op, NEW decision \in {"completed", "accept"}, Reconcile(x, decision)
      PROVE  (\A o \in Op : KeepsAccepted(o)) /\ (\A r \in Run : ToldBy(r))
  <2>1. /\ opState[x] = "unknown" /\ opRun[x] \in Run /\ opRun' = opRun
        /\ opState' = IF decision = "completed" THEN [opState EXCEPT ![x] = "succeeded"] ELSE opState
        /\ accepted' = IF decision = "accept" THEN [accepted EXCEPT ![x] = TRUE] ELSE accepted
    BY <1>4 DEF Reconcile
  <2>2. \A o \in Op : KeepsAccepted(o)
    BY <2>1 DEF KeepsAccepted
  <2>3. ASSUME NEW r \in Run, ~cancelReq[r], cancelReq'[r] PROVE r = opRun[x] /\ decision = "accept"
    BY <1>4, <2>3 DEF Reconcile
  <2>4. \A r \in Run : ToldBy(r)
    BY <2>1, <2>3 DEF ToldBy, OpsOf
  <2> QED BY <2>2, <2>4
<1> QED
  BY <1>1, <1>2, <1>3, <1>4 DEF User

\* Nothing a clock or a worker does tells a run to stop or forgets an operation.
Unheard == cancelReq' = cancelReq /\ accepted' = accepted
           /\ \A o \in Op : opState[o] # "none" => opState'[o] # "none" /\ opRun'[o] = opRun[o]

\* A step that hears nobody keeps whom a cancelled tree still has to tell.
LEMMA UnheardKeeps ==
    ASSUME TypeOK, Unheard
    PROVE  (\A o \in Op : KeepsAccepted(o)) /\ (\A r \in Run : ToldBy(r))
  BY DEF Unheard, KeepsAccepted, ToldBy

\* Maintenance is no word of the user.
LEMMA UnheardTick ==
    ASSUME TypeOK, Tick  PROVE Unheard
<1> USE DEF TypeOK, Unheard
<1>1. ASSUME NEW o \in Op, ExpireAsk(o)  PROVE Unheard
  BY <1>1 DEF ExpireAsk, opVars
<1>2. CASE RefreshWaits
  BY <1>2 DEF RefreshWaits, opVars
<1>3. CASE FinishIdle
  BY <1>3 DEF FinishIdle, Ending, DropPrepared
<1>4. ASSUME NEW q \in Run, LeaseExpire(q)  PROVE Unheard
  BY <1>4 DEF LeaseExpire, runVars, opVars
<1> QED
  BY <1>1, <1>2, <1>3, <1>4 DEF Tick

\* Nor is a step of a worker.
LEMMA UnheardWorker ==
    ASSUME TypeOK, NEW p \in Proc, Worker(p)  PROVE Unheard
<1> USE DEF TypeOK, Unheard
<1>1. CASE StartProc(p) \/ Crash(p)
  BY <1>1 DEF StartProc, Crash, runVars, opVars
<1>2. ASSUME NEW q \in Run, Claim(p, q)  PROVE Unheard
  BY <1>2 DEF Claim, opVars
<1>3. ASSUME NEW q \in Run, Settles(p, q)  PROVE Unheard
  <2>1. CASE SettleCancelling(p, q)
    BY <2>1 DEF SettleCancelling, Ending, DropPrepared
  <2>2. ASSUME NEW W \in SUBSET Pending(q), SettleWaiting(p, q, W)  PROVE Unheard
    BY <2>2 DEF SettleWaiting
  <2>3. ASSUME NEW final \in BOOLEAN, SettleEnd(p, q, final)  PROVE Unheard
    BY <2>3 DEF SettleEnd, Ending, DropPrepared
  <2>4. CASE SettleRejected(p, q)
    BY <2>4 DEF SettleRejected, runVars, opVars
  <2> QED
    BY <1>3, <2>1, <2>2, <2>3, <2>4 DEF Settles
<1>4. ASSUME NEW q \in Run, RecoverRead(p, q)  PROVE Unheard
  BY <1>4 DEF RecoverRead, runVars, opVars
<1>5. ASSUME NEW q \in Run, NEW o \in Op, Calls(p, q, o)  PROVE Unheard
  <2>1. CASE PrepareOp(p, q, o)
    BY <2>1 DEF PrepareOp, runVars
  <2>2. CASE RefuseOp(p, q, o) \/ ConcludeSpecial(p, q, o) \/ StartOp(p, q, o) \/ McpResume(p, q, o)
    BY <2>2 DEF RefuseOp, ConcludeSpecial, StartOp, McpResume, runVars
  <2>3. CASE \/ AskUser(p, q, o) \/ (\E K \in SUBSET Run : RegisterWait(p, q, o, K)) \/ McpPause(p, q, o)
             \/ \E c \in Run, b \in Branch : SpawnChild(p, q, o, c, b)
    BY <2>3 DEF AskUser, RegisterWait, McpPause, SpawnChild, runVars, opVars
  <2> QED
    BY <1>5, <2>1, <2>2, <2>3 DEF Calls
<1>6. ASSUME NEW o \in Op, Act(p, o)  PROVE Unheard
  BY <1>6 DEF Act, runVars, opVars
<1>7. ASSUME NEW o \in Op, NEW result \in OpStates, FinishOp(p, o, result)  PROVE Unheard
  <2>1. result # "none"
    BY <1>7 DEF FinishOp, Results
  <2> QED
    BY <1>7, <2>1 DEF FinishOp, runVars
<1>8. CASE RecoverCommit(p)
  <2> DEFINE run == {o \in OpsOf(probe[p].run) : opState[o] = "running"}
  <2>1. cancelReq' = cancelReq /\ accepted' = accepted /\ opRun' = opRun
    BY <1>8 DEF RecoverCommit
  <2>2. CASE opState' = opState
    BY <2>1, <2>2
  <2>3. CASE opState' # opState
    <3>1. PICK after \in [run -> OpStates] :
             /\ \A o \in run : after[o] \in Settled(o)
             /\ opState' = [o \in Op |-> IF o \in run THEN after[o] ELSE opState[o]]
      BY <1>8, <2>3 DEF RecoverCommit
    <3>2. \A o \in run : after[o] # "none"
      BY <3>1 DEF Settled
    <3> HIDE DEF run
    <3> QED BY <2>1, <3>1, <3>2
  <2> QED BY <2>2, <2>3
<1> QED
  BY <1>1, <1>2, <1>3, <1>4, <1>5, <1>6, <1>7, <1>8 DEF Worker

\* Every run that was cancelled, and whose own doubts nobody accepted, is covered.
TreeInv ==
    /\ RefineInv /\ FreshTree
    /\ \A o \in Op : accepted[o] => opState[o] # "none"
    /\ \A r \in Run : cancelReq[r] /\ (\A o \in OpsOf(r) : ~accepted[o]) => Covers(r)

\* One step of the scheduler, seen once as a step of its promise and once as one of its ledger.
LEMMA TreeStep == TreeInv /\ TypeOK' /\ RefineInv' /\ [Next]_vars => TreeInv'
<1> SUFFICES ASSUME TreeInv, TypeOK', RefineInv', [Next]_vars PROVE TreeInv'
  OBVIOUS
<1>0. RefineInv /\ FreshTree /\ TypeOK
  BY DEF TreeInv, RefineInv
<1>1. [Promise!Next]_(Promise!promiseVars)
  BY <1>0, StepsKeepPromise
<1>2. FreshTree'
  BY <1>0, <1>1, FreshStays
<1>3. /\ \A o \in Op : KeepsAccepted(o)
      /\ \A r \in Run : ToldBy(r)
  <2>1. CASE UNCHANGED vars
    BY <2>1 DEF KeepsAccepted, ToldBy, vars, runVars, opVars
  <2> QED
    BY <1>0, <2>1, ToldUser, UnheardTick, UnheardWorker, UnheardKeeps DEF Next
<1>4. \A o \in Op : accepted'[o] => opState'[o] # "none"
  BY <1>3 DEF TreeInv, KeepsAccepted
<1>5. ASSUME NEW r \in Run, cancelReq'[r], \A o \in OpsOf(r)' : ~accepted'[o]  PROVE Covers(r)'
  <2>1. CASE cancelReq[r]
    <3>1. \A o \in OpsOf(r) : ~accepted[o]
      BY <1>3, <1>5 DEF TreeInv, KeepsAccepted, OpsOf
    <3>2. Phase(r) # "none"
      BY <1>0, <2>1 DEF RefineInv, CancelInv, Stopping, Phase, Unfinished, Terminal
    <3> QED BY <1>0, <1>1, <2>1, <3>1, <3>2, CoverStays DEF TreeInv, TypeOK
  <2>2. CASE ~cancelReq[r]
    <3>1. PICK u \in Run : Cancel(u)
      BY <1>3, <1>5, <2>2 DEF ToldBy
    <3>2. PICK now \in SUBSET Run : Promise!Stops(u, now)
      BY <1>0, <3>1, CancelStops
    <3> QED BY <1>0, <1>5, <2>2, <3>2, StopsCover
  <2> QED BY <2>1, <2>2
<1> QED BY <1>2, <1>4, <1>5 DEF TreeInv

\* Scheduler.cancel, delegate: for every instance, a cancelled run's whole tree is told to stop or
\* has ended, whatever is delegated, recovered or answered meanwhile.
THEOREM CancelledTreesAreCovered == Spec => []CancelCoversTree
<1>1. Init => FreshTree /\ \A o \in Op : ~accepted[o] /\ \A r \in Run : ~cancelReq[r]
  BY DEF Init, FreshTree, Run, NoRun
<1>2. Init /\ RefineInv => TreeInv
  BY <1>1 DEF Init, TreeInv
<1>3. TreeInv /\ RefineInv' /\ [Next]_vars => TreeInv'
  BY TreeStep DEF RefineInv
<1>4. TreeInv => CancelCoversTree
  BY DEF TreeInv, CancelCoversTree, Covers, Descendants, Promise!Below, Promise!Ended, Phase,
     Unfinished, Terminal
<1> QED
  BY <1>2, <1>3, <1>4, RefineHolds, PTL DEF Spec

------------------------------------------------------------------------------
(* Barriers *)

\* What makes BarrierComplete inductive: it also covers the states recovery may lead back to
\* the queue from, a run not yet created asks for nothing, and an unused call belongs to nobody.
BarrierInv ==
    /\ \A r \in Run : status[r] \in {"none", "queued", "running", "recovering"} =>
           required[r] \subseteq Ready(r, ask, done)
    /\ \A o \in Op : opState[o] = "none" => opRun[o] = NoRun

\* Resolutions are never taken back: questions stay answered, waits stay done, and calls stay
\* with their run.
Keeps ==
    /\ \A o \in Op : ask[o] \in Answered => ask'[o] \in Answered
    /\ \A o \in Op : done[o] => done'[o]
    /\ \A o \in Op : opRun[o] # NoRun => opRun'[o] = opRun[o]
    /\ \A o \in Op : opState'[o] = "none" => opState[o] = "none" /\ opRun'[o] = opRun[o]

\* So what was ready for a run stays so, unless its reviews are replaced.
LEMMA ReadyGrows ==
    ASSUME Keeps, NEW r \in Run, review'[r] = review[r]
    PROVE  Ready(r, ask, done) \subseteq Ready(r, ask, done)'
  BY DEF Keeps, Ready, OpsOf, Run, NoRun

\* A step that replaces no review and no requirement keeps the invariant, if the runs it brings
\* to such a status come from one, or have what they asked for.
LEMMA BarrierKept ==
    ASSUME BarrierInv, Keeps, review' = review, required' = required,
           \A r \in Run : status'[r] \in {"none", "queued", "running", "recovering"} =>
               \/ status[r] \in {"none", "queued", "running", "recovering"}
               \/ required[r] \subseteq Ready(r, ask, done)'
    PROVE  BarrierInv'
<1>1. \A o \in Op : opState'[o] = "none" => opRun'[o] = NoRun
  BY DEF BarrierInv, Keeps
<1>2. ASSUME NEW r \in Run, status'[r] \in {"none", "queued", "running", "recovering"}
      PROVE  required'[r] \subseteq Ready(r, ask, done)'
  BY <1>2, ReadyGrows DEF BarrierInv
<1> QED
  BY <1>1, <1>2 DEF BarrierInv

\* The requests of the API: an answer wakes a run only when its barrier is met, and a review
\* that resumes one resolves everything it asked for.
LEMMA BarrierUser ==
    ASSUME TypeOK, BarrierInv, User  PROVE BarrierInv'
<1> USE DEF TypeOK
<1>1. ASSUME NEW q \in Run, NEW b \in Branch, Submit(q, b)  PROVE BarrierInv'
  BY <1>1, BarrierKept DEF Submit, Insert, NextRun, Created, Keeps, opVars, waitVars
<1>2. ASSUME NEW o \in Op, NEW answer \in AskStates, Respond(o, answer)  PROVE BarrierInv'
  <2>1. Keeps /\ review' = review /\ required' = required
    BY <1>2 DEF Respond, Keeps, opVars, Answered
  <2>2. \A r \in Run : status'[r] # status[r] => required[r] \subseteq Ready(r, ask, done)'
    BY <1>2 DEF Respond, Resumed, Wakes, BarrierMet, Ready, OpsOf, opVars
  <2> QED
    BY <2>1, <2>2, BarrierKept
<1>3. ASSUME NEW u \in Run, Cancel(u)  PROVE BarrierInv'
  BY <1>3, BarrierKept DEF Cancel, Ending, CloseAsks, DropPrepared, Keeps, Answered, Marked, Unfinished
<1>4. ASSUME NEW o \in Op, NEW decision \in {"completed", "accept"}, Reconcile(o, decision)
      PROVE BarrierInv'
  <2> DEFINE q == opRun[o]
  <2>1. Keeps /\ required' = required /\ q \in Run
    BY <1>4 DEF Reconcile, Keeps, waitVars
  <2>2. ASSUME NEW r \in Run, status'[r] \in {"none", "queued", "running", "recovering"}
        PROVE  required[r] \subseteq Ready(r, ask, done)'
    <3>1. CASE r = q
      <4>1. status[q] \in {"needs_review", "cancelling"}
        BY <1>4 DEF Reconcile
      <4>2. review' = [review EXCEPT ![q] = required[q]]
        BY <1>4, <2>2, <3>1, <4>1 DEF Reconcile
      <4> QED
        BY <2>1, <3>1, <4>2 DEF Ready
    <3>2. CASE r # q
      <4>1. status'[r] = status[r] /\ review'[r] = review[r]
        BY <1>4, <3>2 DEF Reconcile
      <4> QED
        BY <2>1, <2>2, <4>1, ReadyGrows DEF BarrierInv
    <3> QED
      BY <3>1, <3>2
  <2> QED
    BY <2>1, <2>2 DEF BarrierInv, Keeps
<1> QED
  BY <1>1, <1>2, <1>3, <1>4 DEF User

\* The periodic duties: a deadline or an ended child wakes a run only when its barrier is met.
LEMMA BarrierTick ==
    ASSUME TypeOK, BarrierInv, Tick  PROVE BarrierInv'
<1> USE DEF TypeOK
<1>1. ASSUME NEW o \in Op, ExpireAsk(o)  PROVE BarrierInv'
  <2>1. Keeps /\ review' = review /\ required' = required
    BY <1>1 DEF ExpireAsk, Keeps, opVars, Answered
  <2>2. \A r \in Run : status'[r] # status[r] => required[r] \subseteq Ready(r, ask, done)'
    BY <1>1 DEF ExpireAsk, Resumed, Wakes, BarrierMet, Ready, OpsOf, opVars
  <2> QED
    BY <2>1, <2>2, BarrierKept
<1>2. CASE RefreshWaits
  <2>1. Keeps /\ review' = review /\ required' = required
    BY <1>2 DEF RefreshWaits, Keeps, opVars, Answered
  <2>2. \A r \in Run : status'[r] # status[r] => required[r] \subseteq Ready(r, ask, done)'
    BY <1>2 DEF RefreshWaits, Resumed, Wakes, BarrierMet, Ready, OpsOf, opVars
  <2> QED
    BY <2>1, <2>2, BarrierKept
<1>3. CASE FinishIdle
  BY <1>3, BarrierKept DEF FinishIdle, Ending, CloseAsks, DropPrepared, Keeps, Answered
<1>4. ASSUME NEW q \in Run, LeaseExpire(q)  PROVE BarrierInv'
  BY <1>4, BarrierKept DEF LeaseExpire, Keeps, runVars, opVars, waitVars
<1> QED
  BY <1>1, <1>2, <1>3, <1>4 DEF Tick

\* Settlements: a pause goes straight back to the queue only when what it asks for is there.
LEMMA BarrierSettles ==
    ASSUME TypeOK, BarrierInv, NEW p \in Proc, NEW q \in Run, Settles(p, q)  PROVE BarrierInv'
<1> USE DEF TypeOK
<1>1. CASE SettleCancelling(p, q)
  <2>1. Keeps /\ review' = review /\ required' = required
    BY <1>1 DEF SettleCancelling, Ending, CloseAsks, DropPrepared, Keeps, Answered
  <2>2. \A r \in Run : status'[r] = status[r] \/ status'[r] = "cancelled"
    BY <1>1 DEF SettleCancelling
  <2> QED
    BY <2>1, <2>2, BarrierKept
<1>2. ASSUME NEW W \in SUBSET Pending(q), SettleWaiting(p, q, W)  PROVE BarrierInv'
  <2>1. /\ review' = review /\ opRun' = opRun /\ required' = [required EXCEPT ![q] = W]
        /\ opState' = [o \in Op |-> IF <<o, "review">> \in W THEN "unknown" ELSE opState[o]]
        /\ ask' = [o \in Op |-> IF <<o, "user">> \in W THEN "open" ELSE ask[o]]
        /\ done' = [o \in Op |-> done[o] \/ (/\ opRun[o] = q /\ bound'[o] /\ WaitMet(o, status))]
        /\ status' = [status EXCEPT ![q] =
               IF WaitStatus(W) # "needs_review" /\ BarrierMet(W, Ready(q, ask', done'))
               THEN "queued" ELSE WaitStatus(W)]
    BY <1>2 DEF SettleWaiting
  <2>2. \A o \in Op : <<o, "user">> \in W => ask[o] \notin Answered
    BY DEF Pending, Answered
  <2>3. Keeps
    BY <2>1, <2>2 DEF Keeps
  <2>4. ASSUME NEW r \in Run, status'[r] \in {"none", "queued", "running", "recovering"}
        PROVE  required'[r] \subseteq Ready(r, ask, done)'
    <3>1. CASE r = q
      <4>1. W \subseteq Ready(q, ask', done')
        BY <2>1, <2>4, <3>1, WaitStatusType DEF BarrierMet
      <4> QED
        BY <2>1, <3>1, <4>1 DEF Ready, OpsOf
    <3>2. CASE r # q
      <4>1. status'[r] = status[r] /\ required'[r] = required[r]
        BY <2>1, <3>2
      <4>2. required[r] \subseteq Ready(r, ask, done)
        BY <2>4, <4>1 DEF BarrierInv
      <4> QED
        BY <2>1, <2>3, <4>1, <4>2, ReadyGrows
    <3> QED
      BY <3>1, <3>2
  <2> QED
    BY <2>3, <2>4 DEF BarrierInv, Keeps
<1>3. ASSUME NEW final \in BOOLEAN, SettleEnd(p, q, final)  PROVE BarrierInv'
  <2>1. Keeps /\ review' = review /\ required' = required
    BY <1>3 DEF SettleEnd, Ending, CloseAsks, DropPrepared, Keeps, Answered
  <2>2. \A r \in Run : status'[r] = status[r] \/ status'[r] \in {"needs_review", "completed", "failed"}
    BY <1>3 DEF SettleEnd, FinalStatus
  <2> QED
    BY <2>1, <2>2, BarrierKept
<1>4. CASE SettleRejected(p, q)
  BY <1>4, BarrierKept DEF SettleRejected, Keeps, runVars, opVars, waitVars
<1> QED
  BY <1>1, <1>2, <1>3, <1>4 DEF Settles

\* Calls: entering one in the ledger gives it to its run for good, and none answers or unasks.
LEMMA BarrierCalls ==
    ASSUME TypeOK, BarrierInv, NEW p \in Proc, NEW q \in Run, NEW o \in Op, Calls(p, q, o)
    PROVE  BarrierInv'
<1> USE DEF TypeOK
<1>1. ASSUME NEW c \in Run, NEW b \in Branch, SpawnChild(p, q, o, c, b)  PROVE BarrierInv'
  <2>1. Keeps /\ review' = review /\ required' = required
    BY <1>1 DEF SpawnChild, Keeps, opVars, waitVars
  <2>2. \A r \in Run : status'[r] = status[r] \/ status[r] = "none"
    BY <1>1 DEF SpawnChild, Insert, NextRun, Created
  <2> QED
    BY <2>1, <2>2, BarrierKept
<1>2. CASE PrepareOp(p, q, o)
  <2>1. Keeps
    BY <1>2 DEF PrepareOp, BarrierInv, Keeps, waitVars
  <2> QED
    BY <1>2, <2>1, BarrierKept DEF PrepareOp, runVars
<1>3. CASE AskUser(p, q, o) \/ McpPause(p, q, o)
  <2>1. Keeps
    BY <1>3 DEF AskUser, McpPause, Keeps, opVars, Answered
  <2> QED
    BY <1>3, <2>1, BarrierKept DEF AskUser, McpPause, runVars
<1>4. CASE (\E K \in SUBSET Run : RegisterWait(p, q, o, K)) \/ StartOp(p, q, o) \/ McpResume(p, q, o)
  <2>1. Keeps
    BY <1>4 DEF RegisterWait, StartOp, McpResume, Keeps, opVars, waitVars
  <2> QED
    BY <1>4, <2>1, BarrierKept DEF RegisterWait, StartOp, McpResume, runVars
<1>5. CASE RefuseOp(p, q, o) \/ ConcludeSpecial(p, q, o)
  <2>1. Keeps
    BY <1>5 DEF RefuseOp, ConcludeSpecial, Keeps, waitVars
  <2> QED
    BY <1>5, <2>1, BarrierKept DEF RefuseOp, ConcludeSpecial, runVars
<1> QED
  BY <1>1, <1>2, <1>3, <1>4, <1>5 DEF Calls

\* Workers: a claim takes what was queued, and recovery queues what was running.
LEMMA BarrierWorker ==
    ASSUME TypeOK, BarrierInv, NEW p \in Proc, Worker(p)  PROVE BarrierInv'
<1> USE DEF TypeOK
<1>1. ASSUME NEW q \in Run, Claim(p, q)  PROVE BarrierInv'
  <2>1. Keeps /\ review' = review /\ required' = required
    BY <1>1 DEF Claim, Keeps, opVars, waitVars
  <2>2. \A r \in Run : status'[r] = status[r] \/ status[r] = "queued"
    BY <1>1 DEF Claim, Claimable
  <2> QED
    BY <2>1, <2>2, BarrierKept
<1>2. ASSUME NEW q \in Run, Settles(p, q)  PROVE BarrierInv'
  BY <1>2, BarrierSettles
<1>3. ASSUME NEW q \in Run, NEW o \in Op, Calls(p, q, o)  PROVE BarrierInv'
  BY <1>3, BarrierCalls
<1>4. ASSUME NEW o \in Op, NEW result \in OpStates, FinishOp(p, o, result)  PROVE BarrierInv'
  <2>1. result # "none"
    BY <1>4 DEF FinishOp, Results
  <2>2. Keeps
    BY <1>4, <2>1 DEF FinishOp, Keeps, waitVars
  <2> QED
    BY <1>4, <2>2, BarrierKept DEF FinishOp, runVars
<1>5. CASE RecoverCommit(p)
  <2> DEFINE q == probe[p].run
             st == IF status[q] = "running" THEN "recovering" ELSE status[q]
             live == {"none", "queued", "running", "recovering"}
  <2>1. \A o \in Op : opState'[o] = opState[o] \/ opState'[o] # "none"
    <3> DEFINE running == {o \in OpsOf(q) : opState[o] = "running"}
    <3>1. \A o \in Op : "none" \notin Settled(o)
      BY DEF Settled
    <3>2. \/ opState' = opState
          \/ \E after \in [running -> OpStates] :
               /\ \A o \in running : after[o] \in Settled(o)
               /\ opState' = [o \in Op |-> IF o \in running THEN after[o] ELSE opState[o]]
      BY <1>5 DEF RecoverCommit
    <3>3. running \subseteq Op
      BY DEF OpsOf
    <3> HIDE DEF running, q
    <3> QED
      BY <3>1, <3>2, <3>3
  <2>2. Keeps /\ review' = review /\ required' = required
    BY <1>5, <2>1 DEF RecoverCommit, Keeps, waitVars
  <2>3. \/ status' = status
        \/ status' = [status EXCEPT ![q] = st]
        \/ \E doubt \in BOOLEAN : status' = [status EXCEPT ![q] = AfterLoss(st, doubt)]
    BY <1>5 DEF RecoverCommit
  <2>4. /\ st \in live => status[q] \in live
        /\ \A doubt \in BOOLEAN : AfterLoss(st, doubt) \in live => status[q] \in live
    BY DEF AfterLoss
  <2>5. \A r \in Run : status'[r] \in live => status[r] \in live
    <3> HIDE DEF st, live
    <3> QED
      BY <2>3, <2>4
  <2> QED
    BY <2>2, <2>5, BarrierKept
<1>6. CASE \/ StartProc(p) \/ Crash(p) \/ \E q \in Run : RecoverRead(p, q)
           \/ \E o \in Op : Act(p, o)
  <2>1. Keeps /\ UNCHANGED runVars
    BY <1>6 DEF StartProc, Crash, RecoverRead, Act, Keeps, opVars, waitVars
  <2> QED
    BY <2>1, BarrierKept DEF runVars
<1> QED
  BY <1>1, <1>2, <1>3, <1>4, <1>5, <1>6 DEF Worker

\* A run is never queued, claimed or recovered with fewer resolutions than its pause asked for:
\* answers, deadlines, ended children and reviews may come in any order, and none is lost.
THEOREM BarrierBeforeWake == Spec => []BarrierComplete
<1>1. Init => BarrierInv
  BY DEF Init, BarrierInv
<1>2. TypeOK /\ BarrierInv /\ [Next]_vars => BarrierInv'
  <2>1. ASSUME BarrierInv, UNCHANGED vars  PROVE BarrierInv'
    BY <2>1 DEF BarrierInv, Ready, OpsOf, vars, runVars, opVars, waitVars
  <2> QED
    BY <2>1, BarrierUser, BarrierTick, BarrierWorker DEF Next
<1>3. BarrierInv => BarrierComplete
  BY DEF BarrierInv, BarrierComplete
<1> QED
  BY <1>1, <1>2, <1>3, TypeCorrect, PTL DEF Spec
===============================================================================
