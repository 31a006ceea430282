------------------------ MODULE CheckpointResumeProofs ------------------------
(***************************************************************************)
(* Proofs about CheckpointResume, for any number of steps, any choice of    *)
(* the steps that ask, and any number of worker deaths.                     *)
(***************************************************************************)
EXTENDS CheckpointResume, SequenceTheorems, TLAPS

(***************************************************************************)
(* Type correctness                                                        *)
(***************************************************************************)

\* Appending a checkpoint keeps the saver's type and every saved checkpoint.
LEMMA SaveType ==
    ASSUME TypeOK, NEW c \in Checkpoint, Save(c)
    PROVE  /\ saver' \in Seq(Checkpoint)
           /\ Len(saver') = Len(saver) + 1
           /\ Len(saver') <= MaxCheckpoints
           /\ at' = Len(saver')
           /\ \A i \in 1 .. Len(saver) : saver'[i] = saver[i]
           /\ saver'[at'] = c
BY StepsAssumption DEF TypeOK, Save, Latest

\* While the run is running, the checkpoint its task is at is one the saver holds.
LEMMA HereType ==
    ASSUME TypeOK, status = "running"
    PROVE  /\ at \in 1 .. Len(saver)
           /\ Here \in Checkpoint
BY DEF TypeOK, Here

\* A model call saves a checkpoint of the right type.
LEMMA CallSaves ==
    ASSUME TypeOK, CallModel
    PROVE  \E c \in Checkpoint : Save(c)
<1>1. Here \in Checkpoint
  BY HereType DEF CallModel
<1>2. Latest + 1 \in 0 .. MaxCheckpoints
  <2>1. Latest < MaxCheckpoints
    BY Zenon DEF CallModel, Save
  <2> QED BY <2>1, StepsAssumption DEF Latest, TypeOK
<1>3. CASE Here.step < Steps
  <2>1. Saved(Here.step + 1, Latest + 1, "tools", FALSE) \in Checkpoint
    BY <1>1, <1>2, <1>3, StepsAssumption DEF Saved, Checkpoint
  <2> QED BY <1>3, <2>1 DEF CallModel
<1>4. CASE ~(Here.step < Steps)
  <2>1. Saved(Steps, Latest + 1, "end", FALSE) \in Checkpoint
    BY <1>2, StepsAssumption DEF Saved, Checkpoint
  <2> QED BY <1>4, <2>1 DEF CallModel
<1> QED BY <1>3, <1>4

\* So does the return of a tool's result.
LEMMA ResultSaves ==
    ASSUME TypeOK, SaveResult
    PROVE  \E c \in Checkpoint : Save(c)
<1>1. Here \in Checkpoint
  BY HereType DEF SaveResult
<1>2. Saved(Here.step, Here.msg, "model", FALSE) \in Checkpoint
  BY <1>1 DEF Saved, Checkpoint
<1> QED BY <1>2 DEF SaveResult

\* The initial state is of the right type.
LEMMA TypeInit == Init => TypeOK
<1> SUFFICES ASSUME Init PROVE TypeOK
  OBVIOUS
<1>1. saver \in Seq(Checkpoint) /\ Len(saver) = 0
  BY DEF Init
<1> QED BY <1>1, StepsAssumption DEF Init, TypeOK

\* Every step of the run keeps the type of every variable.
LEMMA TypeNext == TypeOK /\ [Next]_vars => TypeOK'
<1> SUFFICES ASSUME TypeOK, [Next]_vars PROVE TypeOK'
  OBVIOUS
<1>1. CASE Start
  <2>1. Input \in Checkpoint
    BY StepsAssumption DEF Input, Saved, Checkpoint
  <2>2. Save(Input)
    BY <1>1 DEF Start
  <2> QED BY <1>1, <2>1, <2>2, SaveType DEF Start, TypeOK
<1>2. CASE Resume
  BY <1>2 DEF Resume, Base, Latest, TypeOK
<1>3. CASE ResumeRefused
  BY <1>3 DEF ResumeRefused, Latest, TypeOK
<1>4. CASE CallModel
  <2>1. PICK c \in Checkpoint : Save(c)
    BY <1>4, CallSaves DEF CallModel
  <2> QED BY <1>4, <2>1, SaveType DEF CallModel, TypeOK
<1>5. CASE PauseForUser
  <2>1. at \in 1 .. Len(saver) /\ Here \in Checkpoint
    BY <1>5, HereType DEF PauseForUser
  <2>2. Saved(Here.step, Here.msg, "tools", TRUE) \in Checkpoint
    BY <2>1 DEF Saved, Checkpoint
  <2>3. saver' \in Seq(Checkpoint) /\ Len(saver') = Len(saver)
    <3> DEFINE c == Saved(Here.step, Here.msg, "tools", TRUE)
    <3>1. saver' = [saver EXCEPT ![at] = c]
      BY <1>5 DEF PauseForUser
    <3>2. saver \in Seq(Checkpoint)
      BY DEF TypeOK
    <3> HIDE DEF c
    <3>3. c \in Checkpoint
      BY <2>2 DEF c
    <3> QED BY <2>1, <3>1, <3>2, <3>3, ExceptSeq, ZenonT(60)
  <2> QED BY <1>5, <2>3 DEF PauseForUser, TypeOK
<1>6. CASE ExecuteTool
  <2>1. \A m \in Message : effects'[m] \in Nat
    BY <1>6 DEF ExecuteTool, TypeOK
  <2>2. effects' \in [Message -> Nat]
    BY <1>6, <2>1 DEF ExecuteTool, TypeOK
  <2> QED BY <1>6, <2>2 DEF ExecuteTool, TypeOK
<1>7. CASE SaveResult
  <2>1. PICK c \in Checkpoint : Save(c)
    BY <1>7, ResultSaves DEF SaveResult
  <2> QED BY <1>7, <2>1, SaveType DEF SaveResult, TypeOK
<1>8. CASE SettleWaiting
  <2>1. at \in 1 .. Len(saver)
    BY <1>8, HereType DEF SettleWaiting
  <2> QED BY <1>8, <2>1 DEF SettleWaiting, NewPointer, Latest, TypeOK
<1>9. CASE Answer
  <2>1. \A i \in required : saver[i].msg \in 0 .. MaxCheckpoints
    <3>1. \A i \in 1 .. Len(saver) : saver[i] \in Checkpoint
      BY DEF TypeOK
    <3>2. \A c \in Checkpoint : c.msg \in 0 .. MaxCheckpoints
      BY DEF Checkpoint
    <3> QED BY <3>1, <3>2 DEF TypeOK
  <2> QED BY <1>9, <2>1 DEF Answer, TypeOK
<1>10. CASE SettleFinal
  BY <1>10 DEF SettleFinal, NewPointer, Latest, TypeOK
<1>11. CASE SettleError
  BY <1>11 DEF SettleError, NewPointer, Latest, TypeOK
<1>12. CASE Crash
  BY <1>12, StepsAssumption DEF Crash, TypeOK
<1>13. CASE UNCHANGED vars
  BY <1>13 DEF vars, TypeOK
<1> QED BY <1>1, <1>2, <1>3, <1>4, <1>5, <1>6, <1>7, <1>8, <1>9, <1>10, <1>11,
           <1>12, <1>13 DEF Next, Work

\* Every variable keeps its type in every reachable state, and a task is live
\* exactly while its run is running.
THEOREM ResumeTypeCorrect == Spec => []TypeOK
<1>1. Init => TypeOK
  BY TypeInit
<1>2. TypeOK /\ [Next]_vars => TypeOK'
  BY TypeNext
<1> QED BY <1>1, <1>2, PTL DEF Spec

(***************************************************************************)
(* A saved tool request is carried out at most once                        *)
(***************************************************************************)

\* The ledger has a result for exactly the messages that were carried out.
LedgerCounts ==
    \A m \in Message : effects[m] = IF opState[m] = "succeeded" THEN 1 ELSE 0

\* Every step keeps the ledger and the effects in agreement.
LEMMA LedgerNext == TypeOK /\ LedgerCounts /\ [Next]_vars => LedgerCounts'
<1> SUFFICES ASSUME TypeOK, LedgerCounts, [Next]_vars PROVE LedgerCounts'
  OBVIOUS
<1>1. CASE PauseForUser
  BY <1>1 DEF PauseForUser, Recorded, LedgerCounts, TypeOK
<1>2. CASE ExecuteTool
  BY <1>2 DEF ExecuteTool, Recorded, LedgerCounts, TypeOK
<1>3. CASE UNCHANGED <<opState, effects>>
  BY <1>3 DEF LedgerCounts
<1>4. \/ PauseForUser \/ ExecuteTool \/ UNCHANGED <<opState, effects>>
  BY DEF Next, Work, Start, Resume, ResumeRefused, CallModel, SaveResult,
         SettleWaiting, Answer, SettleFinal, SettleError, Crash, vars
<1> QED BY <1>1, <1>2, <1>3, <1>4

\* Through every replay of a checkpoint's tool node, a saved tool request is
\* carried out at most once, because the ledger answers the later ones.
THEOREM ReplayIsAnswered == Spec => []EffectOncePerMessage
<1> DEFINE Inv == TypeOK /\ LedgerCounts
<1>1. Init => Inv
  BY TypeInit DEF Init, LedgerCounts
<1>2. Inv /\ [Next]_vars => Inv'
  BY TypeNext, LedgerNext
<1>3. Inv => EffectOncePerMessage
  BY DEF LedgerCounts, EffectOncePerMessage
<1> QED BY <1>1, <1>2, <1>3, PTL DEF Spec

(***************************************************************************)
(* A settled pause can always be resumed                                   *)
(***************************************************************************)

\* The pointer of a run that has paused and not ended is the checkpoint the
\* barrier names, and it is answered unless the run still waits.
PauseKept ==
    pointer # 0 /\ status \in {"waiting", "queued", "running"} =>
        /\ saver[pointer].paused
        /\ required = {pointer}
        /\ status # "waiting" => saver[pointer].msg \in answered

\* A run waits only at a recorded pause.
WaitsAtPointer == status = "waiting" => pointer # 0

\* A task works at the end of the thread, or at a pause that was answered.
AtTheEnd ==
    status = "running" => at = Len(saver) \/ Here.msg \in answered

\* The inductive invariant of the pause.
PauseInv == TypeOK /\ PauseKept /\ WaitsAtPointer /\ AtTheEnd

\* Saving a checkpoint moves the task to the thread's end and leaves the pause.
LEMMA SaveKeepsPause ==
    ASSUME PauseInv, NEW c \in Checkpoint, Save(c),
           status' = "running", status \in {"queued", "running"},
           UNCHANGED <<pointer, required, answered>>
    PROVE  PauseKept' /\ WaitsAtPointer' /\ AtTheEnd'
<1>1. /\ at' = Len(saver')
      /\ \A i \in 1 .. Len(saver) : saver'[i] = saver[i]
  BY SaveType DEF PauseInv
<1>2. PauseKept'
  BY <1>1 DEF PauseInv, PauseKept, TypeOK
<1> QED BY <1>1, <1>2 DEF WaitsAtPointer, AtTheEnd

\* Every step keeps the pause resumable.
LEMMA PauseNext == PauseInv /\ [Next]_vars => PauseInv'
<1> SUFFICES ASSUME PauseInv, [Next]_vars PROVE PauseInv'
  OBVIOUS
<1>0. TypeOK'
  BY TypeNext DEF PauseInv
<1>1. CASE Start
  <2>1. Input \in Checkpoint
    BY StepsAssumption DEF Input, Saved, Checkpoint
  <2> QED BY <1>0, <1>1, <2>1, SaveKeepsPause DEF Start, PauseInv
<1>2. CASE Resume
  <2>1. Base = Len(saver) \/ (Base = pointer /\ pointer # 0)
    BY DEF Base, Latest
  <2> QED BY <1>0, <1>2, <2>1
          DEF Resume, PauseInv, PauseKept, WaitsAtPointer, AtTheEnd, Here, TypeOK
<1>4. CASE CallModel \/ SaveResult
  <2>1. PICK c \in Checkpoint : Save(c)
    BY <1>4, CallSaves, ResultSaves DEF PauseInv
  <2>2. status = "running" /\ status' = "running" /\ UNCHANGED <<pointer, required, answered>>
    BY <1>4 DEF CallModel, SaveResult
  <2> QED BY <1>0, <2>1, <2>2, SaveKeepsPause DEF PauseInv
<1>5. CASE PauseForUser
  <2>1. at \in 1 .. Len(saver) /\ Here \in Checkpoint
    BY <1>5, HereType DEF PauseForUser, PauseInv
  <2>2. /\ Len(saver') = Len(saver)
        /\ \A i \in 1 .. Len(saver) :
             /\ saver'[i].msg = saver[i].msg
             /\ saver[i].paused => saver'[i].paused
    BY <1>5, <2>1 DEF PauseForUser, PauseInv, TypeOK, Here, Saved
  <2> UNCHANGED <<status, pointer, required, at, answered>> /\ status = "running"
    BY <1>5 DEF PauseForUser
  <2>3. PauseKept' /\ WaitsAtPointer'
    BY <2>2 DEF PauseInv, PauseKept, WaitsAtPointer, TypeOK
  <2>4. AtTheEnd'
    BY <2>1, <2>2 DEF PauseInv, AtTheEnd, Here
  <2> QED BY <1>0, <2>3, <2>4 DEF PauseInv
<1>6. CASE ExecuteTool
  BY <1>0, <1>6 DEF ExecuteTool, PauseInv, PauseKept, WaitsAtPointer, AtTheEnd, Here
<1>8. CASE SettleWaiting
  <2>1. at = Len(saver) /\ at \in 1 .. Len(saver)
    BY <1>8, HereType DEF SettleWaiting, PauseInv, AtTheEnd, Cleared
  <2> QED BY <1>0, <1>8, <2>1
          DEF SettleWaiting, NewPointer, Latest, Here, PauseInv, PauseKept,
              WaitsAtPointer, AtTheEnd
<1>9. CASE Answer
  BY <1>0, <1>9 DEF Answer, PauseInv, PauseKept, WaitsAtPointer, AtTheEnd
<1>10. CASE ResumeRefused \/ SettleFinal \/ SettleError
  BY <1>0, <1>10
  DEF ResumeRefused, SettleFinal, SettleError, PauseInv, PauseKept,
      WaitsAtPointer, AtTheEnd
<1>12. CASE Crash
  BY <1>0, <1>12 DEF Crash, PauseInv, PauseKept, WaitsAtPointer, AtTheEnd
<1>13. CASE UNCHANGED vars
  BY <1>0, <1>13 DEF vars, PauseInv, PauseKept, WaitsAtPointer, AtTheEnd, Here
<1> QED BY <1>1, <1>2, <1>4, <1>5, <1>6, <1>8, <1>9, <1>10, <1>12, <1>13
        DEF Next, Work

\* From the first pause a run settles until it ends, its pointer, its barrier
\* and the user's answer stay the ones a resume compares, through every death.
THEOREM PauseStaysResumable == Spec => []PauseResumable
<1>1. Init => PauseInv
  BY TypeInit DEF Init, PauseInv, PauseKept, WaitsAtPointer, AtTheEnd
<1>2. PauseInv /\ [Next]_vars => PauseInv'
  BY PauseNext
<1>3. PauseInv => PauseResumable
  BY DEF PauseInv, PauseKept, PauseResumable
<1> QED BY <1>1, <1>2, <1>3, PTL DEF Spec

\* A run fails on the barrier of its checkpoint only if it dies before it has
\* settled a first pause.
THEOREM RefusedOnlyBeforePause == Spec => [][ResumeRefused => pointer = 0]_vars
<1>1. Init => PauseInv
  BY TypeInit DEF Init, PauseInv, PauseKept, WaitsAtPointer, AtTheEnd
<1>2. PauseInv /\ [Next]_vars => PauseInv'
  BY PauseNext
<1>3. PauseInv /\ [Next]_vars => [ResumeRefused => pointer = 0]_vars
  BY DEF PauseInv, PauseKept, ResumeRefused, BarrierResolved, Base
<1> QED BY <1>1, <1>2, <1>3, PTL DEF Spec

(***************************************************************************)
(* No step repeated before the first pause, none skipped at all            *)
(***************************************************************************)

\* The call of this step was carried out, under some message.
Carried(k) == \E m \in Done : saver[m].step = k

\* A tool request is known by the checkpoint that saved it, and only such requests are carried
\* out; the final answer is saved after the last step.
MintedHere ==
    /\ \A i \in 1 .. Len(saver) :
          /\ saver[i].next = "tools" => saver[i].msg = i /\ saver[i].step # 0
          /\ saver[i].next = "end" => saver[i].step = Steps
    /\ \A m \in Done : m \in 1 .. Len(saver) /\ saver[m].next = "tools"

\* No checkpoint is ahead of the work: what its history tells of was carried out.
WorkBehind ==
    /\ \A i \in 1 .. Len(saver), k \in 1 .. Steps :
          \/ k < saver[i].step
          \/ k = saver[i].step /\ saver[i].next # "tools"
          => Carried(k)
    /\ status = "completed" => \A k \in 1 .. Steps : Carried(k)

\* Until a first settlement the thread has one line: the task is at its end, and every tool
\* request is of a step of its own.
OneLine ==
    pointer = 0 =>
        /\ status = "running" => at = Len(saver)
        /\ \A i, j \in 1 .. Len(saver) :
              i < j => /\ saver[i].step <= saver[j].step
                       /\ saver[j].next = "tools" => saver[i].step < saver[j].step

\* The inductive invariant of the steps.
StepsInv == TypeOK /\ LedgerCounts /\ MintedHere /\ WorkBehind /\ OneLine

\* The strengthening gives the two promises.
LEMMA StepsPromise == StepsInv => StepsExact
<1> SUFFICES ASSUME StepsInv PROVE StepsExact
  OBVIOUS
<1>1. ASSUME pointer = 0, NEW m \in Done, NEW n \in Done, saver[m].step = saver[n].step, m < n
      PROVE  FALSE
  <2>1. saver[m].step < saver[n].step
    BY <1>1 DEF StepsInv, OneLine, MintedHere
  <2>2. saver[m] \in Checkpoint /\ saver[n] \in Checkpoint
    BY DEF StepsInv, MintedHere, TypeOK
  <2> QED BY <1>1, <2>1, <2>2, StepsAssumption DEF Checkpoint
<1>2. pointer = 0 => OncePerStep
  <2>1. \A m \in Message : effects[m] <= 1
    BY DEF StepsInv, LedgerCounts
  <2>2. \A m, n \in Done : m \in Nat /\ n \in Nat
    BY DEF Done, Message
  <2> QED BY <1>1, <2>1, <2>2 DEF OncePerStep, EffectOncePerMessage
<1> QED BY <1>2 DEF StepsInv, WorkBehind, Carried, StepsExact

\* A replay loses nothing of what was carried out.
LEMMA CarriedStays ==
    ASSUME Done \subseteq Done', \A m \in Done : saver'[m].step = saver[m].step, NEW k, Carried(k)
    PROVE  Carried(k)'
  BY DEF Carried

\* A checkpoint joins the thread behind the one the task is at, with no more than was done.
LEMMA SaveKeepsSteps ==
    ASSUME StepsInv, NEW c \in Checkpoint, Save(c), TypeOK',
           status' = "running", UNCHANGED <<pointer, opState, effects>>,
           c.next = "tools" => c.msg = Len(saver) + 1 /\ c.step # 0,
           c.next = "end" => c.step = Steps,
           \A k \in 1 .. Steps : k < c.step \/ (k = c.step /\ c.next # "tools") => Carried(k),
           pointer = 0 => \A i \in 1 .. Len(saver) :
                             /\ saver[i].step <= c.step
                             /\ c.next = "tools" => saver[i].step < c.step
    PROVE  StepsInv'
<1>1. /\ Len(saver') = Len(saver) + 1 /\ at' = Len(saver') /\ saver'[Len(saver')] = c
      /\ \A i \in 1 .. Len(saver) : saver'[i] = saver[i]
      /\ Len(saver) \in Nat
  BY SaveType DEF StepsInv, TypeOK
<1>2. Done' = Done /\ LedgerCounts'
  BY DEF Done, StepsInv, LedgerCounts
<1>3. \A i \in 1 .. Len(saver') : i \in 1 .. Len(saver) \/ (i = Len(saver) + 1 /\ saver'[i] = c)
  BY <1>1
<1>4. MintedHere'
  BY <1>1, <1>2, <1>3 DEF StepsInv, MintedHere
<1>5. \A k : Carried(k) => Carried(k)'
  BY <1>1, <1>2, CarriedStays DEF StepsInv, MintedHere
<1>6. WorkBehind'
  BY <1>1, <1>3, <1>5 DEF StepsInv, WorkBehind
<1>7. OneLine'
  <2>1. ASSUME pointer = 0, NEW i \in 1 .. Len(saver'), NEW j \in 1 .. Len(saver'), i < j
        PROVE  /\ saver'[i].step <= saver'[j].step
               /\ saver'[j].next = "tools" => saver'[i].step < saver'[j].step
    <3>1. i \in 1 .. Len(saver)
      BY <1>1, <2>1
    <3> QED BY <1>1, <1>3, <2>1, <3>1 DEF StepsInv, OneLine
  <2> QED BY <1>1, <2>1 DEF OneLine
<1> QED BY <1>2, <1>4, <1>6, <1>7 DEF StepsInv

\* A step that saves no checkpoint and carries out no call, and leaves the task at the end of an
\* unsettled thread.
LEMMA RestKeepsSteps ==
    ASSUME StepsInv, TypeOK', UNCHANGED <<saver, opState, effects>>,
           status' = "completed" => status = "completed" \/ (status = "running" /\ Here.next = "end"),
           pointer' = 0 => pointer = 0 /\ (status' = "running" => at' = Len(saver))
    PROVE  StepsInv'
<1>1. Done' = Done /\ LedgerCounts' /\ MintedHere'
  BY DEF Done, StepsInv, LedgerCounts, MintedHere
<1>2. \A k : Carried(k)' <=> Carried(k)
  BY <1>1 DEF Carried
<1>3. WorkBehind'
  <2>1. ASSUME status = "running", Here.next = "end", NEW k \in 1 .. Steps
        PROVE  Carried(k)
    <3>1. at \in 1 .. Len(saver) /\ Here = saver[at]
      BY <2>1, HereType DEF StepsInv, Here
    <3>2. Here.step = Steps
      BY <2>1, <3>1 DEF StepsInv, MintedHere
    <3>3. k < Here.step \/ k = Here.step
      BY <3>2, StepsAssumption
    <3> QED BY <2>1, <3>1, <3>3 DEF StepsInv, WorkBehind
  <2> QED BY <1>2, <2>1 DEF StepsInv, WorkBehind
<1>4. OneLine'
  BY DEF StepsInv, OneLine
<1> QED BY <1>1, <1>3, <1>4 DEF StepsInv

\* Every step of the run, and every death of its worker.
LEMMA StepsNext == StepsInv /\ [Next]_vars => StepsInv'
<1> SUFFICES ASSUME StepsInv, [Next]_vars PROVE StepsInv'
  OBVIOUS
<1>0. TypeOK' /\ TypeOK /\ Len(saver) \in Nat
  BY TypeNext DEF StepsInv, TypeOK
<1>h. ASSUME status = "running"
      PROVE  at \in 1 .. Len(saver) /\ Here \in Checkpoint /\ Here = saver[at]
  BY <1>0, <1>h, HereType DEF Here
<1>p. pointer = 0 /\ status = "running" => \A i \in 1 .. Len(saver) : saver[i].step <= Here.step
  <2> SUFFICES ASSUME pointer = 0, status = "running", NEW i \in 1 .. Len(saver)
               PROVE  saver[i].step <= Here.step
    OBVIOUS
  <2>1. at = Len(saver) /\ saver[i] \in Checkpoint
    BY <1>0 DEF StepsInv, OneLine, TypeOK
  <2>2. CASE i = at
    BY <1>h, <2>1, <2>2 DEF Checkpoint
  <2>3. CASE i < at
    BY <1>h, <2>1, <2>3 DEF StepsInv, OneLine
  <2> QED BY <1>0, <2>1, <2>2, <2>3
<1>1. CASE Start
  <2>1. /\ Input \in Checkpoint /\ Input.step = 0 /\ Input.next = "model"
    BY StepsAssumption DEF Input, Saved, Checkpoint
  <2>2. Save(Input) /\ Len(saver) = 0 /\ status' = "running" /\ UNCHANGED <<pointer, opState, effects>>
    BY <1>0, <1>1 DEF Start, Base, Latest
  <2> QED BY <1>0, <2>1, <2>2, SaveKeepsSteps
<1>2. CASE Resume
  BY <1>0, <1>2, RestKeepsSteps DEF Resume, Base, Latest
<1>3. CASE ResumeRefused
  BY <1>0, <1>3, RestKeepsSteps DEF ResumeRefused, Base, Latest, TypeOK
<1>4. CASE CallModel
  <2>1. /\ status = "running" /\ Here.next = "model" /\ status' = "running"
        /\ UNCHANGED <<pointer, opState, effects>>
    BY <1>4 DEF CallModel
  <2>2. \A k \in 1 .. Steps : k <= Here.step => Carried(k)
    <3> SUFFICES ASSUME NEW k \in 1 .. Steps, k <= Here.step PROVE Carried(k)
      OBVIOUS
    <3>1. k < Here.step \/ k = Here.step
      BY <1>h, <2>1, StepsAssumption DEF Checkpoint
    <3> QED BY <1>h, <2>1, <3>1 DEF StepsInv, WorkBehind
  <2>3. Latest + 1 \in 0 .. MaxCheckpoints
    <3>1. Latest < MaxCheckpoints
      BY <1>4, Zenon DEF CallModel, Save
    <3> QED BY <1>0, <3>1, StepsAssumption DEF Latest
  <2>4. CASE Here.step < Steps
    <3> DEFINE c == Saved(Here.step + 1, Latest + 1, "tools", FALSE)
    <3>1. Save(c)
      BY <1>4, <2>4 DEF CallModel
    <3>2. c \in Checkpoint /\ c.step = Here.step + 1 /\ c.msg = Len(saver) + 1 /\ c.next = "tools"
      BY <1>h, <2>1, <2>3, <2>4, StepsAssumption DEF Saved, Checkpoint, Latest
    <3> HIDE DEF c
    <3>3. Here.step \in Nat /\ \A i \in 1 .. Len(saver) : saver[i].step \in Nat
      <4>1. \A i \in 1 .. Len(saver) : saver[i] \in Checkpoint
        BY <1>0 DEF TypeOK
      <4>2. \A k \in Checkpoint : k.step \in Nat
        BY StepsAssumption DEF Checkpoint
      <4> QED BY <1>h, <2>1, <4>1, <4>2
    <3>4. pointer = 0 => \A i \in 1 .. Len(saver) : saver[i].step <= c.step /\ saver[i].step < c.step
      BY <1>p, <2>1, <3>2, <3>3
    <3>5. \A k \in 1 .. Steps : k < c.step => Carried(k)
      BY <2>2, <3>2, <3>3
    <3> QED BY <1>0, <2>1, <3>1, <3>2, <3>3, <3>4, <3>5, SaveKeepsSteps
  <2>5. CASE ~(Here.step < Steps)
    <3> DEFINE c == Saved(Steps, Latest + 1, "end", FALSE)
    <3>1. Save(c)
      BY <1>4, <2>5 DEF CallModel
    <3>2. c \in Checkpoint /\ c.step = Steps /\ c.next = "end"
      BY <2>3, StepsAssumption DEF Saved, Checkpoint
    <3> HIDE DEF c
    <3>3. Here.step = Steps
      BY <1>h, <2>1, <2>5, StepsAssumption DEF Checkpoint
    <3>4. \A k \in 1 .. Steps : Carried(k)
      BY <2>2, <3>3, StepsAssumption
    <3>5. pointer = 0 => \A i \in 1 .. Len(saver) : saver[i].step <= c.step
      BY <1>p, <2>1, <3>2, <3>3
    <3> QED BY <1>0, <2>1, <3>1, <3>2, <3>4, <3>5, SaveKeepsSteps
  <2> QED BY <2>4, <2>5
<1>5. CASE PauseForUser
  <2> DEFINE c == Saved(Here.step, Here.msg, "tools", TRUE)
  <2>1. /\ status = "running" /\ Here.next = "tools"
        /\ UNCHANGED <<status, pointer, required, at, answered, effects, crashes>>
        /\ saver' = [saver EXCEPT ![at] = c]
        /\ opState' = [opState EXCEPT ![Here.msg] = "prepared"] /\ opState[Here.msg] # "succeeded"
    BY <1>5 DEF PauseForUser, Recorded
  <2>2. at \in 1 .. Len(saver) /\ Here \in Checkpoint /\ Here = saver[at]
    BY <1>h, <2>1
  <2>3. c.step = Here.step /\ c.msg = Here.msg /\ c.next = "tools"
    BY DEF Saved
  <2> HIDE DEF c
  <2>4. /\ Len(saver') = Len(saver)
        /\ \A i \in 1 .. Len(saver) : /\ saver'[i].step = saver[i].step
                                      /\ saver'[i].msg = saver[i].msg
                                      /\ saver'[i].next = saver[i].next
    BY <1>0, <2>1, <2>2, <2>3 DEF TypeOK
  <2>5. Done' = Done /\ LedgerCounts'
    BY <1>0, <2>1 DEF Done, StepsInv, LedgerCounts, TypeOK
  <2>6. MintedHere'
    BY <2>4, <2>5 DEF StepsInv, MintedHere
  <2>7. \A k : Carried(k) => Carried(k)'
    BY <2>4, <2>5, CarriedStays DEF StepsInv, MintedHere
  <2>8. WorkBehind'
    BY <2>1, <2>4, <2>7 DEF StepsInv, WorkBehind
  <2>9. OneLine'
    BY <2>1, <2>4 DEF StepsInv, OneLine
  <2> QED BY <1>0, <2>5, <2>6, <2>8, <2>9 DEF StepsInv
<1>6. CASE ExecuteTool
  <2>1. /\ status = "running" /\ Here.next = "tools" /\ opState[Here.msg] # "succeeded"
        /\ UNCHANGED <<status, pointer, required, saver, at, answered, crashes>>
        /\ opState' = [opState EXCEPT ![Here.msg] = "succeeded"]
        /\ effects' = [effects EXCEPT ![Here.msg] = @ + 1]
    BY <1>6 DEF ExecuteTool, Recorded
  <2>2. at \in 1 .. Len(saver) /\ Here = saver[at] /\ Here.msg = at
    BY <1>h, <2>1 DEF StepsInv, MintedHere
  <2>3. LedgerCounts'
    BY <1>0, <1>6, LedgerNext DEF StepsInv, Next, Work
  <2>4. Done \subseteq Done' /\ Done' \subseteq Done \cup {at}
    BY <1>0, <2>1, <2>2 DEF Done, TypeOK
  <2>5. MintedHere'
    BY <2>1, <2>2, <2>4 DEF StepsInv, MintedHere
  <2>6. \A k : Carried(k) => Carried(k)'
    BY <2>1, <2>4, CarriedStays
  <2>7. WorkBehind'
    BY <2>1, <2>6 DEF StepsInv, WorkBehind
  <2>8. OneLine'
    BY <2>1 DEF StepsInv, OneLine
  <2> QED BY <1>0, <2>3, <2>5, <2>7, <2>8 DEF StepsInv
<1>7. CASE SaveResult
  <2>1. /\ status = "running" /\ Here.next = "tools" /\ status' = "running"
        /\ UNCHANGED <<pointer, opState, effects>> /\ opState[Here.msg] = "succeeded"
    BY <1>7 DEF SaveResult, Recorded
  <2>2. at \in 1 .. Len(saver) /\ Here \in Checkpoint /\ Here = saver[at] /\ Here.msg = at
    BY <1>h, <2>1 DEF StepsInv, MintedHere
  <2>3. Carried(Here.step)
    <3>1. at \in Message
      BY <1>0, <2>2, StepsAssumption DEF Message, TypeOK
    <3>2. effects[at] = 1
      BY <2>1, <2>2, <3>1 DEF StepsInv, LedgerCounts
    <3> QED BY <2>2, <3>1, <3>2 DEF Carried, Done
  <2> DEFINE c == Saved(Here.step, Here.msg, "model", FALSE)
  <2>4. Save(c)
    BY <1>7 DEF SaveResult
  <2>5. c \in Checkpoint /\ c.step = Here.step /\ c.next = "model"
    BY <2>2 DEF Saved, Checkpoint
  <2> HIDE DEF c
  <2>6. \A k \in 1 .. Steps : k < c.step \/ k = c.step => Carried(k)
    BY <2>2, <2>3, <2>5 DEF StepsInv, WorkBehind
  <2>7. pointer = 0 => \A i \in 1 .. Len(saver) : saver[i].step <= c.step
    BY <1>p, <2>1, <2>5
  <2> QED BY <1>0, <2>1, <2>4, <2>5, <2>6, <2>7, SaveKeepsSteps
<1>8. CASE SettleWaiting \/ SettleFinal \/ SettleError
  <2>1. /\ status = "running" /\ pointer' = Len(saver) /\ UNCHANGED <<saver, opState, effects>>
        /\ status' = "completed" => Here.next = "end"
    BY <1>8 DEF SettleWaiting, SettleFinal, SettleError, NewPointer, Latest
  <2> QED BY <1>0, <1>h, <2>1, RestKeepsSteps
<1>9. CASE Answer \/ Crash
  BY <1>0, <1>9, RestKeepsSteps DEF Answer, Crash
<1>10. CASE UNCHANGED vars
  BY <1>0, <1>10, RestKeepsSteps DEF vars, StepsInv, OneLine
<1> QED BY <1>1, <1>2, <1>3, <1>4, <1>5, <1>6, <1>7, <1>8, <1>9, <1>10 DEF Next, Work

\* Worker._execute, Runtime.resume: for every number of steps, choice of those that ask and number
\* of deaths, no step's work is done twice before the run first settled, and none is ever skipped.
THEOREM StepsAreExact == Spec => []StepsExact
<1>1. Init => StepsInv
  <2> SUFFICES ASSUME Init PROVE StepsInv
    OBVIOUS
  <2>1. TypeOK /\ Len(saver) = 0 /\ Done = {} /\ status # "completed"
    BY TypeInit DEF Init, Done
  <2> QED BY <2>1 DEF Init, StepsInv, LedgerCounts, MintedHere, WorkBehind, OneLine
<1>2. StepsInv /\ [Next]_vars => StepsInv'
  BY StepsNext
<1> QED BY <1>1, <1>2, StepsPromise, PTL DEF Spec
=============================================================================
