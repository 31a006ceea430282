--------------------------- MODULE CheckpointResume ---------------------------
(***************************************************************************)
(* Where a run continues after its worker died: harness/scheduler/worker.py *)
(* chooses a checkpoint, harness/runtime/engine.py resumes the graph there, *)
(* and tools/gateway.py finds in the ledger what was done already.          *)
(*                                                                         *)
(* One run is followed through a turn of Steps model calls, each asking for *)
(* one tool call.  Two stores record how far it got, in two transactions:   *)
(* the graph's saver after every node, and runs.checkpoint_ref, the         *)
(* business pointer, only when an outcome is settled.  Operations are keyed *)
(* by the assistant message, and every model call mints a new message.      *)
(*                                                                         *)
(* LangGraph (external) resumes from the checkpoint it is given, forgets    *)
(* what the thread saved after it, runs that checkpoint's pending node and  *)
(* goes on.  Leases and the review of unknown effects are RunScheduler's: a *)
(* lost worker's run is queued again at once, and a call and its ledger row *)
(* are one step, as they are for the writes recovery verifies by hash.      *)
(***************************************************************************)
EXTENDS Integers, Sequences

CONSTANTS
    Steps,             \* model calls that ask for a tool, before the final answer
    Asks,              \* the steps whose call waits for the user's approval
    MaxCheckpoints,    \* bound: checkpoints the saver ever holds
    MaxCrashes         \* bound: deaths of the run's worker

ASSUME StepsAssumption ==
    /\ Steps \in Nat \ {0}
    /\ Asks \subseteq 1 .. Steps
    /\ MaxCheckpoints \in Nat /\ MaxCrashes \in Nat

VARIABLES
    status,            \* runs.status
    pointer,           \* runs.checkpoint_ref: a position in saver, 0 when NULL
    required,          \* runs.required_interrupts: the checkpoints that paused
    saver,             \* the thread's checkpoints, oldest first
    at,                \* the checkpoint the live task is at, 0 without a task
    opState,           \* table tool_executions, by message
    answered,          \* the messages whose interaction the user approved
    effects,           \* how often each message's call was carried out
    crashes

vars == <<status, pointer, required, saver, at, opState, answered, effects, crashes>>

\* A message is named by the checkpoint that first saved it; 0 is the user's input.
Message == 1 .. MaxCheckpoints

Checkpoint == [step : 0 .. Steps, msg : 0 .. MaxCheckpoints,
               next : {"model", "tools", "end"}, paused : BOOLEAN]

Saved(step, msg, next, paused) ==
    [step |-> step, msg |-> msg, next |-> next, paused |-> paused]
Input == Saved(0, 0, "model", FALSE)

Latest == Len(saver)
Here == saver[at]

\* A refused or missing answer is RunScheduler's; here a pause ends in approval.
Cleared(m) == saver[m].step \notin Asks \/ m \in answered

\* A lookup that takes any row of the ledger for a result.
RecordedAnyRow(m) == opState[m] # "none"
Recorded(m) == opState[m] = "succeeded"

-----------------------------------------------------------------------------
Init ==
    /\ status = "queued"
    /\ pointer = 0 /\ required = {}
    /\ saver = << >> /\ at = 0
    /\ opState = [m \in Message |-> "none"]
    /\ answered = {}
    /\ effects = [m \in Message |-> 0]
    /\ crashes = 0

Save(c) ==
    /\ Latest < MaxCheckpoints
    /\ saver' = Append(saver, c)
    /\ at' = Latest + 1

\* A worker that trusts the business pointer alone and starts the turn anew.
BaseFromPointer == pointer
\* Where a claimed run continues: the business pointer, else what the saver has.
Base == IF pointer # 0 THEN pointer ELSE Latest

\* resume() wants the checkpoint's interrupts matched by the resolutions it is
\* given, which are those of required_interrupts.
BarrierResolved(i) ==
    saver[i].paused => required = {i} /\ saver[i].msg \in answered

\* Runtime.start: no checkpoint, so the turn begins with the user's input.
Start ==
    /\ status = "queued" /\ Base = 0
    /\ Save(Input)
    /\ status' = "running"
    /\ UNCHANGED <<pointer, required, opState, answered, effects, crashes>>

\* Runtime.resume at the chosen checkpoint.
Resume ==
    /\ status = "queued" /\ Base # 0 /\ BarrierResolved(Base)
    /\ status' = "running" /\ at' = Base
    /\ UNCHANGED <<pointer, required, saver, opState, answered, effects, crashes>>

\* Runtime.resume refuses ("incomplete_interrupt_barrier"); the run fails.
ResumeRefused ==
    /\ status = "queued" /\ Base # 0 /\ ~BarrierResolved(Base)
    /\ status' = "failed" /\ pointer' = Latest
    /\ UNCHANGED <<required, saver, at, opState, answered, effects, crashes>>

\* The model answers under a fresh message identity, and its answer is saved:
\* a tool request, or the final answer once the work is done.
CallModel ==
    /\ status = "running" /\ Here.next = "model"
    /\ IF Here.step < Steps THEN Save(Saved(Here.step + 1, Latest + 1, "tools", FALSE))
                            ELSE Save(Saved(Steps, Latest + 1, "end", FALSE))
    /\ UNCHANGED <<status, pointer, required, opState, answered, effects, crashes>>

\* The call needs approval first: its operation is prepared, and the graph stops
\* with an interrupt saved beside the checkpoint.
PauseForUser ==
    /\ status = "running" /\ Here.next = "tools" /\ ~Here.paused
    /\ ~Recorded(Here.msg) /\ ~Cleared(Here.msg)
    /\ opState' = [opState EXCEPT ![Here.msg] = "prepared"]
    /\ saver' = [saver EXCEPT ![at] = Saved(Here.step, Here.msg, "tools", TRUE)]
    /\ UNCHANGED <<status, pointer, required, at, answered, effects, crashes>>

\* A gateway that carries out every request it is handed.
ExecuteToolAgain ==
    /\ status = "running" /\ Here.next = "tools" /\ Cleared(Here.msg)
    /\ opState' = [opState EXCEPT ![Here.msg] = "succeeded"]
    /\ effects' = [effects EXCEPT ![Here.msg] = @ + 1]
    /\ UNCHANGED <<status, pointer, required, saver, at, answered, crashes>>

\* The call is carried out and recorded.  A call the ledger has a result for is
\* answered from there (SaveResult).
ExecuteTool ==
    /\ status = "running" /\ Here.next = "tools" /\ Cleared(Here.msg)
    /\ ~Recorded(Here.msg)
    /\ opState' = [opState EXCEPT ![Here.msg] = "succeeded"]
    /\ effects' = [effects EXCEPT ![Here.msg] = @ + 1]
    /\ UNCHANGED <<status, pointer, required, saver, at, answered, crashes>>

\* The tool message joins the history in a checkpoint of its own.
SaveResult ==
    /\ status = "running" /\ Here.next = "tools" /\ Recorded(Here.msg)
    /\ Save(Saved(Here.step, Here.msg, "model", FALSE))
    /\ UNCHANGED <<status, pointer, required, opState, answered, effects, crashes>>

\* A settlement that records where the run paused only the first time.
PointerOnce == IF pointer = 0 THEN Latest ELSE pointer
\* The checkpoint an outcome carries: the thread's latest (get_checkpoint).
NewPointer == Latest

\* settle(waiting): the pointer and the barrier are recorded, the slot is freed.
SettleWaiting ==
    /\ status = "running" /\ Here.paused /\ ~Cleared(Here.msg)
    /\ status' = "waiting" /\ pointer' = NewPointer /\ required' = {at} /\ at' = 0
    /\ UNCHANGED <<saver, opState, answered, effects, crashes>>

\* The user approves and the run is queued again (respond, _wake).
Answer ==
    /\ status = "waiting"
    /\ answered' = answered \cup {saver[i].msg : i \in required}
    /\ status' = "queued"
    /\ UNCHANGED <<pointer, required, saver, at, opState, effects, crashes>>

\* settle(final)
SettleFinal ==
    /\ status = "running" /\ Here.next = "end"
    /\ status' = "completed" /\ pointer' = NewPointer /\ at' = 0
    /\ UNCHANGED <<required, saver, opState, answered, effects, crashes>>

\* settle(error): a call of the model or a boundary check failed.
SettleError ==
    /\ status = "running"
    /\ status' = "failed" /\ pointer' = NewPointer /\ at' = 0
    /\ UNCHANGED <<required, saver, opState, answered, effects, crashes>>

\* A recovery that hands the run on while the old task still counts as live.
CrashKeepsTask ==
    /\ status = "running" /\ crashes < MaxCrashes
    /\ crashes' = crashes + 1
    /\ status' = "queued"
    /\ UNCHANGED <<pointer, required, saver, at, opState, answered, effects>>

\* The worker dies and recovery queues the run again; no settlement took place.
Crash ==
    /\ status = "running" /\ crashes < MaxCrashes
    /\ crashes' = crashes + 1
    /\ status' = "queued" /\ at' = 0
    /\ UNCHANGED <<pointer, required, saver, opState, answered, effects>>

Work == Start \/ Resume \/ ResumeRefused \/ CallModel \/ PauseForUser \/ ExecuteTool
        \/ SaveResult \/ SettleWaiting \/ SettleFinal \/ SettleError

Next == Work \/ Answer \/ Crash

Spec == Init /\ [][Next]_vars

-----------------------------------------------------------------------------
(* What a resumed run must keep *)

\* The type of every variable; a task is live exactly while the run is running.
TypeOK ==
    /\ status \in {"queued", "running", "waiting", "completed", "failed"}
    /\ pointer \in 0 .. Len(saver)
    /\ required \subseteq 1 .. Len(saver)
    /\ saver \in Seq(Checkpoint) /\ Len(saver) <= MaxCheckpoints
    /\ at \in 0 .. Len(saver) /\ (at # 0 <=> status = "running")
    /\ opState \in [Message -> {"none", "prepared", "succeeded"}]
    /\ answered \subseteq 0 .. MaxCheckpoints
    /\ effects \in [Message -> Nat]
    /\ crashes \in 0 .. MaxCrashes

Done == {m \in Message : effects[m] > 0}

\* However often a checkpoint's tool node is run again after a crash, a tool
\* request that was saved is carried out at most once: the ledger answers the
\* replay (COMPATIBILITY.md R03).
EffectOncePerMessage == \A m \in Message : effects[m] <= 1

\* The work a step asked for is done once, whichever messages carried it.
OncePerStep ==
    /\ EffectOncePerMessage
    /\ \A m, n \in Done : saver[m].step = saver[n].step => m = n

\* A run that is queued after a pause holds the pointer, the barrier and the
\* answer that its resume will compare, through every later death: resume()
\* never meets a paused checkpoint whose interrupts it cannot match.
PauseResumable ==
    status \in {"waiting", "queued"} /\ pointer # 0 =>
        /\ saver[pointer].paused
        /\ required = {pointer}
        /\ status = "queued" => saver[pointer].msg \in answered

\* Worker._execute: until the run has settled a first pause, dying repeats no step, the saver
\* being inspected even though the business pointer was never written (worker.py:179); and no
\* replay ever skips work: a completed run carried out the call of every step.
StepsExact ==
    /\ pointer = 0 => OncePerStep
    /\ status = "completed" => \A k \in 1 .. Steps : \E m \in Done : saver[m].step = k
=============================================================================
