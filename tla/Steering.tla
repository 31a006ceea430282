------------------------------- MODULE Steering -------------------------------
(***************************************************************************)
(* Messages a user adds to a run while it works (scheduler.steer): a row in *)
(* input_commands, taken into the graph by before_model, acknowledged by    *)
(* the next node, and admitted after a final answer by continue_input.      *)
(*                                                                         *)
(* Three places hold an input revision: the run's row, the task's context   *)
(* and the graph's checkpoint.  They are written by different transactions, *)
(* and a worker may die between any two.                                    *)
(*                                                                         *)
(* One run is followed.  Its leases and reviews are RunScheduler's, so a    *)
(* dead worker's run is queued again at once and a pause ends in an answer; *)
(* its tool calls leave no trace here but the pause.  LangGraph (external)  *)
(* saves after each node, merges the messages of a new input into the       *)
(* thread by id, and forgets what followed the checkpoint it resumes.       *)
(***************************************************************************)
EXTENDS Integers, FiniteSets

CONSTANTS
    MaxInput,          \* bound: the last input revision; the run starts with 1
    MaxTurns,          \* bound: model calls that ask for a tool
    MaxDeaths          \* bound: deaths of the run's worker

ASSUME SteeringAssumption ==
    MaxInput \in Nat \ {0} /\ MaxTurns \in Nat /\ MaxDeaths \in Nat

VARIABLES
    run,               \* the row: status, input_revision, the business pointer
    commands,          \* table input_commands: state by input revision
    thread,            \* the graph's newest checkpoint
    ctx,               \* the live task's input revision and its graph's node
    turns,             \* model calls that asked for a tool
    deaths,
    stale              \* a task went on from a checkpoint without a consumed message

svars == <<run, commands, thread, ctx, turns, deaths, stale>>

Revision == 1 .. MaxInput
Command == 2 .. MaxInput

\* A checkpoint: its input revision, the commands among its messages, the command
\* ids waiting to be acknowledged, and the node to run next.
Node == {"before", "model", "tools", "end"}
CheckpointOf == [input : Revision, known : SUBSET Command, ids : SUBSET Command, next : Node]

\* No checkpoint yet; a task without a run.
Blank == [input |-> 0, known |-> {}, ids |-> {}, next |-> "end"]
Idle == [input |-> 0, at |-> "none"]

Pending == {i \in Command : commands[i] = "pending"}
MaxOf(S) == CHOOSE x \in S : \A y \in S : x >= y

\* Scheduler.steer compares with the newest admitted input, consumed or not.
Latest == MaxOf({run.input} \cup Pending)

------------------------------------------------------------------------------
\* The user and the scheduler

\* Admission while queued or running, after the expected revision was the newest.
Steer ==
    /\ run.status \in {"queued", "running"} /\ Latest < MaxInput
    /\ commands' = [commands EXCEPT ![Latest + 1] = "pending"]
    /\ UNCHANGED <<run, thread, ctx, turns, deaths, stale>>

PauseAnswered ==
    /\ run.status = "waiting"
    /\ run' = [run EXCEPT !.status = "queued"]
    /\ UNCHANGED <<commands, thread, ctx, turns, deaths, stale>>

WorkerDies ==
    /\ run.status = "running" /\ deaths < MaxDeaths
    /\ run' = [run EXCEPT !.status = "queued"]
    /\ ctx' = Idle
    /\ deaths' = deaths + 1
    /\ UNCHANGED <<commands, thread, turns, stale>>

Fail == run' = [run EXCEPT !.status = "failed"] /\ ctx' = Idle

------------------------------------------------------------------------------
\* Worker._execute: where the claimed run goes on

Claimable == run.status = "queued"
Execute(cp, input) ==
    /\ run' = [run EXCEPT !.status = "running"]
    /\ thread' = cp
    /\ ctx' = [input |-> input, at |-> cp.next]

\* The row names a checkpoint, or the thread's newest one is this input's.
Found == IF run.pointer /= Blank THEN run.pointer ELSE thread
ResumeHere == run.pointer /= Blank \/ (thread /= Blank /\ thread.input = run.input)

\* resume() lowers the context to the checkpoint's revision while input is pending.
ResumeInput(cp) == IF cp.input < run.input /\ Pending /= {} THEN cp.input ELSE run.input

\* The checkpoint is older than a message that was consumed since.
Forgets(cp) == \E i \in Command : commands[i] = "consumed" /\ i \notin cp.known

Resumes ==
    /\ Claimable /\ ResumeHere
    /\ ResumeInput(Found) = Found.input
    /\ Execute(Found, ResumeInput(Found))
    /\ stale' = (stale \/ Forgets(Found))
    /\ UNCHANGED <<commands, turns, deaths>>

\* checkpoint_mismatch inside resume() ends the run with an error.
ResumeRefused ==
    /\ Claimable /\ ResumeHere
    /\ ResumeInput(Found) /= Found.input
    /\ Fail
    /\ UNCHANGED <<commands, thread, turns, deaths, stale>>

\* No checkpoint, or one of another input revision: the turn starts, in the same thread.
Begun(cp) == [cp EXCEPT !.input = run.input, !.next = "before"]

Starts ==
    /\ Claimable /\ ~ResumeHere
    /\ Execute(Begun(thread), run.input)
    /\ UNCHANGED <<commands, turns, deaths, stale>>

------------------------------------------------------------------------------
\* The graph's nodes; each ends with a checkpoint

\* abefore_model: every pending command's message joins the conversation.
BeforeModel ==
    /\ run.status = "running" /\ ctx.at = "before"
    /\ LET input == MaxOf({ctx.input} \cup Pending)
       IN  /\ thread' = IF Pending = {} THEN [thread EXCEPT !.next = "model"]
                        ELSE [input |-> input, known |-> thread.known \cup Pending,
                              ids |-> thread.ids \cup Pending, next |-> "model"]
           /\ ctx' = [input |-> input, at |-> "model"]
    /\ UNCHANGED <<run, commands, turns, deaths, stale>>

\* awrap_model_call acknowledges what the saved state carries, raising the row's revision.
ModelAcks ==
    /\ run.status = "running" /\ ctx.at = "model" /\ \E i \in thread.ids : i \in Pending
    /\ commands' = [i \in Command |-> IF i \in thread.ids THEN "consumed" ELSE commands[i]]
    /\ run' = [run EXCEPT !.input = MaxOf({run.input, ctx.input})]
    /\ UNCHANGED <<thread, ctx, turns, deaths, stale>>

\* The model's turn asks for a tool or is the final answer.
ModelAnswers ==
    /\ run.status = "running" /\ ctx.at = "model" /\ thread.ids \cap Pending = {}
    /\ \E next \in {"end"} \cup (IF turns < MaxTurns THEN {"tools"} ELSE {}) :
         /\ thread' = [thread EXCEPT !.next = next]
         /\ ctx' = [ctx EXCEPT !.at = next]
         /\ turns' = IF next = "tools" THEN turns + 1 ELSE turns
    /\ UNCHANGED <<run, commands, deaths, stale>>

ToolsDone ==
    /\ run.status = "running" /\ ctx.at = "tools"
    /\ thread' = [thread EXCEPT !.next = "before"]
    /\ ctx' = [ctx EXCEPT !.at = "before"]
    /\ UNCHANGED <<run, commands, turns, deaths, stale>>

\* settle(): the graph's newest checkpoint is the pointer.  An outcome of another input revision than the
\* row's (OUTCOME_MISMATCH: resume() lowered it) is not taken; the worker settles an error instead.
SettledAs(status) ==
    run' = IF ctx.input = run.input THEN [run EXCEPT !.status = status, !.pointer = thread]
           ELSE [run EXCEPT !.status = "failed"]

\* The tool waits for the user.
ToolsPause ==
    /\ run.status = "running" /\ ctx.at = "tools"
    /\ SettledAs("waiting")
    /\ ctx' = Idle
    /\ UNCHANGED <<commands, thread, turns, deaths, stale>>

\* A settlement that trusts what the graph saw before it ended.
SettlesUnlocked ==
    /\ run.status = "running" /\ ctx.at = "end"
    /\ SettledAs("completed")
    /\ ctx' = Idle
    /\ UNCHANGED <<commands, thread, turns, deaths, stale>>

\* One transaction reads what is pending and settles.
Settles ==
    /\ run.status = "running" /\ ctx.at = "end" /\ Pending = {}
    /\ SettledAs("completed")
    /\ ctx' = Idle
    /\ UNCHANGED <<commands, thread, turns, deaths, stale>>

\* A continuation that enters the graph at the model call.
ContinuesPastBefore ==
    /\ run.status = "running" /\ ctx.at = "end" /\ Pending /= {}
    /\ thread' = [Begun(thread) EXCEPT !.next = "model"]
    /\ ctx' = [input |-> run.input, at |-> "model"]
    /\ UNCHANGED <<run, commands, turns, deaths, stale>>

\* continue_input: the graph runs again with the row's revision.
Continues ==
    /\ run.status = "running" /\ ctx.at = "end" /\ Pending /= {}
    /\ thread' = Begun(thread)
    /\ ctx' = [input |-> run.input, at |-> "before"]
    /\ UNCHANGED <<run, commands, turns, deaths, stale>>

SteeringInit ==
    /\ run = [status |-> "queued", input |-> 1, pointer |-> Blank]
    /\ commands = [i \in Command |-> "none"]
    /\ thread = Blank
    /\ ctx = Idle
    /\ turns = 0 /\ deaths = 0 /\ stale = FALSE

Work == Resumes \/ ResumeRefused \/ Starts \/ BeforeModel \/ ModelAcks \/ ModelAnswers
          \/ ToolsDone \/ ToolsPause \/ Settles \/ Continues

SteeringNext == Steer \/ PauseAnswered \/ WorkerDies \/ Work

\* A worker polls for queued runs and its task runs on; the user need not answer.
SteeringSpec == SteeringInit /\ [][SteeringNext]_svars /\ WF_svars(Work)

------------------------------------------------------------------------------
\* The row, the commands and the thread keep their shapes (Store.input_commands).
SteeringTypeOK ==
    /\ run \in [status : {"queued", "running", "waiting", "completed", "failed"},
                input : Revision, pointer : CheckpointOf \cup {Blank}]
    /\ commands \in [Command -> {"none", "pending", "consumed"}]
    /\ thread \in CheckpointOf \cup {Blank}
    /\ ctx \in [input : 0 .. MaxInput, at : Node \cup {"none"}]
    /\ turns \in 0 .. MaxTurns /\ deaths \in 0 .. MaxDeaths /\ stale \in BOOLEAN

\* Worker._execute, abefore_model, ack_input_commands: a run completes only with every
\* admitted message in the conversation its answer was made from, however often its worker
\* died, unless it was resumed from a pointer older than a message consumed since.
EveryInputAnswered ==
    run.status = "completed" /\ ~stale =>
        \A i \in Command : commands[i] /= "none" => commands[i] = "consumed" /\ i \in thread.known

\* An admitted message is taken in, or the run waits for its user or ends, whatever dies.
InputHeard == \A i \in Command :
    (commands[i] = "pending") ~>
        (commands[i] = "consumed" \/ run.status \in {"waiting", "failed"})
=============================================================================
