---------------------------- MODULE ModelSelection ----------------------------
(***************************************************************************)
(* Changing the model of a run while it works: the user's requests          *)
(* (runtime/model_selection.py, select), and the loop in                    *)
(* runtime/engine.py, awrap_model_call, that prepares a candidate, binds it *)
(* to the next logical call in the same transaction that makes it           *)
(* effective, or asks the user for another.                                 *)
(*                                                                         *)
(* Preparing a candidate awaits the model gateway and the context service;  *)
(* meanwhile the user may select again or cancel, and the worker may lose   *)
(* its lease or die.  The run is handed on only when the old process is     *)
(* gone (RunScheduler), so one task exists at a time, but one whose lease   *)
(* ran out goes on until a fenced write stops it.  A call asked for again   *)
(* has the same logical id: input revision, step and messages are those of  *)
(* its checkpoint.                                                          *)
(***************************************************************************)
EXTENDS Integers, FiniteSets

CONSTANTS
    Profile,           \* model profiles the user may select
    FirstProfile,      \* the profile of the run's snapshot
    MaxSelects,        \* bound: selections
    MaxCalls,          \* bound: logical model calls of the run
    MaxClaims,         \* bound: claims of the run
    MaxPreparations    \* the loop's limit: MODEL_SELECTION_BUSY beyond (8 in the code)

ASSUME SelectionAssumption ==
    /\ FirstProfile \in Profile
    /\ MaxSelects \in Nat /\ MaxCalls \in Nat \ {0}
    /\ MaxClaims \in Nat \ {0} /\ MaxPreparations \in Nat \ {0}

VARIABLES
    runState,          \* runs.status
    control,           \* run_model_controls
    command,           \* run_model_commands: status by control revision
    binding,           \* model_call_bindings, by logical call
    question,          \* interactions about a candidate: status by call and control revision
    waits,             \* model_selection_waits: control revisions asked about, by call
    step,              \* the logical call the graph's checkpoint stands before
    task,              \* the run's task inside awrap_model_call
    dispatched,        \* profiles each logical call was sent with
    failed,            \* history: control revisions whose candidate could not be prepared
    claims

mvars == <<runState, control, command, binding, question, waits, step, task, dispatched, failed,
           claims>>

Rev == 0 .. MaxSelects
LogicalCall == 1 .. MaxCalls

Unbound == [rev |-> -1, profile |-> FirstProfile]
NoTask == [at |-> "none", rev |-> 0, profile |-> FirstProfile, tries |-> 0]

QuestionState == {"none", "pending", "open", "answered", "closed"}
TaskPoint == {"none", "enter", "preparing", "binding", "failing", "rejected", "prepared", "asking",
              "sending", "sent"}

\* Store.assert_fence: the lease holds and the run was not cancelled.
Fence == runState = "running"

Active == {"queued", "running", "recovering", "waiting"}
Ended == {"completed", "failed", "cancelled"}

------------------------------------------------------------------------------
\* The user

\* One transaction: the revision the user saw is the current one; a request not yet
\* bound is superseded.
Select(p) ==
    /\ runState \in Active /\ control.rev < MaxSelects
    /\ control' = [control EXCEPT !.rev = @ + 1, !.desired = p, !.status = "requested"]
    /\ command' = [r \in Rev |-> IF r = control.rev + 1 THEN "requested"
                                 ELSE IF r = control.rev /\ control.status = "requested"
                                      THEN "superseded" ELSE command[r]]
    /\ UNCHANGED <<runState, binding, question, waits, step, task, dispatched, failed, claims>>

\* The questions of the call the checkpoint stands before that nobody answered.
Unanswered == {r \in waits[step] : question[step][r] /= "answered"}

\* The user answers the question a rejected candidate left: continue.
ContinueAnswered ==
    /\ runState = "waiting"
    /\ \E r \in Rev :
         /\ question[step][r] = "open"
         /\ question' = [question EXCEPT ![step][r] = "answered"]
    /\ runState' = "queued"
    /\ UNCHANGED <<control, command, binding, waits, step, task, dispatched, failed, claims>>

\* A cancelled or ended run's interactions, opened or not yet, are closed.
QuestionsClosed ==
    question' = [l \in LogicalCall |-> [r \in Rev |->
        IF question[l][r] \in {"pending", "open"} THEN "closed" ELSE question[l][r]]]

\* The run ends; in the terminal hook a request nothing was bound to is not_applied.
Finish(status) ==
    /\ runState' = status
    /\ QuestionsClosed
    /\ control' = IF control.status = "requested" THEN [control EXCEPT !.status = "not_applied"]
                  ELSE control
    /\ command' = IF control.status = "requested" THEN [command EXCEPT ![control.rev] = "not_applied"]
                  ELSE command

\* A run without a task is cancelled at once, another when its task has ended.
CancelRun ==
    /\ runState \in Active
    /\ IF runState \in {"queued", "waiting"} THEN Finish("cancelled")
       ELSE runState' = "cancelling" /\ QuestionsClosed /\ UNCHANGED <<control, command>>
    /\ UNCHANGED <<binding, waits, step, task, dispatched, failed, claims>>

CancelSettled ==
    /\ runState = "cancelling" /\ task = NoTask
    /\ Finish("cancelled")
    /\ UNCHANGED <<binding, waits, step, task, dispatched, failed, claims>>

------------------------------------------------------------------------------
\* Workers

\* The questions of the call are replayed in their order before anything else is tried.
Claim ==
    /\ runState = "queued" /\ claims < MaxClaims
    /\ runState' = "running" /\ claims' = claims + 1
    /\ task' = [NoTask EXCEPT !.at = IF Unanswered /= {} THEN "asking" ELSE "enter"]
    /\ UNCHANGED <<control, command, binding, question, waits, step, dispatched, failed>>

\* The lease runs out; the run is queued again once the old process is gone.
LoseLease ==
    /\ runState = "running" /\ claims < MaxClaims
    /\ runState' = "recovering"
    /\ UNCHANGED <<control, command, binding, question, waits, step, task, dispatched, failed, claims>>

RunRecovered ==
    /\ runState = "recovering"
    /\ runState' = "queued" /\ task' = NoTask
    /\ UNCHANGED <<control, command, binding, question, waits, step, dispatched, failed, claims>>

\* candidate(): the call's binding, or else what the control desires now.
Candidate ==
    /\ task.at = "enter" /\ Fence
    /\ task.tries < MaxPreparations
    /\ LET b == binding[step]
           c == IF b /= Unbound THEN b ELSE [rev |-> control.rev, profile |-> control.desired]
       IN  task' = [task EXCEPT !.at = "preparing", !.rev = c.rev, !.profile = c.profile,
                                !.tries = @ + 1]
    /\ UNCHANGED <<runState, control, command, binding, question, waits, step, dispatched, failed, claims>>

TooManySelections ==
    /\ task.at = "enter" /\ Fence /\ task.tries >= MaxPreparations
    /\ Finish("failed")
    /\ task' = NoTask
    /\ UNCHANGED <<binding, waits, step, dispatched, failed, claims>>

\* Resolving the model, switching and composing the view are awaited; each may fail.
Prepared ==
    /\ task.at = "preparing"
    /\ \/ task' = [task EXCEPT !.at = "binding"] /\ UNCHANGED failed
       \/ task' = [task EXCEPT !.at = "failing"] /\ failed' = failed \cup {task.rev}
    /\ UNCHANGED <<runState, control, command, binding, question, waits, step, dispatched, claims>>

Bound == binding[step] /= Unbound
Moved == task.rev /= control.rev

Uses(profile) == task' = [task EXCEPT !.at = "sending", !.profile = profile]

\* bind(): an existing binding is used, whichever candidate was prepared.
BindAgain ==
    /\ task.at = "binding" /\ Fence /\ Bound
    /\ Uses(binding[step].profile)
    /\ UNCHANGED <<runState, control, command, binding, question, waits, step, dispatched, failed, claims>>

\* The selection moved during the preparation: prepare again.
BindMoved ==
    /\ task.at = "binding" /\ Fence /\ ~Bound /\ Moved
    /\ task' = [task EXCEPT !.at = "enter"]
    /\ UNCHANGED <<runState, control, command, binding, question, waits, step, dispatched, failed, claims>>

\* A bind that does not look at the revision again after the await.
BindUnchecked ==
    /\ task.at = "binding" /\ Fence /\ ~Bound
    /\ binding' = [binding EXCEPT ![step] = [rev |-> task.rev, profile |-> task.profile]]
    /\ control' = [control EXCEPT !.effective = task.profile, !.effRev = task.rev,
                                  !.status = "applied"]
    /\ command' = IF control.rev > 0 THEN [command EXCEPT ![control.rev] = "applied"] ELSE command
    /\ Uses(task.profile)
    /\ UNCHANGED <<runState, question, waits, step, dispatched, failed, claims>>

\* One transaction binds the call and makes the candidate effective.
Bind ==
    /\ task.at = "binding" /\ Fence /\ ~Bound /\ ~Moved
    /\ binding' = [binding EXCEPT ![step] = [rev |-> task.rev, profile |-> task.profile]]
    /\ control' = [control EXCEPT !.effective = task.profile, !.effRev = task.rev,
                                  !.status = "applied"]
    /\ command' = IF control.rev > 0 THEN [command EXCEPT ![control.rev] = "applied"] ELSE command
    /\ Uses(task.profile)
    /\ UNCHANGED <<runState, question, waits, step, dispatched, failed, claims>>

\* The next fenced write or boundary check of a task that lost the run, or its death.
TaskRejected ==
    /\ task.at /= "none" /\ ~Fence
    /\ task' = NoTask
    /\ UNCHANGED <<runState, control, command, binding, question, waits, step, dispatched, failed, claims>>

\* reject(): a candidate that failed marks the selection it was, if that is still the current one.
RejectCandidate ==
    /\ task.at = "failing" /\ Fence
    /\ control' = IF Moved THEN control ELSE [control EXCEPT !.status = "rejected"]
    /\ command' = IF Moved \/ control.rev = 0 THEN command
                  ELSE [command EXCEPT ![control.rev] = "rejected"]
    /\ task' = [task EXCEPT !.at = "rejected"]
    /\ UNCHANGED <<runState, binding, question, waits, step, dispatched, failed, claims>>

\* prepare_interaction(): a second transaction; the row of this call and revision is made once.
PrepareQuestion ==
    /\ task.at = "rejected" /\ Fence
    /\ question' = [question EXCEPT ![step][task.rev] = IF @ = "none" THEN "pending" ELSE @]
    /\ task' = [task EXCEPT !.at = "prepared"]
    /\ UNCHANGED <<runState, control, command, binding, waits, step, dispatched, failed, claims>>

\* A third: what the call waits for, written without looking at the lease.
KeepsQuestion ==
    /\ task.at = "prepared" /\ task.rev \notin waits[step]
    /\ waits' = [waits EXCEPT ![step] = @ \cup {task.rev}]
    /\ task' = [task EXCEPT !.at = "asking"]
    /\ UNCHANGED <<runState, control, command, binding, question, step, dispatched, failed, claims>>

\* The same candidate failed before, the user went on and chose nothing else: the run fails.
GivesUp ==
    /\ task.at = "prepared" /\ Fence /\ task.rev \in waits[step]
    /\ Finish("failed")
    /\ task' = NoTask
    /\ UNCHANGED <<binding, waits, step, dispatched, failed, claims>>

\* settle(): the run waits, and the question it waits for can be answered.
Pauses ==
    /\ task.at = "asking" /\ Fence
    /\ runState' = "waiting" /\ task' = NoTask
    /\ question' = [question EXCEPT ![step] = [r \in Rev |->
           IF r \in waits[step] /\ @[r] = "pending" THEN "open" ELSE @[r]]]
    /\ UNCHANGED <<control, command, binding, waits, step, dispatched, failed, claims>>

\* The request goes out with the bound profile.
Dispatch ==
    /\ task.at = "sending"
    /\ dispatched' = [dispatched EXCEPT ![step] = @ \cup {task.profile}]
    /\ task' = [task EXCEPT !.at = "sent"]
    /\ UNCHANGED <<runState, control, command, binding, question, waits, step, failed, claims>>

\* The turn is saved; the graph goes on to the next call, or the run completes.
TurnSaved ==
    /\ task.at = "sent" /\ Fence
    /\ \/ /\ step < MaxCalls /\ step' = step + 1
          /\ task' = [NoTask EXCEPT !.at = "enter"]
          /\ UNCHANGED <<runState, control, command, question>>
       \/ Finish("completed") /\ task' = NoTask /\ UNCHANGED step
    /\ UNCHANGED <<binding, waits, dispatched, failed, claims>>

SelectionInit ==
    /\ runState = "queued" /\ claims = 0
    /\ control = [rev |-> 0, effRev |-> 0, desired |-> FirstProfile, effective |-> FirstProfile,
                  status |-> "initial"]
    /\ command = [r \in Rev |-> "none"]
    /\ binding = [l \in LogicalCall |-> Unbound]
    /\ question = [l \in LogicalCall |-> [r \in Rev |-> "none"]]
    /\ waits = [l \in LogicalCall |-> {}]
    /\ step = 1
    /\ task = NoTask
    /\ dispatched = [l \in LogicalCall |-> {}] /\ failed = {}

TaskStep ==
    \/ Candidate \/ TooManySelections \/ Prepared
    \/ BindAgain \/ BindMoved \/ Bind \/ TaskRejected
    \/ RejectCandidate \/ PrepareQuestion \/ KeepsQuestion \/ GivesUp \/ Pauses \/ Dispatch \/ TurnSaved

SelectionNext ==
    \/ \E p \in Profile : Select(p)
    \/ ContinueAnswered \/ CancelRun \/ CancelSettled
    \/ Claim \/ LoseLease \/ RunRecovered \/ TaskStep

SelectionSpec == SelectionInit /\ [][SelectionNext]_mvars

------------------------------------------------------------------------------
\* Controls, commands, bindings and tasks keep their shapes (ModelSelectionService).
SelectionTypeOK ==
    /\ runState \in Active \cup Ended \cup {"cancelling"}
    /\ control \in [rev : Rev, effRev : Rev, desired : Profile, effective : Profile,
                    status : {"initial", "requested", "applied", "rejected", "not_applied"}]
    /\ command \in [Rev -> {"none", "requested", "superseded", "applied", "rejected", "not_applied"}]
    /\ binding \in [LogicalCall -> [rev : Rev \cup {-1}, profile : Profile]]
    /\ question \in [LogicalCall -> [Rev -> QuestionState]]
    /\ waits \in [LogicalCall -> SUBSET Rev] /\ failed \in SUBSET Rev
    /\ step \in LogicalCall
    /\ task \in [at : TaskPoint, rev : Rev, profile : Profile, tries : 0 .. MaxPreparations]
    /\ dispatched \in [LogicalCall -> SUBSET Profile]
    /\ claims \in 0 .. MaxClaims

\* reject(): the failure of a candidate the user had replaced meanwhile rejects no selection.
RejectedWasTried == \A r \in Rev : command[r] = "rejected" => r \in failed

\* bind(): applied means that a call was bound under that very selection.
AppliedWasBound ==
    \A r \in Rev : command[r] = "applied" => \E l \in LogicalCall : binding[l].rev = r

\* select(), finish(): at most the newest selection is open, and none once the run ended.
OneOpenSelection ==
    /\ \A r \in Rev : command[r] = "requested" => r = control.rev /\ control.status = "requested"
    /\ runState \in Ended => \A r \in Rev : command[r] /= "requested"

\* awrap_model_call, settle(), cancel(): wherever the worker died among the three writes, a run that
\* waits has a question to answer, a question can be answered only while the run waits, and the run
\* gives up only over a candidate whose question was answered.
QuestionCanBeAnswered ==
    /\ runState = "waiting" => \E r \in waits[step] : question[step][r] = "open"
    /\ \A l \in LogicalCall, r \in Rev : question[l][r] = "open" => runState = "waiting" /\ l = step
    /\ task.at = "prepared" /\ task.rev \in waits[step] => question[step][task.rev] = "answered"

\* ModelSelectionService: what the user is told about a selection is what became of it, though the
\* candidate was prepared across awaits during which it may have been replaced, and what they are
\* asked about it can be answered.
VerdictsTrue == RejectedWasTried /\ AppliedWasBound /\ OneOpenSelection /\ QuestionCanBeAnswered
=============================================================================
