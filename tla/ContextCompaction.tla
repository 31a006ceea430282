--------------------------- MODULE ContextCompaction ---------------------------
(***************************************************************************)
(* What a model call is sent (context/service.py): a view composed from the *)
(* branch's conversation, the user's pinned constraints and, once the       *)
(* conversation outgrows the soft threshold, a summary that replaces its    *)
(* older turns and is published by compare-and-set on the thread's context  *)
(* pointer after a summary model was awaited.                               *)
(*                                                                         *)
(* The pointer belongs to the branch's thread and outlives its runs; the    *)
(* input revision it holds is a run's, which starts from the branch's       *)
(* revision (Scheduler.submit) and is raised by every message added to the  *)
(* run (Steering has the steps by which such a message is taken in).        *)
(*                                                                         *)
(* A turn stands for a user message and the answers and tool results before *)
(* the next; attachments, offloaded tool outputs and skills, which are      *)
(* never removed from a view, and memories are left out.                    *)
(***************************************************************************)
EXTENDS Integers, FiniteSets

CONSTANTS
    Pin,               \* texts the user may pin
    MaxHistory,        \* bound: turns of the branch's conversation
    ImageTurn,         \* the turns whose message holds an image
    RecentTurns,       \* ContextPolicy.recent_turns
    SoftTurns,         \* more turns than these reach the soft threshold
    HardTurns,         \* more turns than these exceed the input budget
    MaxPinEdits,       \* bound: changes of the pins
    MaxAsks            \* bound: the times the user lets a refused call try again

ASSUME ContextAssumption ==
    /\ MaxHistory \in Nat \ {0} /\ ImageTurn \subseteq 1 .. MaxHistory
    /\ RecentTurns \in Nat \ {0} /\ SoftTurns \in Nat /\ HardTurns \in Nat
    /\ MaxPinEdits \in Nat /\ MaxAsks \in Nat

VARIABLES
    history,           \* turns in the thread's conversation: 1 .. history
    branchRev,         \* branches.revision
    chat,              \* the branch's newest run: status, input revision, last error
    added,             \* steering messages admitted and not yet taken in
    pointer,           \* namespace context_pointer, one per thread
    pins,              \* namespace context_pins, one per branch
    view,              \* compose() of the run's next model call
    request,           \* the request last sent to a model
    asks

cvars == <<history, branchRev, chat, added, pointer, pins, view, request, asks>>

NoSummary == [covered |-> {}, constraints |-> {}]
Turn == 1 .. MaxHistory
Summary == [covered : SUBSET Turn, constraints : SUBSET Pin]

NoView == [at |-> "none", pointerRev |-> 0, pinRev |-> 0, pins |-> {}, turns |-> {},
           summary |-> NoSummary, previous |-> NoSummary]
Ready == [NoView EXCEPT !.at = "ready"]
NoRequest == [turns |-> {}, summary |-> NoSummary, pins |-> {}, upto |-> 0]

------------------------------------------------------------------------------
\* The user: messages and pins

\* Scheduler.submit: the branch is free; its revision rises and is the run's input revision.
SubmitTurn ==
    /\ chat.status \in {"none", "completed", "failed"} /\ history < MaxHistory
    /\ branchRev' = branchRev + 1
    /\ chat' = [status |-> "running", input |-> branchRev + 1, error |-> "none"]
    /\ history' = history + 1
    /\ asks' = 0
    /\ UNCHANGED <<added, pointer, pins, view, request>>

\* Scheduler.steer: an input of its own revision.
AddMessage ==
    /\ chat.status = "running" /\ history + added < MaxHistory
    /\ added' = added + 1
    /\ UNCHANGED <<history, branchRev, chat, pointer, pins, view, request, asks>>

\* pin_context: a text joins the branch's pins, by compare-and-set.
EditPins ==
    /\ pins.rev < MaxPinEdits
    /\ \E text \in Pin : pins' = [rev |-> pins.rev + 1, items |-> pins.items \cup {text}]
    /\ UNCHANGED <<history, branchRev, chat, added, pointer, view, request, asks>>

------------------------------------------------------------------------------
\* compose()

\* before_model: the messages join the conversation, the run's input revision rises.
TakeIn ==
    /\ chat.status = "running" /\ view = NoView
    /\ history' = history + added
    /\ chat' = [chat EXCEPT !.input = @ + added]
    /\ added' = 0
    /\ view' = Ready
    /\ UNCHANGED <<branchRev, pointer, pins, request, asks>>

\* An exception of compose: the user is asked to choose a model and continue; the same
\* failure after that ends the run, and messages it did not take in with it.
Refuse(code) ==
    /\ asks' = asks + 1
    /\ IF asks < MaxAsks
       THEN view' = Ready /\ chat' = [chat EXCEPT !.error = code] /\ UNCHANGED added
       ELSE view' = NoView /\ added' = 0
            /\ chat' = [chat EXCEPT !.status = "failed", !.error = code]
    /\ UNCHANGED <<history, branchRev, pins, request>>

\* _pointer(): created or raised to the run's input revision; an older input is refused.
Superseded == pointer.rev > 0 /\ pointer.input > chat.input
Raised ==
    IF pointer.rev = 0 THEN [rev |-> 1, input |-> chat.input, summary |-> NoSummary]
    ELSE IF pointer.input < chat.input THEN [pointer EXCEPT !.rev = @ + 1, !.input = chat.input]
    ELSE pointer

Composing == chat.status = "running" /\ view.at = "ready"

ComposeStale ==
    /\ Composing /\ Superseded
    /\ Refuse("stale_context_input")
    /\ UNCHANGED pointer

\* A summary of turns that are not all of this conversation is left aside.
Usable(summary) == IF summary.covered \subseteq 1 .. history THEN summary ELSE NoSummary

\* The active summary stands for the turns it covers, images apart.
Working(summary) == (1 .. history) \ (summary.covered \ ImageTurn)

\* Pointer, pins and conversation are read together; attachments are awaited next.
ComposeReads ==
    /\ Composing /\ ~Superseded
    /\ pointer' = Raised
    /\ view' = [NoView EXCEPT !.at = "reading", !.pointerRev = Raised.rev, !.pinRev = pins.rev,
                              !.pins = pins.items, !.summary = Usable(pointer.summary),
                              !.turns = Working(Usable(pointer.summary))]
    /\ UNCHANGED <<history, branchRev, chat, added, pins, request, asks>>

\* All but the last RecentTurns of the view's turns may be summarised.
Older(turns) == {t \in turns : Cardinality({u \in turns : u > t}) >= RecentTurns}

MustCompact == Cardinality(view.turns) > SoftTurns /\ Older(view.turns) /= {}

\* compact() reads the pins and the pointer again before it awaits the summary model.
CompactReads ==
    /\ view.at = "reading" /\ MustCompact
    /\ pins.rev = view.pinRev /\ pointer.rev = view.pointerRev
    /\ view' = [view EXCEPT !.at = "summarizing", !.previous = pointer.summary]
    /\ UNCHANGED <<history, branchRev, chat, added, pointer, pins, request, asks>>

\* The pins changed already, the summary model failed, or its answer lost a constraint.
CompactFails ==
    /\ \/ view.at = "reading" /\ MustCompact /\ pins.rev /= view.pinRev
       \/ view.at = "summarizing"
    /\ Refuse("compaction_failed")
    /\ UNCHANGED pointer

\* A summary of the turns in view only.
NewSummaryAlone == [covered |-> Older(view.turns), constraints |-> view.pins]

\* What the previous summary covered and promised is carried on.
NewSummary ==
    [covered |-> view.previous.covered \cup Older(view.turns),
     constraints |-> view.previous.constraints \cup view.pins]

\* One transaction: neither pins nor pointer moved during the await.
Unmoved == pins.rev = view.pinRev /\ pointer.rev = view.pointerRev

\* compose() reads the pointer again behind it: the one just published, which no other run moves.
CompactPublishes ==
    /\ view.at = "summarizing" /\ Unmoved
    /\ pointer' = [rev |-> pointer.rev + 1, input |-> chat.input, summary |-> NewSummary]
    /\ view' = [view EXCEPT !.at = "fitting", !.summary = NewSummary,
                            !.turns = @ \ (Older(@) \ ImageTurn)]
    /\ UNCHANGED <<history, branchRev, chat, added, pins, request, asks>>

\* context_revision_conflict: the summary stays unused.
CompactConflicts ==
    /\ view.at = "summarizing" /\ ~Unmoved
    /\ Refuse("context_revision_conflict")
    /\ UNCHANGED pointer

Fit == view.at = "fitting" \/ (view.at = "reading" /\ ~MustCompact)

\* context_limit: nothing that is required is dropped to make a view fit.
ComposeTooLarge ==
    /\ Fit /\ Cardinality(view.turns) > HardTurns
    /\ Refuse("context_limit")
    /\ UNCHANGED pointer

\* The view is stored, bound, materialised and sent; a later change of the pins does not
\* undo the binding.
ViewSent ==
    /\ Fit /\ Cardinality(view.turns) <= HardTurns
    /\ request' = [turns |-> view.turns, summary |-> view.summary, pins |-> view.pins,
                   upto |-> history]
    /\ view' = [NoView EXCEPT !.at = "sent"]
    /\ UNCHANGED <<history, branchRev, chat, added, pointer, pins, asks>>

\* The answer asks for another call or ends the run; a message added meanwhile goes first.
ModelReplied ==
    /\ view.at = "sent"
    /\ view' = NoView
    /\ \/ chat' = [chat EXCEPT !.error = "none"]
       \/ added = 0 /\ chat' = [chat EXCEPT !.status = "completed"]
    /\ asks' = 0
    /\ UNCHANGED <<history, branchRev, added, pointer, pins, request>>

\* The worker dies; the next attempt goes on from the checkpoint before the model call.
ComposerDies ==
    /\ view.at \notin {"none", "ready"}
    /\ view' = Ready
    /\ UNCHANGED <<history, branchRev, chat, added, pointer, pins, request, asks>>

ContextInit ==
    /\ history = 0 /\ branchRev = 0 /\ added = 0 /\ asks = 0
    /\ chat = [status |-> "none", input |-> 0, error |-> "none"]
    /\ pointer = [rev |-> 0, input |-> 0, summary |-> NoSummary]
    /\ pins = [rev |-> 0, items |-> {}]
    /\ view = NoView
    /\ request = NoRequest

ContextNext ==
    \/ SubmitTurn \/ AddMessage \/ EditPins
    \/ TakeIn \/ ComposeStale \/ ComposeReads \/ ComposeTooLarge
    \/ CompactReads \/ CompactFails \/ CompactPublishes \/ CompactConflicts
    \/ ViewSent \/ ModelReplied \/ ComposerDies

ContextSpec == ContextInit /\ [][ContextNext]_cvars

------------------------------------------------------------------------------
\* Pointer, pins, views and requests keep their shapes (ContextService).
ContextTypeOK ==
    /\ history \in 0 .. MaxHistory /\ branchRev \in 0 .. MaxHistory /\ added \in 0 .. MaxHistory
    /\ asks \in 0 .. MaxAsks + 1
    /\ chat \in [status : {"none", "running", "completed", "failed"}, input : 0 .. MaxHistory,
                 error : {"none", "stale_context_input", "compaction_failed",
                          "context_revision_conflict", "context_limit"}]
    /\ pointer \in [rev : Nat, input : 0 .. MaxHistory, summary : Summary]
    /\ pins \in [rev : 0 .. MaxPinEdits, items : SUBSET Pin]
    /\ view \in [at : {"none", "ready", "reading", "summarizing", "fitting", "sent"}, pointerRev : Nat,
                 pinRev : 0 .. MaxPinEdits, pins : SUBSET Pin, turns : SUBSET Turn,
                 summary : Summary, previous : Summary]
    /\ request \in [turns : SUBSET Turn, summary : Summary, pins : SUBSET Pin, upto : 0 .. MaxHistory]

\* compose(), compact(): however often the conversation was compacted, every turn is sent
\* itself or covered by the summary sent with it, and a turn with an image is sent itself.
NothingDropped ==
    \A t \in 1 .. request.upto :
        t \in request.turns \/ (t \in request.summary.covered /\ t \notin ImageTurn)

\* _compact's transaction: a summary is published only when it holds every constraint pinned
\* at that moment and all its predecessor held, and never covers less.
SummaryKeeps ==
    [][pointer'.summary /= pointer.summary =>
          /\ pins.items \subseteq pointer'.summary.constraints
          /\ pointer.summary.constraints \subseteq pointer'.summary.constraints
          /\ pointer.summary.covered \subseteq pointer'.summary.covered]_cvars

\* _pointer's message says that a refused input "has been superseded": a newer input of the
\* run was admitted.
RefusedWasSuperseded ==
    chat.error = "stale_context_input" => pointer.input <= chat.input + added
=============================================================================
