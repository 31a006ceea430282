----------------------------- MODULE RunPromise -----------------------------
(***************************************************************************)
(* What the scheduler (harness/scheduler/service.py) promises of the runs   *)
(* users submit and tasks delegate, without workers, leases, attempts,      *)
(* pauses, reviews or recovery: a run is queued, then active, then ends      *)
(* once; one run at a time is active in a conversation; a stop takes the     *)
(* whole tree below it; nobody delegates for a stopped or ended run; and no  *)
(* run is answered before what it delegated has ended.                       *)
(*                                                                         *)
(* RunScheduler implements this specification: see Promise there.           *)
(***************************************************************************)
CONSTANTS Run, NoRun, Branch

VARIABLES
    phase,             \* what a user sees of a run
    parent,            \* who delegated it
    branch,            \* the conversation it continues
    stopped            \* whether it was told to stop

promiseVars == <<phase, parent, branch, stopped>>

Ended   == {"completed", "failed", "cancelled"}
Live(r) == phase[r] \in {"queued", "active"}

\* Everything r delegated, directly or not, has ended, apart from the runs of S.
Alone(r, S) == \A c \in Run : parent[c] = r => phase[c] \in Ended \/ c \in S

\* The tree below u.
Below(u) ==
    {d \in Run : \A S \in SUBSET Run :
        (u \in S /\ \A c \in Run : parent[c] \in S => c \in S) => d \in S}

------------------------------------------------------------------------------
\* A user adds a run to a conversation.
Submitted(r, b) ==
    /\ phase[r] = "none"
    /\ phase' = [phase EXCEPT ![r] = "queued"]
    /\ parent' = [parent EXCEPT ![r] = NoRun]
    /\ branch' = [branch EXCEPT ![r] = b]
    /\ UNCHANGED stopped

\* An active run that was not stopped delegates, to a conversation of its own.
Delegated(c, r, b) ==
    /\ phase[c] = "none" /\ phase[r] = "active" /\ ~stopped[r]
    /\ \A q \in Run : phase[q] /= "none" => branch[q] /= b
    /\ phase' = [phase EXCEPT ![c] = "queued"]
    /\ parent' = [parent EXCEPT ![c] = r]
    /\ branch' = [branch EXCEPT ![c] = b]
    /\ UNCHANGED stopped

\* A run becomes active when no other is active in its conversation.
Begins(r) ==
    /\ phase[r] = "queued" /\ ~stopped[r]
    /\ \A q \in Run : phase[q] = "active" => branch[q] /= branch[r]
    /\ phase' = [phase EXCEPT ![r] = "active"]
    /\ UNCHANGED <<parent, branch, stopped>>

\* A user stops a tree: all that is live in it is told, and some of it ends at once.
Stops(u, now) ==
    LET told == {d \in Below(u) : Live(d)} IN
    /\ now \subseteq told
    /\ stopped' = [r \in Run |-> stopped[r] \/ r \in told]
    /\ phase' = [r \in Run |-> IF r \in now THEN "cancelled" ELSE phase[r]]
    /\ UNCHANGED <<parent, branch>>

\* A user stops one run by accepting that nobody knows what it did.
GivenUp(r) ==
    /\ Live(r) /\ ~stopped[r]
    /\ stopped' = [stopped EXCEPT ![r] = TRUE]
    /\ UNCHANGED <<phase, parent, branch>>

\* Stopped runs end, none before what it delegated.
Closes(S) ==
    /\ \A r \in S : Live(r) /\ stopped[r] /\ Alone(r, S)
    /\ phase' = [r \in Run |-> IF r \in S THEN "cancelled" ELSE phase[r]]
    /\ UNCHANGED <<parent, branch, stopped>>

Answers(r) ==
    /\ phase[r] = "active" /\ ~stopped[r] /\ Alone(r, {})
    /\ phase' = [phase EXCEPT ![r] = "completed"]
    /\ UNCHANGED <<parent, branch, stopped>>

Fails(r) ==
    /\ phase[r] = "active" /\ ~stopped[r]
    /\ phase' = [phase EXCEPT ![r] = "failed"]
    /\ UNCHANGED <<parent, branch, stopped>>

Init ==
    /\ phase = [r \in Run |-> "none"]
    /\ parent = [r \in Run |-> NoRun]
    /\ branch \in [Run -> Branch]
    /\ stopped = [r \in Run |-> FALSE]

Next ==
    \/ \E r \in Run, b \in Branch : Submitted(r, b)
    \/ \E c, r \in Run, b \in Branch : Delegated(c, r, b)
    \/ \E u \in Run : \E now \in SUBSET Run : Stops(u, now)
    \/ \E S \in SUBSET Run : Closes(S)
    \/ \E r \in Run : Begins(r) \/ GivenUp(r) \/ Answers(r) \/ Fails(r)

Spec == Init /\ [][Next]_promiseVars

------------------------------------------------------------------------------
\* transition(): an answered run has nothing unfinished below it, and gets nothing more.
AnsweredAlone == \A r \in Run : phase[r] = "completed" => Alone(r, {})
=============================================================================
