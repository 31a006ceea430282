------------------------------ MODULE ApiCommands ------------------------------
(***************************************************************************)
(* Business writes of the HTTP API (server/composition.py, mutate): a       *)
(* command carries an idempotency key, its row in api_commands is looked up *)
(* under a lock of that key, and the same key never runs its work twice.    *)
(*                                                                         *)
(* The work of most routes is one transaction, saved together with its      *)
(* answer.  The others await (a provider, a file, a checkpoint fork): their *)
(* row is pending, marked with the process, until the answer is saved in a  *)
(* transaction after the one the work ended with.  The process may die or   *)
(* the request be cancelled anywhere in between.                            *)
(***************************************************************************)
EXTENDS Integers, FiniteSets

CONSTANTS
    ApiKey,            \* idempotency keys
    AsyncKey,          \* the keys sent to a route whose work awaits
    Body,              \* request bodies
    Request,           \* bound: HTTP requests, retries included
    MaxRestarts        \* bound: deaths of the API process

ASSUME ApiAssumption ==
    /\ ApiKey /= {} /\ Body /= {} /\ AsyncKey \subseteq ApiKey
    /\ MaxRestarts \in Nat

VARIABLES
    apiRows,           \* table api_commands, by key
    locked,            \* keys whose lock a request holds
    req,               \* the requests
    worked,            \* transactions in which a key's work took effect
    server,            \* the API process: counts its starts
    apiPaused          \* record system/maintenance

avars == <<apiRows, locked, req, worked, server, apiPaused>>

NoRow == [state |-> "none", body |-> CHOOSE b \in Body : TRUE, by |-> 0]
Outcome == {"ok", "failed", "refused", "conflict", "in_progress", "interrupted", "cut"}
NewRequest == [key |-> CHOOSE k \in ApiKey : TRUE, body |-> CHOOSE b \in Body : TRUE,
               at |-> "new", answer |-> "none"]

Sent(r, k, b) ==
    /\ req[r].at = "new"
    /\ req' = [req EXCEPT ![r] = [key |-> k, body |-> b, at |-> "waiting", answer |-> "none"]]
    /\ UNCHANGED <<apiRows, locked, worked, server, apiPaused>>

------------------------------------------------------------------------------
\* The transaction under the key's lock

Reply(r, answer) == req' = [req EXCEPT ![r].at = "over", ![r].answer = answer]
Row(r) == apiRows[req[r].key]
Entering(r) == req[r].at = "waiting" /\ req[r].key \notin locked

\* What a saved row answers; a pending row of a process that died stays so for ever.
Saved(r) ==
    IF Row(r).body /= req[r].body THEN "conflict"
    ELSE IF Row(r).state = "pending" THEN IF Row(r).by = server THEN "in_progress" ELSE "interrupted"
    ELSE Row(r).state

AnsweredFromRow(r) ==
    /\ Entering(r) /\ Row(r).state /= "none"
    /\ Reply(r, Saved(r))
    /\ UNCHANGED <<apiRows, locked, worked, server, apiPaused>>

\* A row left by a process that died taken for no row.
FreshOrInterrupted(r) ==
    Entering(r) /\ (Row(r).state = "none" \/ (Row(r).state = "pending" /\ Row(r).by /= server))

Fresh(r) == Entering(r) /\ Row(r).state = "none"

\* No row is written for a command refused in maintenance.
RefusedInMaintenance(r) ==
    /\ Fresh(r) /\ apiPaused
    /\ Reply(r, "refused")
    /\ UNCHANGED <<apiRows, locked, worked, server, apiPaused>>

Put(r, state) == apiRows' = [apiRows EXCEPT ![req[r].key] = [state |-> state, body |-> req[r].body, by |-> server]]

\* The work and its answer in one transaction, which an exception rolls back whole.
RunsInTransaction(r) ==
    /\ Fresh(r) /\ ~apiPaused /\ req[r].key \notin AsyncKey
    /\ \/ /\ Put(r, "ok") /\ worked' = [worked EXCEPT ![req[r].key] = @ + 1]
          /\ Reply(r, "ok")
       \/ Reply(r, "failed") /\ UNCHANGED <<apiRows, worked>>
    /\ UNCHANGED <<locked, server, apiPaused>>

BeginsAwaiting(r) ==
    /\ Fresh(r) /\ ~apiPaused /\ req[r].key \in AsyncKey
    /\ Put(r, "pending")
    /\ locked' = locked \cup {req[r].key}
    /\ req' = [req EXCEPT ![r].at = "working"]
    /\ UNCHANGED <<worked, server, apiPaused>>

------------------------------------------------------------------------------
\* The awaited work, after the first transaction

\* The work's own transaction; afterwards it may still fail.
TakesEffect(r) ==
    /\ req[r].at = "working"
    /\ worked' = [worked EXCEPT ![req[r].key] = @ + 1]
    /\ req' = [req EXCEPT ![r].at = "worked"]
    /\ UNCHANGED <<apiRows, locked, server, apiPaused>>

Unlock(r) == locked' = locked \ {req[r].key}

\* A failure answered without being saved.
CompletesUnsaved(r) ==
    /\ req[r].at \in {"working", "worked"}
    /\ \E answer \in {"failed"} \cup (IF req[r].at = "worked" THEN {"ok"} ELSE {}) :
         /\ IF answer = "ok" THEN Put(r, answer)
            ELSE apiRows' = [apiRows EXCEPT ![req[r].key] = NoRow]
         /\ Reply(r, answer)
    /\ Unlock(r)
    /\ UNCHANGED <<worked, server, apiPaused>>

\* complete_api_command with the result, or with the error an exception became.
Completes(r) ==
    /\ req[r].at \in {"working", "worked"}
    /\ \E answer \in {"failed"} \cup (IF req[r].at = "worked" THEN {"ok"} ELSE {}) :
         Put(r, answer) /\ Reply(r, answer)
    /\ Unlock(r)
    /\ UNCHANGED <<worked, server, apiPaused>>

\* CancelledError is no Exception: the row stays pending, the lock is released.
RequestCancelled(r) ==
    /\ req[r].at \in {"working", "worked"}
    /\ Reply(r, "cut") /\ Unlock(r)
    /\ UNCHANGED <<apiRows, worked, server, apiPaused>>

\* Every open request is cut and the locks are gone.
ServerRestarts ==
    /\ server <= MaxRestarts
    /\ server' = server + 1
    /\ req' = [r \in Request |-> IF req[r].at \in {"new", "over"} THEN req[r]
                                 ELSE [req[r] EXCEPT !.at = "over", !.answer = "cut"]]
    /\ locked' = {}
    /\ UNCHANGED <<apiRows, worked, apiPaused>>

MaintenanceSwitched ==
    /\ apiPaused' = ~apiPaused
    /\ UNCHANGED <<apiRows, locked, req, worked, server>>

ApiInit ==
    /\ apiRows = [k \in ApiKey |-> NoRow] /\ locked = {}
    /\ req = [r \in Request |-> NewRequest]
    /\ worked = [k \in ApiKey |-> 0]
    /\ server = 1 /\ apiPaused = FALSE

ApiNext ==
    \/ \E r \in Request :
         \/ \E k \in ApiKey, b \in Body : Sent(r, k, b)
         \/ AnsweredFromRow(r) \/ RefusedInMaintenance(r) \/ RunsInTransaction(r)
         \/ BeginsAwaiting(r) \/ TakesEffect(r) \/ Completes(r) \/ RequestCancelled(r)
    \/ ServerRestarts \/ MaintenanceSwitched

ApiSpec == ApiInit /\ [][ApiNext]_avars

------------------------------------------------------------------------------
\* Rows and requests keep their shapes (Store.api_command).
ApiTypeOK ==
    /\ apiRows \in [ApiKey -> [state : {"none", "pending", "ok", "failed"}, body : Body, by : Nat]]
    /\ locked \subseteq AsyncKey
    /\ req \in [Request -> [key : ApiKey, body : Body, at : {"new", "waiting", "working", "worked", "over"},
                            answer : Outcome \cup {"none"}]]
    /\ worked \in [ApiKey -> Nat]
    /\ server \in 1 .. MaxRestarts + 1 /\ apiPaused \in BOOLEAN

\* mutate(): retried, cancelled or cut by a restart, a key's work takes effect at most once,
\* only for a request with the body its row holds.
OncePerKey == \A k \in ApiKey : worked[k] <= 1 /\ (worked[k] = 1 => apiRows[k].state /= "none")

\* mutate(): what an answer tells is so. Done means the work took effect; interrupted means
\* nobody is at work on it any more; no two requests are told different outcomes.
AnswersTrue ==
    \A r \in Request :
        LET k == req[r].key
        IN  /\ req[r].answer = "ok" => worked[k] = 1 /\ apiRows[k].state = "ok"
            /\ req[r].answer = "interrupted" =>
                   \A o \in Request : req[o].key = k => req[o].at \notin {"working", "worked"}
            /\ (req[r].answer = "failed" /\ k \in AsyncKey) => apiRows[k].state = "failed"

\* app.mutate and Services.mutate: a command repeated, cancelled or cut by a restart takes effect
\* once, and every answer it gets is so.
CommandsExact == OncePerKey /\ AnswersTrue
=============================================================================
