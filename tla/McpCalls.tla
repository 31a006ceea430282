------------------------------- MODULE McpCalls -------------------------------
(***************************************************************************)
(* A remote MCP tool call under the Tool Gateway's ledger (mcp/gateway.py,  *)
(* mcp/adapter.py, mcp/continuation.py, tools/gateway.py): one exchange with *)
(* a server that may act without ever answering, and the rounds of one that  *)
(* asks the user for input, each a durable pause whose answer is sent back    *)
(* under the original grant.                                                  *)
(*                                                                           *)
(* The server and the network are external: a request sent may be heard late, *)
(* after the call was given up, or never, and a server that heard it may say  *)
(* nothing.  Policy, approval and the review of an unknown outcome belong to  *)
(* ToolAuthority and RunScheduler.                                            *)
(***************************************************************************)
EXTENDS Integers, FiniteSets

CONSTANTS
    McpCall,           \* bound: operations on MCP tools
    ReadOnly,          \* those the host's configuration declares "read"
    Elicits,           \* those run by DurableMcpExecutor with elicitation allowed
    MaxRounds,         \* bound: rounds of input (8 in the code)
    MaxMcpDeaths       \* bound: worker deaths

ASSUME McpAssumption ==
    ReadOnly \subseteq McpCall /\ Elicits \subseteq McpCall /\ MaxRounds \in Nat /\ MaxMcpDeaths \in Nat

VARIABLES
    op,                \* the operation's row: state, continuation, round and its form
    exchange,          \* the worker's coroutine
    sentIn,            \* how often each round's request was dispatched
    heard,             \* how often the server acted on it
    reply,             \* what it answered to the latest request
    answeredIn,        \* rounds it answered
    secret,            \* the vault: continuations by operation and round
    workerUp, mcpDeaths

xvars == <<op, exchange, sentIn, heard, reply, answeredIn, secret, workerUp, mcpDeaths>>

Round == 0 .. MaxRounds
Away == [at |-> "none", status |-> "none"]
Goes(c, at) == exchange' = [exchange EXCEPT ![c] = [at |-> at, status |-> "none"]]
Doing(c, at) == workerUp /\ exchange[c].at = at

\* Without the look at request_sent.
StatusAsNamed(c, kind, sent) ==
    CASE kind = "success" -> "succeeded"
      [] kind = "unknown_outcome" -> "unknown"
      [] kind = "cancelled" -> "cancelled"
      [] OTHER -> "failed"

\* outcome_to_tool_result
Status(c, kind, sent) ==
    IF kind = "success" THEN "succeeded"
    ELSE IF kind = "unknown_outcome" THEN "unknown"
    ELSE IF kind \in {"cancelled", "protocol_error"} /\ sent /\ c \notin ReadOnly THEN "unknown"
    ELSE IF kind = "cancelled" THEN "cancelled"
    ELSE "failed"

\* An exception that is no outcome: ToolGateway.execute, or _resume_protocol for a later round.
RaisedStatus(c) == IF c \in ReadOnly /\ op[c].round = 0 THEN "failed" ELSE "unknown"

EndedAs(c, status) == exchange' = [exchange EXCEPT ![c] = [at |-> "ended", status |-> status]]

\* The secret that a resumed exchange gives up when its result is certain.
SpentSecret(c, status) == IF op[c].cont = "sending" /\ status /= "unknown" THEN {<<c, op[c].round>>} ELSE {}

\* The result is known in memory, and certain entries of the vault go; if the vault fails to delete the
\* spent one, the exception leaves the outcome unknown.
EndsWithout(c, status, entries) ==
    \/ EndedAs(c, status) /\ secret' = secret \ (SpentSecret(c, status) \cup entries)
    \/ SpentSecret(c, status) /= {} /\ EndedAs(c, "unknown") /\ secret' = secret \ entries

Ends(c, status) == EndsWithout(c, status, {})

------------------------------------------------------------------------------
\* One exchange

\* The grant was consumed: the operation is running before anything is sent.
Authorised(c) ==
    /\ workerUp /\ op[c].state = "prepared"
    /\ op' = [op EXCEPT ![c].state = "running"]
    /\ Goes(c, "granted")
    /\ UNCHANGED <<sentIn, heard, reply, answeredIn, secret, workerUp, mcpDeaths>>

\* The ledger check, or a capability taken away: raised before the exchange begins.
NotValid(c) ==
    /\ Doing(c, "granted")
    /\ Ends(c, RaisedStatus(c))
    /\ UNCHANGED <<op, sentIn, heard, reply, answeredIn, workerUp, mcpDeaths>>

\* Every invocation discovers the catalog anew and compares the tool's schema.
Discovers(c) ==
    /\ Doing(c, "granted")
    /\ Goes(c, "discovered")
    /\ UNCHANGED <<op, sentIn, heard, reply, answeredIn, secret, workerUp, mcpDeaths>>

\* Nothing was sent: the transport, the deadline, the schema or a cancellation ends it.
EndsUnsent(c) ==
    /\ Doing(c, "granted") \/ Doing(c, "discovered")
    /\ \E kind \in {"transport_error", "timeout", "protocol_error", "cancelled"} :
          Ends(c, Status(c, kind, FALSE))
    /\ UNCHANGED <<op, sentIn, heard, reply, answeredIn, workerUp, mcpDeaths>>

\* sent is set before the SDK is called.
Sends(c) ==
    /\ Doing(c, "discovered")
    /\ Goes(c, "sent")
    /\ sentIn' = [sentIn EXCEPT ![c][op[c].round] = @ + 1]
    /\ reply' = [reply EXCEPT ![c] = "none"]
    /\ UNCHANGED <<op, heard, answeredIn, secret, workerUp, mcpDeaths>>

\* External: the request arrives; the server acts, and may answer.
ServerActs(c, r) ==
    /\ heard[c][r] < sentIn[c][r]
    /\ heard' = [heard EXCEPT ![c][r] = @ + 1]
    /\ \/ UNCHANGED <<reply, answeredIn>>
       \/ /\ exchange[c].at = "sent" /\ op[c].round = r
          /\ \E said \in {"success", "tool_error", "protocol_error", "input_required"} :
                /\ said = "input_required" => c \in Elicits
                /\ reply' = [reply EXCEPT ![c] = said]
          /\ answeredIn' = [answeredIn EXCEPT ![c] = @ \cup {r}]
    /\ UNCHANGED <<op, exchange, sentIn, secret, workerUp, mcpDeaths>>

Answered(c) ==
    /\ Doing(c, "sent") /\ reply[c] \in {"success", "tool_error", "protocol_error"}
    /\ Ends(c, Status(c, reply[c], TRUE))
    /\ UNCHANGED <<op, sentIn, heard, reply, answeredIn, workerUp, mcpDeaths>>

\* A timeout or a broken connection after the send, or cancel() (a CancelledError is an outcome).
Interrupted(c) ==
    /\ Doing(c, "sent")
    /\ \E kind \in {"unknown_outcome", "cancelled"} : Ends(c, Status(c, kind, TRUE))
    /\ UNCHANGED <<op, sentIn, heard, reply, answeredIn, workerUp, mcpDeaths>>

\* _finish, a transaction of its own; an unknown outcome waits for a review.
Finishes(c) ==
    /\ Doing(c, "ended")
    /\ op' = [op EXCEPT ![c].state = exchange[c].status]
    /\ exchange' = [exchange EXCEPT ![c] = Away]
    /\ UNCHANGED <<sentIn, heard, reply, answeredIn, secret, workerUp, mcpDeaths>>

------------------------------------------------------------------------------
\* Input asked by the server

\* A form too many, an unsupported one, or a transaction that failed: its secret is dropped, if the
\* vault does it.
CannotSuspend(c) ==
    /\ Doing(c, "saving") \/ (Doing(c, "sent") /\ reply[c] = "input_required")
    /\ \E entries \in SUBSET {<<c, op[c].round + 1>>} :
          EndsWithout(c, IF c \in ReadOnly THEN "failed" ELSE "unknown", entries)
    /\ UNCHANGED <<op, sentIn, heard, reply, answeredIn, workerUp, mcpDeaths>>

\* The request state goes to the vault before any row names it.
SavesSecret(c) ==
    /\ Doing(c, "sent") /\ reply[c] = "input_required" /\ op[c].round < MaxRounds
    /\ Goes(c, "saving")
    /\ secret' = secret \cup {<<c, op[c].round + 1>>}
    /\ UNCHANGED <<op, sentIn, heard, reply, answeredIn, workerUp, mcpDeaths>>

\* One transaction: the interaction and the continuation that names it and its secret.
Suspends(c) ==
    /\ Doing(c, "saving")
    /\ op' = [op EXCEPT ![c] = [state |-> "running", cont |-> "awaiting", round |-> @.round + 1, form |-> "open"]]
    /\ Goes(c, "suspended")
    /\ UNCHANGED <<sentIn, heard, reply, answeredIn, secret, workerUp, mcpDeaths>>

\* The secret of the round before; the executor returns a ToolWait.  If the vault fails to delete it, the
\* call ends as one that cannot be suspended, though the row says it is; for a read the deletion is tried
\* once more.
DropsOld(c) ==
    /\ Doing(c, "suspended")
    /\ LET old == {<<c, op[c].round - 1>>} IN
       \/ exchange' = [exchange EXCEPT ![c] = Away] /\ secret' = secret \ old
       \/ op[c].round > 1 /\ EndedAs(c, "unknown") /\ UNCHANGED secret
       \/ op[c].round > 1 /\ c \in ReadOnly /\ EndedAs(c, "failed") /\ secret' = secret \ old
    /\ UNCHANGED <<op, sentIn, heard, reply, answeredIn, workerUp, mcpDeaths>>

\* The user answers, or the form expires and the server is told "cancel".
FormCloses(c) ==
    /\ op[c].form = "open"
    /\ op' = [op EXCEPT ![c].form = "closed"]
    /\ UNCHANGED <<exchange, sentIn, heard, reply, answeredIn, secret, workerUp, mcpDeaths>>

\* The node is replayed: anything that changed meanwhile leaves the operation unknown.
ResumeStale(c) ==
    /\ Doing(c, "none") /\ op[c].state = "running" /\ op[c].cont = "awaiting"
    /\ Ends(c, "unknown")
    /\ UNCHANGED <<op, sentIn, heard, reply, answeredIn, workerUp, mcpDeaths>>

\* The continuation stays as it was until the answer has arrived.
ResumesCallUnmarked(c) ==
    /\ Doing(c, "none") /\ op[c].state = "running" /\ op[c].cont = "awaiting" /\ op[c].form = "closed"
    /\ <<c, op[c].round>> \in secret
    /\ Goes(c, "granted")
    /\ UNCHANGED <<op, sentIn, heard, reply, answeredIn, secret, workerUp, mcpDeaths>>

\* responses(): the continuation is "sending" before the answer is sent.
ResumesCall(c) ==
    /\ Doing(c, "none") /\ op[c].state = "running" /\ op[c].cont = "awaiting" /\ op[c].form = "closed"
    /\ <<c, op[c].round>> \in secret
    /\ op' = [op EXCEPT ![c].cont = "sending"]
    /\ Goes(c, "granted")
    /\ UNCHANGED <<sentIn, heard, reply, answeredIn, secret, workerUp, mcpDeaths>>

------------------------------------------------------------------------------
\* The worker dies; every coroutine with it, and a reply nobody waits for.
McpWorkerDies ==
    /\ workerUp /\ mcpDeaths < MaxMcpDeaths
    /\ workerUp' = FALSE /\ mcpDeaths' = mcpDeaths + 1
    /\ exchange' = [c \in McpCall |-> Away]
    /\ UNCHANGED <<op, sentIn, heard, reply, answeredIn, secret>>

\* Scheduler.recover: a saved exchange awaiting its form goes on, a read starts afresh.
McpRecovers ==
    /\ ~workerUp /\ workerUp' = TRUE
    /\ op' = [c \in McpCall |->
                IF op[c].state /= "running" \/ op[c].cont = "awaiting" THEN op[c]
                ELSE IF op[c].cont = "none" /\ c \in ReadOnly THEN [op[c] EXCEPT !.state = "prepared"]
                ELSE [op[c] EXCEPT !.state = "unknown"]]
    /\ UNCHANGED <<exchange, sentIn, heard, reply, answeredIn, secret, mcpDeaths>>

McpInit ==
    /\ op = [c \in McpCall |-> [state |-> "prepared", cont |-> "none", round |-> 0, form |-> "none"]]
    /\ exchange = [c \in McpCall |-> Away]
    /\ sentIn = [c \in McpCall |-> [r \in Round |-> 0]]
    /\ heard = [c \in McpCall |-> [r \in Round |-> 0]]
    /\ reply = [c \in McpCall |-> "none"]
    /\ answeredIn = [c \in McpCall |-> {}]
    /\ secret = {}
    /\ workerUp = TRUE /\ mcpDeaths = 0

McpNext ==
    \/ \E c \in McpCall :
          \/ Authorised(c) \/ NotValid(c) \/ Discovers(c) \/ EndsUnsent(c) \/ Sends(c)
          \/ Answered(c) \/ Interrupted(c) \/ Finishes(c)
          \/ CannotSuspend(c) \/ SavesSecret(c) \/ Suspends(c) \/ DropsOld(c)
          \/ FormCloses(c) \/ ResumeStale(c) \/ ResumesCall(c)
          \/ \E r \in Round : ServerActs(c, r)
    \/ McpWorkerDies \/ McpRecovers

McpSpec == McpInit /\ [][McpNext]_xvars

------------------------------------------------------------------------------
\* Rows, coroutines and the vault keep their shapes.
McpTypeOK ==
    /\ op \in [McpCall -> [state : {"prepared", "running", "succeeded", "failed", "cancelled", "unknown"},
                           cont : {"none", "awaiting", "sending"}, round : Round,
                           form : {"none", "open", "closed"}]]
    /\ exchange \in [McpCall -> [at : {"none", "granted", "discovered", "sent", "saving", "suspended", "ended"},
                                 status : {"none", "succeeded", "failed", "cancelled", "unknown"}]]
    /\ sentIn \in [McpCall -> [Round -> Nat]] /\ heard \in [McpCall -> [Round -> Nat]]
    /\ answeredIn \in [McpCall -> SUBSET Round]
    /\ reply \in [McpCall -> {"none", "success", "tool_error", "protocol_error", "input_required"}]
    /\ secret \subseteq McpCall \X (1 .. MaxRounds)
    /\ workerUp \in BOOLEAN /\ mcpDeaths \in 0 .. MaxMcpDeaths

\* outcome_to_tool_result, ToolGateway.execute and recover: a call with effects that the ledger
\* says failed or was cancelled left no request the server may still act on, unseen; one that
\* succeeded was answered so; and no round's request is sent twice, whatever died in between.
OutcomeKnown ==
    \A c \in McpCall \ ReadOnly :
        /\ op[c].state \in {"failed", "cancelled", "succeeded"} =>
               \A r \in Round : sentIn[c][r] > 0 => r \in answeredIn[c]
        /\ op[c].state = "succeeded" => reply[c] = "success"
        /\ \A r \in Round : sentIn[c][r] <= 1

\* suspend() and responses(): a durable pause keeps the secret its answer has to be sent with.
SecretKept == \A c \in McpCall : op[c].state = "running" /\ op[c].cont = "awaiting" =>
                  <<c, op[c].round>> \in secret

\* A remote call is never recorded as less than it may have done, and its pause can be resumed.
McpOutcomeTrue == OutcomeKnown /\ SecretKept
===============================================================================
