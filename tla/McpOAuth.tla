------------------------------- MODULE McpOAuth -------------------------------
(***************************************************************************)
(* One browser authorization of an MCP server (mcp/authorization.py and      *)
(* Services.oauth_callback): a flow bound to the revision of the server's     *)
(* row, a callback that the browser may deliver more than once, a code that    *)
(* can be exchanged once, and a row that other configuration replaces meanwhile. *)
(***************************************************************************)
EXTENDS Integers

CONSTANTS
    Callback,          \* bound: deliveries of the callback
    MaxRowChanges,     \* bound: publications that change the row
    MaxExchangerDeaths \* bound: deaths of the API process

ASSUME OAuthAssumption == MaxRowChanges \in Nat /\ MaxExchangerDeaths \in Nat

VARIABLES
    row,               \* config/mcp of the server: its revision, and whether it names the authorization
    flow,              \* oauth_authorizations, found by the hash of its state
    callback,          \* where each delivery is
    exchanges,         \* codes sent to the token endpoint
    rowChanges, exchangerDeaths

ovars == <<row, flow, callback, exchanges, rowChanges, exchangerDeaths>>


\* authorize(): after discovery and registration, a flow bound to the row's revision.
Authorizes ==
    /\ flow.status = "none"
    /\ flow' = [status |-> "pending", revision |-> row.revision]
    /\ UNCHANGED <<row, callback, exchanges, rowChanges, exchangerDeaths>>

\* callback(): pending, not expired, and of the row's present revision (its awaits follow).
CallbackReads(k) ==
    /\ callback[k] = "none" /\ flow.status /= "none"
    /\ callback' = [callback EXCEPT ![k] =
          IF flow.status = "pending" /\ flow.revision = row.revision THEN "read" ELSE "refused"]
    /\ UNCHANGED <<row, flow, exchanges, rowChanges, exchangerDeaths>>

\* The user declined, or the time is up.
FlowEnds ==
    /\ flow.status = "pending"
    /\ flow' = [flow EXCEPT !.status = "denied"]
    /\ UNCHANGED <<row, callback, exchanges, rowChanges, exchangerDeaths>>

\* Without the comparison of the flow's revision.
ClaimsUnchecked(k) ==
    /\ callback[k] = "read"
    /\ flow' = [flow EXCEPT !.status = "exchanging"]
    /\ callback' = [callback EXCEPT ![k] = "exchanging"]
    /\ exchanges' = exchanges + 1
    /\ UNCHANGED <<row, rowChanges, exchangerDeaths>>

\* compare_and_set to exchanging, then the token request.
Claims(k) ==
    /\ callback[k] = "read"
    /\ IF flow.status = "pending"
       THEN /\ flow' = [flow EXCEPT !.status = "exchanging"]
            /\ callback' = [callback EXCEPT ![k] = "exchanging"]
            /\ exchanges' = exchanges + 1
       ELSE /\ callback' = [callback EXCEPT ![k] = "refused"] /\ UNCHANGED <<flow, exchanges>>
    /\ UNCHANGED <<row, rowChanges, exchangerDeaths>>

\* The tokens are stored and the flow is authorized, or it has to be made again.
Exchanged(k) ==
    /\ callback[k] = "exchanging"
    /\ \/ flow' = [flow EXCEPT !.status = "authorized"] /\ callback' = [callback EXCEPT ![k] = "exchanged"]
       \/ flow' = [flow EXCEPT !.status = "failed"] /\ callback' = [callback EXCEPT ![k] = "refused"]
    /\ UNCHANGED <<row, exchanges, rowChanges, exchangerDeaths>>

\* oauth_callback, in a transaction: the row, whatever it is by now, names the authorization.
RowAuthorized(k) ==
    /\ callback[k] = "exchanged"
    /\ row' = [row EXCEPT !.authorized = TRUE, !.revision = @ + 1]
    /\ callback' = [callback EXCEPT ![k] = "done"]
    /\ UNCHANGED <<flow, exchanges, rowChanges, exchangerDeaths>>

------------------------------------------------------------------------------
\* Another publication of the configuration file: a new revision, and a row the file does not
\* mark as authorized.
RowReplaced ==
    /\ rowChanges < MaxRowChanges /\ rowChanges' = rowChanges + 1
    /\ row' = [authorized |-> FALSE, revision |-> row.revision + 1]
    /\ UNCHANGED <<flow, callback, exchanges, exchangerDeaths>>

\* Callbacks under way die with the process; a flow being exchanged stays so, and cannot be used.
ExchangerDies ==
    /\ exchangerDeaths < MaxExchangerDeaths /\ exchangerDeaths' = exchangerDeaths + 1
    /\ callback' = [k \in Callback |-> IF callback[k] = "none" THEN "none" ELSE "refused"]
    /\ UNCHANGED <<row, flow, exchanges, rowChanges>>

OAuthInit ==
    /\ row = [authorized |-> FALSE, revision |-> 1]
    /\ flow = [status |-> "none", revision |-> 0]
    /\ callback = [k \in Callback |-> "none"]
    /\ exchanges = 0 /\ rowChanges = 0 /\ exchangerDeaths = 0

OAuthNext ==
    \/ Authorizes \/ FlowEnds \/ RowReplaced \/ ExchangerDies
    \/ \E k \in Callback : CallbackReads(k) \/ Claims(k) \/ Exchanged(k) \/ RowAuthorized(k)

OAuthSpec == OAuthInit /\ [][OAuthNext]_ovars

------------------------------------------------------------------------------
\* Row, flow and deliveries keep their shapes.
OAuthTypeOK ==
    /\ row \in [authorized : BOOLEAN, revision : Nat]
    /\ flow \in [status : {"none", "pending", "exchanging", "authorized", "failed", "denied"}, revision : Nat]
    /\ callback \in [Callback -> {"none", "read", "exchanging", "exchanged", "refused", "done"}]
    /\ exchanges \in Nat /\ rowChanges \in 0 .. MaxRowChanges
    /\ exchangerDeaths \in 0 .. MaxExchangerDeaths

\* callback(): however often it is delivered, and whatever dies, a code is exchanged once; and the
\* row is marked only after the exchange succeeded.
CodeSpentOnce ==
    /\ exchanges <= 1
    /\ row.authorized => flow.status = "authorized"
===============================================================================
