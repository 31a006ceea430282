----------------------------- MODULE BudgetLedger -----------------------------
(***************************************************************************)
(* What a tree of runs may spend: harness/storage/store.py keeps one budget *)
(* account per root run and a row per reservation; model calls go through   *)
(* scheduler/budget.py and the retry loop of model_gateway/gateway.py, tool *)
(* calls through tools/gateway.py, children through scheduler/service.py.   *)
(*                                                                         *)
(* A reservation is made before the request leaves and settled after it     *)
(* ended, in two transactions, by a worker process that may die in between. *)
(* A model call also holds one of Concurrency permits, shared by all        *)
(* processes, which counts only while the process that took it lives.       *)
(*                                                                         *)
(* A dead worker's tasks go on as new calls of other processes; which tasks *)
(* those are is RunScheduler's.  A permit poll (every 50 ms) that finds no  *)
(* room changes nothing and is left out.                                    *)
(***************************************************************************)
EXTENDS Integers, FiniteSets

CONSTANTS
    BudgetProc,        \* worker processes
    NoBudgetProc,      \* no process
    Call,              \* logical model calls, each of at most MaxAttempts attempts
    ToolOp,            \* tool operations that reserve when they start running
    PausingOp,         \* request_input and wait_children: they reserve, then may pause
    MaxAttempts,       \* ModelGateway.max_attempts
    Concurrency,       \* permits: model calls on the wire at once
    Estimate,          \* tokens reserved for an attempt: estimated input and output
    Reports,           \* bound: the token counts a provider may report
    Limits,            \* the account's limits, by dimension
    BudgetCrash,       \* bound: the worker processes that may die
    MaxLostStarts      \* bound: attempts whose started event cannot be recorded

Dim == {"model_calls", "total_tokens", "tool_calls", "children"}

ASSUME BudgetAssumption ==
    /\ MaxAttempts \in Nat \ {0} /\ Concurrency \in Nat \ {0}
    /\ Estimate \in Nat /\ Reports \subseteq Nat /\ MaxLostStarts \in Nat
    /\ Limits \in [Dim -> Nat]
    /\ NoBudgetProc \notin BudgetProc
    /\ PausingOp \cap ToolOp = {}
    \* keys: "model:" and an attempt, "tool:" and an operation
    /\ (Call \X (1 .. MaxAttempts)) \cap (ToolOp \cup PausingOp) = {}

VARIABLES
    reserved,          \* budget_accounts.reserved, by dimension
    consumed,          \* budget_accounts.consumed
    resv,              \* table budget_reservations: state and actual amount, by key
    permits,           \* namespace model_permits: the attempts that hold one
    call,              \* the gateway's loop of each logical call
    tool,              \* the ledger row of each operation and the task inside it
    budgetAlive,       \* worker processes that have not died
    lostStarts         \* attempts whose started event could not be recorded

bvars == <<reserved, consumed, resv, permits, call, tool, budgetAlive, lostStarts>>

Attempt == Call \X (1 .. MaxAttempts)
Op == ToolOp \cup PausingOp
Key == Attempt \cup Op

Nothing == [d \in Dim |-> 0]
Tokens(n) == [Nothing EXCEPT !["model_calls"] = 1, !["total_tokens"] = n]
OneTool == [Nothing EXCEPT !["tool_calls"] = 1]
OneChild == [Nothing EXCEPT !["children"] = 1]

\* The amount a key reserves never changes, so a repeated reserve never conflicts.
Amount(k) == IF k \in Op THEN OneTool ELSE Tokens(Estimate)

Unknown == -1          \* usage the provider did not report

------------------------------------------------------------------------------
\* Store.reserve and Store.settle

\* An account that forgets what was spent already.
FitsReservedOnly(amount) == \A d \in Dim : reserved[d] + amount[d] <= Limits[d]

Fits(amount) == \A d \in Dim : reserved[d] + consumed[d] + amount[d] <= Limits[d]

Plus(f, g) == [d \in Dim |-> f[d] + g[d]]
Minus(f, g) == [d \in Dim |-> f[d] - g[d]]

\* A key already reserved is answered from its row; a new one must fit.
MayReserve(k) == resv[k].state /= "none" \/ Fits(Amount(k))

Reserve(k) ==
    IF resv[k].state /= "none"
    THEN UNCHANGED <<reserved, resv>>
    ELSE /\ reserved' = Plus(reserved, Amount(k))
         /\ resv' = [resv EXCEPT ![k].state = "reserved"]

Exceeds(k, actual) == \E d \in Dim : actual[d] > Amount(k)[d]

\* Known usage within the reservation moves it to consumed.
SettleKnown(k, actual) ==
    IF resv[k].state = "settled" \/ Exceeds(k, actual)
    THEN UNCHANGED <<reserved, consumed, resv>>
    ELSE /\ reserved' = Minus(reserved, Amount(k))
         /\ consumed' = Plus(consumed, actual)
         /\ resv' = [resv EXCEPT ![k] = [state |-> "settled", actual |-> actual]]

\* Unknown usage taken for none: the reservation is released.
SettleUnknownReleases(k) ==
    /\ reserved' = Minus(reserved, Amount(k))
    /\ resv' = [resv EXCEPT ![k] = [state |-> "settled", actual |-> Nothing]]
    /\ UNCHANGED consumed

\* Unknown usage keeps the reservation in the account.
SettleUnknown(k) ==
    /\ IF resv[k].state = "settled" THEN UNCHANGED resv
       ELSE resv' = [resv EXCEPT ![k].state = "unknown"]
    /\ UNCHANGED <<reserved, consumed>>

------------------------------------------------------------------------------
\* The retry loop of a model call

\* ModelBudgetAdapter._live: a permit counts while its process runs.
LivePermits == {k \in permits : call[k[1]].by \in budgetAlive}

RoomForCall == Cardinality(LivePermits) < Concurrency

Running(c) == call[c].by \in budgetAlive
At(c, pc) == Running(c) /\ call[c].pc = pc
This(c) == <<c, call[c].attempt>>
Goto(c, pc) == call' = [call EXCEPT ![c].pc = pc]

CallBegins(c, p) ==
    /\ call[c].pc = "new" /\ p \in budgetAlive
    /\ call' = [call EXCEPT ![c] = [@ EXCEPT !.pc = "asking", !.by = p, !.attempt = 1]]
    /\ UNCHANGED <<reserved, consumed, resv, permits, tool, budgetAlive, lostStarts>>

\* One transaction: a permit is free, the amount fits, both rows are written.
CallReserves(c) ==
    /\ At(c, "asking") /\ RoomForCall /\ MayReserve(This(c))
    /\ Reserve(This(c))
    /\ permits' = permits \cup {This(c)}
    /\ Goto(c, "starting")
    /\ UNCHANGED <<consumed, tool, budgetAlive, lostStarts>>

\* With a permit free but no budget left, reserve raises BUDGET_EXHAUSTED.
CallExhausted(c) ==
    /\ At(c, "asking") /\ RoomForCall /\ ~MayReserve(This(c))
    /\ Goto(c, "over")
    /\ UNCHANGED <<reserved, consumed, resv, permits, tool, budgetAlive, lostStarts>>

\* A boundary check (lease lost, run cancelled), a policy check or the deadline.
CallRefused(c) ==
    /\ At(c, "asking")
    /\ Goto(c, "over")
    /\ UNCHANGED <<reserved, consumed, resv, permits, tool, budgetAlive, lostStarts>>

CallStarts(c) ==
    /\ At(c, "starting")
    /\ call' = [call EXCEPT ![c].pc = "wire", ![c].sent = @ \cup {call[c].attempt}]
    /\ UNCHANGED <<reserved, consumed, resv, permits, tool, budgetAlive, lostStarts>>

\* The started event cannot be written: the exception leaves _call before its try.
CallStartLost(c) ==
    /\ At(c, "starting") /\ lostStarts < MaxLostStarts
    /\ lostStarts' = lostStarts + 1
    /\ call' = [call EXCEPT ![c].pc = "over", ![c].left = "lost"]
    /\ UNCHANGED <<reserved, consumed, resv, permits, tool, budgetAlive>>

\* The attempt ends: a turn with or without provider usage, or a failure.
CallAnswered(c) ==
    /\ At(c, "wire")
    /\ \E used \in {Unknown} \cup Reports :
         call' = [call EXCEPT ![c].pc = "settling", ![c].used = used, ![c].then = "over"]
    /\ UNCHANGED <<reserved, consumed, resv, permits, tool, budgetAlive, lostStarts>>

\* A loop that goes round once too often.
CallFailedOnceMore(c) ==
    /\ At(c, "wire")
    /\ call' = [call EXCEPT ![c].pc = "settling", ![c].used = Unknown, ![c].then = "asking"]
    /\ UNCHANGED <<reserved, consumed, resv, permits, tool, budgetAlive, lostStarts>>

\* 429, 5xx, a lost connection or a timeout may be tried again; other errors may not.
CallFailed(c) ==
    /\ At(c, "wire")
    /\ \E then \in {"over"} \cup (IF call[c].attempt < MaxAttempts THEN {"asking"} ELSE {}) :
         call' = [call EXCEPT ![c].pc = "settling", ![c].used = Unknown, ![c].then = then]
    /\ UNCHANGED <<reserved, consumed, resv, permits, tool, budgetAlive, lostStarts>>

\* A settlement that keeps the permit when settle raises.
CallSettlesNoFinally(c) ==
    LET k == This(c)
        over == call[c].used > Estimate
        next == IF over THEN "over" ELSE call[c].then
    IN  /\ At(c, "settling")
        /\ IF call[c].used = Unknown THEN SettleUnknown(k)
                                     ELSE SettleKnown(k, Tokens(call[c].used))
        /\ permits' = IF over THEN permits ELSE permits \ {k}
        /\ call' = [call EXCEPT ![c].pc = next, ![c].used = Unknown, ![c].then = "over",
                                ![c].attempt = IF next = "asking" THEN @ + 1 ELSE @,
                                ![c].left = IF over THEN "over" ELSE @]
        /\ UNCHANGED <<tool, budgetAlive, lostStarts>>

\* The loop's finally: the reservation is settled and the permit given back, even
\* when the usage exceeds the reservation and settle raises, which ends the call.
CallSettles(c) ==
    LET k == This(c)
        over == call[c].used > Estimate
        next == IF over THEN "over" ELSE call[c].then
    IN  /\ At(c, "settling")
        /\ IF call[c].used = Unknown THEN SettleUnknown(k)
                                     ELSE SettleKnown(k, Tokens(call[c].used))
        /\ permits' = permits \ {k}
        /\ call' = [call EXCEPT ![c].pc = next, ![c].used = Unknown, ![c].then = "over",
                                ![c].attempt = IF next = "asking" THEN @ + 1 ELSE @,
                                ![c].left = IF over THEN "over" ELSE @]
        /\ UNCHANGED <<tool, budgetAlive, lostStarts>>

------------------------------------------------------------------------------
\* Tool calls and children

Inside(o) == tool[o].by \in budgetAlive

\* One transaction: the grant is consumed, the row runs, the call is reserved.
ToolRuns(o, p) ==
    /\ o \in ToolOp /\ tool[o].state = "prepared" /\ p \in budgetAlive
    /\ MayReserve(o) /\ Reserve(o)
    /\ tool' = [tool EXCEPT ![o] = [state |-> "running", by |-> p]]
    /\ UNCHANGED <<consumed, permits, call, budgetAlive, lostStarts>>

\* request_input and wait_children reserve each time they are entered, still prepared.
PauseEntered(o, p) ==
    /\ o \in PausingOp /\ tool[o].state = "prepared" /\ p \in budgetAlive
    /\ tool[o].by \notin budgetAlive
    /\ MayReserve(o) /\ Reserve(o)
    /\ tool' = [tool EXCEPT ![o].by = p]
    /\ UNCHANGED <<consumed, permits, call, budgetAlive, lostStarts>>

\* The wait is registered and the graph interrupts: the task leaves.
PauseLeft(o) ==
    /\ o \in PausingOp /\ tool[o].state = "prepared" /\ Inside(o)
    /\ tool' = [tool EXCEPT ![o].by = NoBudgetProc]
    /\ UNCHANGED <<reserved, consumed, resv, permits, call, budgetAlive, lostStarts>>

\* _finish writes the outcome; the settlement is a transaction of its own.
ToolFinishes(o) ==
    /\ Inside(o)
    /\ \/ tool[o].state = "running"
          /\ \E s \in {"done", "unknown"} : tool' = [tool EXCEPT ![o].state = s]
       \/ o \in PausingOp /\ tool[o].state = "prepared"
          /\ tool' = [tool EXCEPT ![o].state = "done"]
    /\ UNCHANGED <<reserved, consumed, resv, permits, call, budgetAlive, lostStarts>>

ToolSettles(o) ==
    /\ Inside(o) /\ tool[o].state \in {"done", "unknown"}
    /\ IF tool[o].state = "done" THEN SettleKnown(o, OneTool) ELSE SettleUnknown(o)
    /\ tool' = [tool EXCEPT ![o].by = NoBudgetProc]
    /\ UNCHANGED <<permits, call, budgetAlive, lostStarts>>

\* Recovery of a dead worker's row (verified or sent to review), and a user's
\* verdict on an unknown one: neither touches the reservation.
ToolRecovered(o) ==
    /\ ~Inside(o)
    /\ \/ tool[o].state = "running"
          /\ \E s \in {"done", "unknown"} : tool' = [tool EXCEPT ![o].state = s]
       \/ tool[o].state = "unknown" /\ tool' = [tool EXCEPT ![o].state = "done"]
    /\ UNCHANGED <<reserved, consumed, resv, permits, call, budgetAlive, lostStarts>>

\* The run ends: what is still prepared is closed, a pausing call that reserved counts.
ToolDropped(o) ==
    /\ ~Inside(o) /\ tool[o].state = "prepared"
    /\ tool' = [tool EXCEPT ![o].state = "dropped"]
    /\ IF resv[o].state = "none" THEN UNCHANGED <<reserved, consumed, resv>>
       ELSE SettleKnown(o, OneTool)
    /\ UNCHANGED <<permits, call, budgetAlive, lostStarts>>

\* One transaction reserves and settles a child.
Delegates ==
    /\ Fits(OneChild) /\ budgetAlive /= {}
    /\ consumed' = Plus(consumed, OneChild)
    /\ UNCHANGED <<reserved, resv, permits, call, tool, budgetAlive, lostStarts>>

BudgetProcDies(p) ==
    /\ p \in budgetAlive \cap BudgetCrash
    /\ budgetAlive' = budgetAlive \ {p}
    /\ UNCHANGED <<reserved, consumed, resv, permits, call, tool, lostStarts>>

BudgetInit ==
    /\ reserved = Nothing /\ consumed = Nothing
    /\ resv = [k \in Key |-> [state |-> "none", actual |-> Nothing]]
    /\ permits = {}
    /\ call = [c \in Call |-> [pc |-> "new", by |-> NoBudgetProc, attempt |-> 1,
                               used |-> Unknown, then |-> "over", sent |-> {}, left |-> "no"]]
    /\ tool = [o \in Op |-> [state |-> "prepared", by |-> NoBudgetProc]]
    /\ budgetAlive = BudgetProc
    /\ lostStarts = 0

CallStep(c) ==
    \/ CallReserves(c) \/ CallExhausted(c) \/ CallRefused(c) \/ CallStarts(c) \/ CallStartLost(c)
    \/ CallAnswered(c) \/ CallFailed(c) \/ CallSettles(c)

ToolStep(o) ==
    \/ PauseLeft(o) \/ ToolFinishes(o) \/ ToolSettles(o) \/ ToolRecovered(o) \/ ToolDropped(o)

BudgetNext ==
    \/ \E c \in Call : CallStep(c) \/ \E p \in BudgetProc : CallBegins(c, p)
    \/ \E o \in Op : ToolStep(o) \/ \E p \in BudgetProc : ToolRuns(o, p) \/ PauseEntered(o, p)
    \/ Delegates
    \/ \E p \in BudgetProc : BudgetProcDies(p)

\* The event loop runs a call's coroutine on; a provider answers or the timeout ends it.
CallGoesOn(c) ==
    \/ CallReserves(c) \/ CallExhausted(c) \/ CallStarts(c)
    \/ CallAnswered(c) \/ CallFailed(c) \/ CallSettles(c)

BudgetFairness == \A c \in Call : WF_bvars(CallGoesOn(c))

BudgetSpec == BudgetInit /\ [][BudgetNext]_bvars /\ BudgetFairness

------------------------------------------------------------------------------
\* The stored account, reservations and calls keep their shapes (Store.reserve, settle).
BudgetTypeOK ==
    /\ reserved \in [Dim -> Nat] /\ consumed \in [Dim -> Nat]
    /\ resv \in [Key -> [state : {"none", "reserved", "unknown", "settled"}, actual : [Dim -> Nat]]]
    /\ permits \subseteq Attempt
    /\ call \in [Call -> [pc : {"new", "asking", "starting", "wire", "settling", "over"},
                          by : BudgetProc \cup {NoBudgetProc}, attempt : 1 .. MaxAttempts,
                          used : {Unknown} \cup Reports,
                          then : {"over", "asking"}, sent : SUBSET (1 .. MaxAttempts),
                          left : {"no", "lost", "over"}]]
    /\ tool \in [Op -> [state : {"prepared", "running", "done", "unknown", "dropped"},
                        by : BudgetProc \cup {NoBudgetProc}]]
    /\ budgetAlive \subseteq BudgetProc
    /\ lostStarts \in 0 .. MaxLostStarts

\* Store.reserve: what is spent and what is promised never exceed a limit together,
\* whatever is settled, lost or left unknown.
WithinLimit == \A d \in Dim : reserved[d] + consumed[d] <= Limits[d]

Held(k) == resv[k].state \in {"reserved", "unknown"}

\* The units a key may hold or spend of a dimension, and those that are promised and spent.
Units == Key \X (1 .. Estimate + 1)
Promised(d) == {u \in Units : Held(u[1]) /\ u[2] <= Amount(u[1])[d]}
Spent(d) == {u \in Units : u[2] <= resv[u[1]].actual[d]}

\* The account's two sums are those of its reservations, counted in units: settle moves each
\* amount once (children are reserved and settled at once and leave no open row).
LedgerAgrees ==
    \A d \in Dim \ {"children"} :
        reserved[d] = Cardinality(Promised(d)) /\ consumed[d] = Cardinality(Spent(d))

\* ModelGateway._call: retries, unknown usage, refused settlements and dead workers
\* included, no more requests ever reach a provider than the account allows.
RequestsCapped ==
    Cardinality({k \in Attempt : k[2] \in call[k[1]].sent}) <= Limits["model_calls"]

\* ModelBudgetAdapter.reserve: requests of live workers never exceed the permits.
ConcurrencyHeld ==
    Cardinality({c \in Call : Running(c) /\ call[c].pc = "wire"}) <= Concurrency

InAttempt(k) ==
    call[k[1]].attempt = k[2] /\ call[k[1]].pc \in {"starting", "wire", "settling"}

\* A reservation is only ever left open by a process that died, a started event that
\* could not be written, or usage above the estimate (ModelGateway._call, ToolGateway.execute).
OpenExplained ==
    /\ \A k \in Attempt : (resv[k].state = "reserved" /\ ~InAttempt(k)) =>
           call[k[1]].left /= "no"
    /\ \A k \in Attempt : (k \in LivePermits /\ ~InAttempt(k)) => call[k[1]].left = "lost"
    /\ \A o \in Op : (resv[o].state = "reserved" /\ tool[o].state \in {"done", "unknown"}
                        /\ ~Inside(o)) => budgetAlive /= BudgetProc

\* Store.reserve, Store.settle, ModelBudgetAdapter: the account agrees with its rows, bounds what
\* leaves for a provider, and keeps nothing open without a reason.
ReservationsSound == LedgerAgrees /\ RequestsCapped /\ ConcurrencyHeld /\ OpenExplained

\* ModelBudgetAdapter.reserve polls for ever: a call waiting for a permit gets an end while
\* its process lives, unless every permit was lost with a started event.
CallEnds ==
    \A c \in Call : (call[c].pc = "asking") ~>
        (~Running(c) \/ call[c].pc = "over" \/ lostStarts >= Concurrency)
=============================================================================
