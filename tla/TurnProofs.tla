------------------------------ MODULE TurnProofs ------------------------------
(***************************************************************************)
(* What one turn of a run is made of, proved for any number of calls, attempts,*)
(* tools, workers, inputs, selections and turns: the budget it spends from, the*)
(* messages added to it, the model it is sent to and the context it is sent*)
(* with; and, with the connections, all of them in one composed specification.*)
(***************************************************************************)
EXTENDS MCTurn, ConnectionProofs, WellFoundedInduction

------------------------------------------------------------------------------
(* The budget: calls *)

\* The loop of one logical call.
CallType == [pc : {"new", "asking", "starting", "wire", "settling", "over"},
             by : BudgetProc \cup {NoBudgetProc}, attempt : 1 .. MaxAttempts,
             used : {Unknown} \cup Reports, then : {"over", "asking"},
             sent : SUBSET (1 .. MaxAttempts), left : {"no", "lost", "over"}]

\* The calls keep their shape; an attempt goes round only while one is left.
CallInv ==
    /\ call \in [Call -> CallType]
    /\ \A c \in Call : call[c].pc = "settling" /\ call[c].then = "asking" =>
           call[c].attempt < MaxAttempts

\* A step of one call.
LEMMA OneCall ==
    ASSUME CallInv, NEW c \in Call, NEW q \in CallType, call' = [call EXCEPT ![c] = q],
           q.pc = "settling" /\ q.then = "asking" => q.attempt < MaxAttempts
    PROVE  CallInv'
  BY DEF CallInv

\* Every step of the loop keeps the calls in shape.
LEMMA CallKeeps == ASSUME CallInv, [BudgetNext]_bvars  PROVE CallInv'
<1>1. \A c \in Call : call[c] \in CallType
  BY DEF CallInv
<1>2. ASSUME NEW c \in Call, NEW p \in BudgetProc, CallBegins(c, p)  PROVE CallInv'
  <2> DEFINE q == [call[c] EXCEPT !.pc = "asking", !.by = p, !.attempt = 1]
  <2>1. 1 \in 1 .. MaxAttempts
    BY BudgetAssumption
  <2>2. q \in CallType /\ q.pc = "asking"
    BY <1>1, <2>1 DEF CallType
  <2> QED
    BY <1>2, <2>2, OneCall DEF CallBegins
<1>3. ASSUME NEW c \in Call, NEW pc \in {"starting", "over"}, Goto(c, pc)  PROVE CallInv'
  <2> DEFINE q == [call[c] EXCEPT !.pc = pc]
  <2>1. q \in CallType /\ q.pc /= "settling"
    BY <1>1 DEF CallType
  <2> QED
    BY <1>3, <2>1, OneCall DEF Goto
<1>4. ASSUME NEW c \in Call, CallStarts(c)  PROVE CallInv'
  <2> DEFINE q == [call[c] EXCEPT !.pc = "wire", !.sent = @ \cup {call[c].attempt}]
  <2>1. q \in CallType /\ q.pc = "wire"
    BY <1>1 DEF CallType
  <2> QED
    BY <1>4, <2>1, OneCall DEF CallStarts
<1>5. ASSUME NEW c \in Call, CallStartLost(c)  PROVE CallInv'
  <2> DEFINE q == [call[c] EXCEPT !.pc = "over", !.left = "lost"]
  <2>1. q \in CallType /\ q.pc = "over"
    BY <1>1 DEF CallType
  <2> QED
    BY <1>5, <2>1, OneCall DEF CallStartLost
<1>6. ASSUME NEW c \in Call, CallAnswered(c) \/ CallFailed(c)  PROVE CallInv'
  <2> DEFINE q(used, then) == [call[c] EXCEPT !.pc = "settling", !.used = used, !.then = then]
  <2>1. PICK used \in {Unknown} \cup Reports, then \in {"over", "asking"} :
          /\ call' = [call EXCEPT ![c] = q(used, then)]
          /\ then = "asking" => call[c].attempt < MaxAttempts
    <3>1. CASE CallAnswered(c)
      BY <3>1 DEF CallAnswered
    <3>2. CASE CallFailed(c)
      <4>1. PICK then \in {"over"} \cup (IF call[c].attempt < MaxAttempts THEN {"asking"} ELSE {}) :
              call' = [call EXCEPT ![c] = q(Unknown, then)]
        BY <3>2 DEF CallFailed
      <4>2. then \in {"over", "asking"} /\ (then = "asking" => call[c].attempt < MaxAttempts)
        OBVIOUS
      <4> HIDE DEF q
      <4> QED
        BY <4>1, <4>2
    <3> QED
      BY <1>6, <3>1, <3>2
  <2>2. /\ q(used, then) \in CallType /\ q(used, then).then = then
        /\ q(used, then).attempt = call[c].attempt
    BY <1>1 DEF CallType
  <2> HIDE DEF q
  <2> QED
    BY <2>1, <2>2, OneCall
<1>7. ASSUME NEW c \in Call, CallSettles(c)  PROVE CallInv'
  <2> DEFINE q(next, attempt, left) ==
        [call[c] EXCEPT !.pc = next, !.used = Unknown, !.then = "over", !.attempt = attempt, !.left = left]
  <2>1. call[c].pc = "settling"
    BY <1>7 DEF CallSettles, At
  <2>2. PICK next \in {"over", "asking"}, attempt \in 1 .. MaxAttempts, left \in {"no", "lost", "over"} :
          call' = [call EXCEPT ![c] = q(next, attempt, left)]
    <3> DEFINE over == call[c].used > Estimate
               next == IF over THEN "over" ELSE call[c].then
               attempt == IF next = "asking" THEN call[c].attempt + 1 ELSE call[c].attempt
               left == IF over THEN "over" ELSE call[c].left
    <3>1. next \in {"over", "asking"} /\ left \in {"no", "lost", "over"}
      BY <1>1 DEF CallType
    <3>2. attempt \in 1 .. MaxAttempts
      BY <1>1, <2>1, BudgetAssumption DEF CallType, CallInv
    <3>3. call' = [call EXCEPT ![c] = q(next, attempt, left)]
      BY <1>7 DEF CallSettles
    <3> HIDE DEF next, attempt, left, q
    <3> QED
      BY <3>1, <3>2, <3>3
  <2>3. q(next, attempt, left) \in CallType /\ q(next, attempt, left).then = "over"
    BY <1>1 DEF CallType
  <2> HIDE DEF q
  <2> QED
    BY <2>2, <2>3, OneCall
<1>8. ASSUME UNCHANGED call  PROVE CallInv'
  BY <1>8 DEF CallInv
<1> QED
  BY <1>2, <1>3, <1>4, <1>5, <1>6, <1>7, <1>8 DEF BudgetNext, CallStep, CallReserves, CallExhausted,
     CallRefused, ToolStep, PauseLeft, ToolFinishes, ToolSettles, ToolRecovered, ToolDropped, ToolRuns,
     PauseEntered, Delegates, BudgetProcDies, bvars

------------------------------------------------------------------------------
(* The account *)

\* WithinLimit with the types its arithmetic needs.
LimitInv ==
    /\ reserved \in [Dim -> Int] /\ consumed \in [Dim -> Int]
    /\ WithinLimit

\* Every amount is of whole tokens and calls.
LEMMA AmountType ==
    /\ \A k \in Key : Amount(k) \in [Dim -> Int]
    /\ \A n \in Int : Tokens(n) \in [Dim -> Int]
    /\ OneTool \in [Dim -> Int] /\ OneChild \in [Dim -> Int]
  BY BudgetAssumption DEF Amount, Tokens, OneTool, OneChild, Nothing, Dim

\* Store.reserve promises no more than is left.
LEMMA ReserveKeeps ==
    ASSUME LimitInv, NEW k \in Key, MayReserve(k), Reserve(k), UNCHANGED consumed  PROVE LimitInv'
<1>1. CASE resv[k].state /= "none"
  BY <1>1 DEF Reserve, LimitInv, WithinLimit
<1>2. CASE resv[k].state = "none"
  <2> DEFINE a == Amount(k)
  <2>1. a \in [Dim -> Int] /\ Fits(a) /\ reserved' = Plus(reserved, a)
    BY <1>2, AmountType DEF MayReserve, Reserve
  <2> HIDE DEF a
  <2> QED
    BY <2>1, BudgetAssumption DEF LimitInv, WithinLimit, Fits, Plus
<1> QED
  BY <1>1, <1>2

\* Store.settle spends no more than was promised.
LEMMA SettleKeeps ==
    ASSUME LimitInv, NEW k \in Key, NEW actual \in [Dim -> Int], SettleKnown(k, actual)
    PROVE  LimitInv'
<1>1. CASE resv[k].state = "settled" \/ Exceeds(k, actual)
  BY <1>1 DEF SettleKnown, LimitInv, WithinLimit
<1>2. CASE ~ (resv[k].state = "settled" \/ Exceeds(k, actual))
  <2> DEFINE a == Amount(k)
  <2>1. /\ a \in [Dim -> Int] /\ \A d \in Dim : ~ (actual[d] > a[d])
        /\ reserved' = Minus(reserved, a) /\ consumed' = Plus(consumed, actual)
    BY <1>2, AmountType DEF SettleKnown, Exceeds
  <2> HIDE DEF a
  <2> QED
    BY <2>1, BudgetAssumption DEF LimitInv, WithinLimit, Minus, Plus
<1> QED
  BY <1>1, <1>2

\* Every step spends and promises within the limits.
LEMMA LimitKeeps == ASSUME CallInv, LimitInv, [BudgetNext]_bvars  PROVE LimitInv'
<1>1. ASSUME UNCHANGED <<reserved, consumed>>  PROVE LimitInv'
  BY <1>1 DEF LimitInv, WithinLimit
<1>2. ASSUME NEW c \in Call, CallReserves(c)  PROVE LimitInv'
  <2>1. This(c) \in Key
    BY DEF This, Key, Attempt, CallInv, CallType
  <2> QED
    BY <1>2, <2>1, ReserveKeeps DEF CallReserves
<1>3. ASSUME NEW c \in Call, CallSettles(c)  PROVE LimitInv'
  <2>1. This(c) \in Key
    BY DEF This, Key, Attempt, CallInv, CallType
  <2>2. call[c].used \in Int
    <3>1. call[c].used \in {Unknown} \cup Reports
      BY DEF CallInv, CallType
    <3>2. Unknown \in Int /\ Reports \subseteq Int
      BY BudgetAssumption DEF Unknown
    <3> QED
      BY <3>1, <3>2
  <2>3. Tokens(call[c].used) \in [Dim -> Int]
    BY <2>2, AmountType
  <2> QED
    BY <1>1, <1>3, <2>1, <2>3, SettleKeeps DEF CallSettles, SettleUnknown
<1>4. ASSUME NEW o \in Op, NEW p \in BudgetProc, ToolRuns(o, p) \/ PauseEntered(o, p)
      PROVE  LimitInv'
  BY <1>4, ReserveKeeps DEF ToolRuns, PauseEntered, Key
<1>5. ASSUME NEW o \in Op, ToolSettles(o) \/ ToolDropped(o)  PROVE LimitInv'
  BY <1>1, <1>5, SettleKeeps, AmountType DEF ToolSettles, ToolDropped, SettleUnknown, Key
<1>6. CASE Delegates
  BY <1>6, AmountType, BudgetAssumption DEF Delegates, Fits, Plus, LimitInv, WithinLimit
<1> QED
  BY <1>1, <1>2, <1>3, <1>4, <1>5, <1>6 DEF BudgetNext, CallStep, ToolStep, CallBegins, CallExhausted,
     CallRefused, CallStarts, CallStartLost, CallAnswered, CallFailed, PauseLeft, ToolFinishes,
     ToolRecovered, BudgetProcDies, bvars

------------------------------------------------------------------------------
(* Permits *)

\* The calls of live workers with a request on the wire.
OnTheWire == {c \in Call : Running(c) /\ call[c].pc = "wire"}

\* A call between reserve and settle holds the permit of its attempt, and only calls that have
\* begun hold one; the live permits never exceed the limit.
PermitInv ==
    /\ permits \subseteq Attempt
    /\ \A k \in permits : call[k[1]].pc /= "new"
    /\ \A c \in Call : Running(c) /\ call[c].pc \in {"starting", "wire", "settling"} => This(c) \in permits
    /\ IsFiniteSet(LivePermits) /\ Cardinality(LivePermits) <= Concurrency

\* Nothing adds a live permit but reserve.
LEMMA FewerPermits ==
    ASSUME PermitInv, permits' \subseteq permits, budgetAlive' \subseteq budgetAlive,
           \A c \in Call : call[c].pc /= "new" => call'[c].by = call[c].by
    PROVE  IsFiniteSet(LivePermits') /\ Cardinality(LivePermits') <= Concurrency
<1>1. LivePermits' \subseteq LivePermits
  BY DEF PermitInv, LivePermits, Attempt
<1>2. /\ IsFiniteSet(LivePermits') /\ Cardinality(LivePermits') <= Cardinality(LivePermits)
      /\ Cardinality(LivePermits') \in Nat /\ Cardinality(LivePermits) \in Nat
  BY <1>1, FS_Subset, FS_CardinalityType DEF PermitInv
<1> QED
  BY <1>2, BudgetAssumption DEF PermitInv

\* A step of one call other than reserve, which gives up at most the permit of its attempt.
LEMMA OneCallPermits ==
    ASSUME CallInv, PermitInv, NEW c \in Call, budgetAlive' = budgetAlive,
           \A d \in Call \ {c} : call'[d] = call[d],
           call'[c].pc /= "new", call[c].pc /= "new" => call'[c].by = call[c].by,
           \/ call'[c].pc \notin {"starting", "wire", "settling"} /\ permits' \in {permits, permits \ {This(c)}}
           \/ /\ call[c].pc \in {"starting", "wire"} /\ call'[c].attempt = call[c].attempt
              /\ Running(c) /\ permits' = permits
    PROVE  PermitInv'
<1>1. permits' \subseteq permits
  OBVIOUS
<1>2. IsFiniteSet(LivePermits') /\ Cardinality(LivePermits') <= Concurrency
  BY <1>1, FewerPermits
<1>3. \A k \in permits' : call'[k[1]].pc /= "new"
  BY <1>1 DEF PermitInv, Attempt
<1>4. ASSUME NEW d \in Call, Running(d)', call'[d].pc \in {"starting", "wire", "settling"}
      PROVE  This(d)' \in permits'
  <2>1. CASE d = c
    BY <1>4, <2>1 DEF PermitInv, This, Running
  <2>2. CASE d /= c
    <3>1. call'[d] = call[d] /\ Running(d) /\ This(d)' = This(d) /\ This(d) /= This(c)
      BY <1>4, <2>2 DEF Running, This
    <3>2. This(d) \in permits
      BY <1>4, <3>1 DEF PermitInv
    <3> QED
      BY <3>1, <3>2
  <2> QED
    BY <2>1, <2>2
<1> QED
  BY <1>1, <1>2, <1>3, <1>4 DEF PermitInv

\* reserve takes one permit, and only while one is free.
LEMMA ReservePermits ==
    ASSUME CallInv, PermitInv, NEW c \in Call, CallReserves(c)  PROVE PermitInv'
<1>1. /\ permits' = permits \cup {This(c)} /\ call' = [call EXCEPT ![c].pc = "starting"]
      /\ budgetAlive' = budgetAlive /\ Cardinality(LivePermits) < Concurrency
      /\ call[c].pc = "asking" /\ call[c].by \in budgetAlive
  BY DEF CallReserves, Goto, RoomForCall, At, Running
<1>2. \A d \in Call : call'[d].by = call[d].by /\ call'[d].attempt = call[d].attempt
  BY <1>1 DEF CallInv, CallType
<1>3. \A d \in Call : call'[d].pc = IF d = c THEN "starting" ELSE call[d].pc
  BY <1>1 DEF CallInv, CallType
<1>4. permits' \subseteq Attempt
  BY <1>1 DEF PermitInv, This, Attempt, CallInv, CallType
<1>5. IsFiniteSet(LivePermits') /\ Cardinality(LivePermits') <= Concurrency
  <2>1. LivePermits' = LivePermits \cup {This(c)}
    BY <1>1, <1>2, <1>4 DEF LivePermits, This, Attempt
  <2>2. /\ IsFiniteSet(LivePermits \cup {This(c)})
        /\ Cardinality(LivePermits \cup {This(c)}) =
             IF This(c) \in LivePermits THEN Cardinality(LivePermits) ELSE Cardinality(LivePermits) + 1
    BY FS_AddElement DEF PermitInv
  <2>3. Cardinality(LivePermits) \in Nat
    BY FS_CardinalityType DEF PermitInv
  <2> QED
    BY <1>1, <2>1, <2>2, <2>3, BudgetAssumption
<1>6. \A k \in permits' : call'[k[1]].pc /= "new"
  BY <1>1, <1>3, <1>4 DEF PermitInv, This, Attempt
<1>7. \A d \in Call : This(d)' = This(d)
  BY <1>2 DEF This
<1>8. ASSUME NEW d \in Call, Running(d)', call'[d].pc \in {"starting", "wire", "settling"}
      PROVE  This(d)' \in permits'
  BY <1>1, <1>2, <1>3, <1>7, <1>8 DEF PermitInv, Running
<1> QED
  BY <1>4, <1>5, <1>6, <1>8 DEF PermitInv

\* The other steps of the loop, and the death of a worker, which frees the permits of its calls.
LEMMA PermitKeeps == ASSUME CallInv, PermitInv, [BudgetNext]_bvars  PROVE PermitInv'
<1> USE DEF CallInv, CallType
<1>1. ASSUME NEW c \in Call, NEW p \in BudgetProc, CallBegins(c, p)  PROVE PermitInv'
  BY <1>1, OneCallPermits DEF CallBegins
<1>2. ASSUME NEW c \in Call, CallReserves(c)  PROVE PermitInv'
  BY <1>2, ReservePermits
<1>3. ASSUME NEW c \in Call, CallExhausted(c) \/ CallRefused(c)  PROVE PermitInv'
  BY <1>3, OneCallPermits DEF CallExhausted, CallRefused, Goto
<1>4. ASSUME NEW c \in Call, CallStarts(c)  PROVE PermitInv'
  BY <1>4, OneCallPermits DEF CallStarts, At
<1>5. ASSUME NEW c \in Call, CallStartLost(c)  PROVE PermitInv'
  BY <1>5, OneCallPermits DEF CallStartLost
<1>6. ASSUME NEW c \in Call, CallAnswered(c)  PROVE PermitInv'
  BY <1>6, OneCallPermits DEF CallAnswered, At
<1>7. ASSUME NEW c \in Call, CallFailed(c)  PROVE PermitInv'
  BY <1>7, OneCallPermits DEF CallFailed, At
<1>8. ASSUME NEW c \in Call, CallSettles(c)  PROVE PermitInv'
  BY <1>8, OneCallPermits DEF CallSettles, At
<1>9. ASSUME UNCHANGED <<call, permits>>, budgetAlive' \subseteq budgetAlive  PROVE PermitInv'
  BY <1>9, FewerPermits DEF PermitInv, Running, This
<1> QED
  BY <1>1, <1>2, <1>3, <1>4, <1>5, <1>6, <1>7, <1>8, <1>9 DEF BudgetNext, CallStep, ToolStep, PauseLeft,
     ToolFinishes, ToolSettles, ToolRecovered, ToolDropped, ToolRuns, PauseEntered, Delegates,
     BudgetProcDies, bvars

\* A request on the wire has its permit, so there are no more of them than permits.
LEMMA WirePermits == ASSUME CallInv, PermitInv  PROVE ConcurrencyHeld
<1> DEFINE f == [c \in OnTheWire |-> This(c)]
<1>1. \A c \in OnTheWire : This(c) \in LivePermits
  BY DEF OnTheWire, PermitInv, LivePermits, This, Running
<1>2. f \in Injection(OnTheWire, LivePermits)
  BY <1>1 DEF Injection, IsInjective, This
<1>3. /\ Cardinality(OnTheWire) <= Cardinality(LivePermits) /\ IsFiniteSet(OnTheWire)
      /\ Cardinality(LivePermits) \in Nat
  BY <1>2, FS_Injection, FS_CardinalityType DEF PermitInv
<1>4. Cardinality(OnTheWire) \in Nat
  BY <1>3, FS_CardinalityType
<1> QED
  BY <1>3, <1>4, BudgetAssumption DEF ConcurrencyHeld, OnTheWire, PermitInv

------------------------------------------------------------------------------
(* The rows *)

\* A row of budget_reservations.
Row == [state : {"none", "reserved", "unknown", "settled"}, actual : [Dim -> Nat]]

\* The keys that have a row.
Rowed == {k \in Key : resv[k].state /= "none"}

\* A settled row spent no more than it was promised, and its model call; no other row spent.
RowTrue(k) ==
    /\ resv[k].state /= "settled" => resv[k].actual = Nothing
    /\ resv[k].state = "settled" =>
          /\ \A d \in Dim : resv[k].actual[d] <= Amount(k)[d]
          /\ resv[k].actual["model_calls"] = Amount(k)["model_calls"]

\* There are finitely many rows, each of them true.
RowsInv ==
    /\ resv \in [Key -> Row] /\ IsFiniteSet(Rowed)
    /\ \A k \in Key : RowTrue(k)

\* The account and its rows: what Store.reserve and Store.settle keep together.
AccountInv ==
    /\ RowsInv
    /\ reserved \in [Dim -> Nat] /\ consumed \in [Dim -> Nat] /\ reserved["children"] = 0
    /\ LedgerAgrees

\* The first n units of a key.
UnitsOf(k, n) == {k} \X (1 .. n)

\* There are n of them.
LEMMA UnitsCounted ==
    ASSUME NEW k, NEW n \in Nat
    PROVE  IsFiniteSet(UnitsOf(k, n)) /\ Cardinality(UnitsOf(k, n)) = n
<1>1. IsFiniteSet(1 .. n) /\ Cardinality(1 .. n) = n
  <2>1. /\ IsFiniteSet(1 .. n)
        /\ Cardinality(1 .. n) = IF 1 > n THEN 0 ELSE n - 1 + 1
    BY FS_Interval
  <2> QED
    BY <2>1
<1>2. IsFiniteSet({k}) /\ Cardinality({k}) = 1
  BY FS_Singleton
<1>3. /\ IsFiniteSet({k} \X (1 .. n))
      /\ Cardinality({k} \X (1 .. n)) = Cardinality({k}) * Cardinality(1 .. n)
  BY <1>1, <1>2, FS_Product
<1> QED
  BY <1>1, <1>2, <1>3 DEF UnitsOf

\* An amount is of whole units, at most Estimate + 1 of a dimension, none of them a child, and
\* one call for an attempt.
LEMMA AmountShape ==
    ASSUME NEW k \in Key
    PROVE  /\ Amount(k) \in [Dim -> Nat] /\ Amount(k)["children"] = 0
           /\ \A d \in Dim : Amount(k)[d] <= Estimate + 1
           /\ k \in Attempt => Amount(k)["model_calls"] = 1 \/ k \in Op
  BY BudgetAssumption DEF Amount, Tokens, OneTool, Nothing, Dim, Key

\* Adding the units of a key to a set that has none of them.
LEMMA UnitsAdded ==
    ASSUME NEW S, IsFiniteSet(S), NEW k, NEW n \in Nat, \A u \in S : u[1] /= k
    PROVE  /\ IsFiniteSet(S \cup UnitsOf(k, n))
           /\ Cardinality(S \cup UnitsOf(k, n)) = Cardinality(S) + n
<1>1. IsFiniteSet(UnitsOf(k, n)) /\ Cardinality(UnitsOf(k, n)) = n
  BY UnitsCounted
<1>2. S \cap UnitsOf(k, n) = {}
  BY DEF UnitsOf
<1>3. IsFiniteSet({}) /\ Cardinality({}) = 0
  BY FS_EmptySet
<1>4. /\ IsFiniteSet(S \cup UnitsOf(k, n))
      /\ Cardinality(S \cup UnitsOf(k, n)) =
           Cardinality(S) + Cardinality(UnitsOf(k, n)) - Cardinality(S \cap UnitsOf(k, n))
  BY <1>1, FS_Union
<1>5. Cardinality(S) \in Nat
  BY FS_CardinalityType
<1>6. Cardinality(S \cap UnitsOf(k, n)) = 0
  BY <1>2, <1>3
<1> QED
  BY <1>1, <1>4, <1>5, <1>6

\* Finitely many units are promised, and finitely many spent.
LEMMA UnitsFinite == ASSUME AccountInv, NEW d \in Dim
                     PROVE  IsFiniteSet(Promised(d)) /\ IsFiniteSet(Spent(d))
<1>1. IsFiniteSet(1 .. Estimate + 1)
  BY FS_Interval, BudgetAssumption
<1>2. IsFiniteSet(Rowed \X (1 .. Estimate + 1))
  BY <1>1, FS_Product DEF AccountInv, RowsInv
<1>3. Promised(d) \subseteq Rowed \X (1 .. Estimate + 1)
  BY DEF Promised, Units, Rowed, Held
<1>4. Spent(d) \subseteq Rowed \X (1 .. Estimate + 1)
  <2> SUFFICES ASSUME NEW u \in Spent(d)  PROVE u[1] \in Rowed /\ u \in Units
    BY DEF Units, Rowed
  <2>1. u \in Units /\ u[2] <= resv[u[1]].actual[d] /\ u[1] \in Key /\ u[2] \in 1 .. Estimate + 1
    BY DEF Spent, Units
  <2>2. CASE resv[u[1]].state = "none"
    <3>1. resv[u[1]].actual[d] = 0
      BY <2>1, <2>2 DEF AccountInv, RowsInv, RowTrue, Nothing
    <3> QED
      BY <2>1, <3>1, BudgetAssumption
  <2> QED
    BY <2>1, <2>2 DEF Rowed
<1> QED
  BY <1>2, <1>3, <1>4, FS_Subset

\* Store.reserve: the row and the account change together.
LEMMA ReserveCounts ==
    ASSUME AccountInv, NEW k \in Key, Reserve(k), UNCHANGED consumed
    PROVE  /\ AccountInv' /\ resv'[k].state = IF resv[k].state = "none" THEN "reserved" ELSE resv[k].state
           /\ \A j \in Key \ {k} : resv'[j] = resv[j]
<1>1. CASE resv[k].state /= "none"
  <2>1. UNCHANGED <<reserved, consumed, resv>>
    BY <1>1 DEF Reserve
  <2> QED
    BY <1>1, <2>1 DEF AccountInv, RowsInv, RowTrue, Rowed, LedgerAgrees, Promised, Spent, Held
<1>2. CASE resv[k].state = "none"
  <2> DEFINE a == Amount(k)
  <2>1. /\ reserved' = Plus(reserved, a) /\ resv' = [resv EXCEPT ![k].state = "reserved"]
    BY <1>2 DEF Reserve
  <2>2. resv \in [Key -> Row] /\ RowTrue(k) /\ resv[k].actual = Nothing
    BY <1>2 DEF AccountInv, RowsInv, RowTrue
  <2>3. /\ resv' \in [Key -> Row] /\ resv'[k].state = "reserved" /\ resv'[k].actual = Nothing
        /\ \A j \in Key \ {k} : resv'[j] = resv[j]
    BY <2>1, <2>2 DEF Row
  <2>4. \A j \in Key : RowTrue(j)'
    BY <2>3 DEF AccountInv, RowsInv, RowTrue
  <2>5. IsFiniteSet(Rowed')
    <3>1. Rowed' = Rowed \cup {k}
      BY <1>2, <2>3 DEF Rowed
    <3> QED
      BY <3>1, FS_AddElement DEF AccountInv, RowsInv
  <2>6. /\ a \in [Dim -> Nat] /\ a["children"] = 0 /\ \A d \in Dim : a[d] <= Estimate + 1
    BY AmountShape
  <2>7. reserved' \in [Dim -> Nat] /\ reserved'["children"] = 0
    <3> HIDE DEF a
    <3> QED
      BY <2>1, <2>6 DEF Plus, AccountInv, Dim
  <2>8. ASSUME NEW d \in Dim \ {"children"}
        PROVE  reserved'[d] = Cardinality(Promised(d)') /\ consumed'[d] = Cardinality(Spent(d)')
    <3>1. Promised(d)' = Promised(d) \cup UnitsOf(k, a[d])
      <4>1. a[d] \in Nat /\ a[d] <= Estimate + 1
        BY <2>6
      <4>2. UnitsOf(k, a[d]) = {u \in Units : u[1] = k /\ u[2] <= a[d]}
        <5> HIDE DEF a
        <5> QED
          BY <4>1, BudgetAssumption DEF UnitsOf, Units
      <4>3. \A u \in Units : Held(u[1])' <=> Held(u[1]) \/ u[1] = k
        BY <2>3, <1>2 DEF Held, Units
      <4>4. Promised(d)' = {u \in Units : Held(u[1])' /\ u[2] <= Amount(u[1])[d]}
        BY DEF Promised, Amount
      <4> QED
        BY <4>2, <4>3, <4>4 DEF Promised
    <3>2. \A u \in Promised(d) : u[1] /= k
      BY <1>2 DEF Promised, Held
    <3>3. Cardinality(Promised(d)') = Cardinality(Promised(d)) + a[d]
      <4>1. a[d] \in Nat
        BY <2>6
      <4>2. IsFiniteSet(Promised(d))
        BY UnitsFinite
      <4>3. Cardinality(Promised(d) \cup UnitsOf(k, a[d])) = Cardinality(Promised(d)) + a[d]
        <5> HIDE DEF a
        <5> QED
          BY <3>2, <4>1, <4>2, UnitsAdded
      <4> QED
        BY <3>1, <4>3
    <3>4. \A j \in Key : resv'[j].actual = resv[j].actual
      BY <2>2, <2>3
    <3>5. Spent(d)' = Spent(d)
      BY <3>4 DEF Spent, Units
    <3>6. reserved[d] = Cardinality(Promised(d)) /\ consumed[d] = Cardinality(Spent(d))
      BY DEF AccountInv, LedgerAgrees
    <3>7. reserved'[d] = reserved[d] + a[d]
      BY <2>1 DEF Plus
    <3> QED
      BY <3>3, <3>5, <3>6, <3>7
  <2> QED
    BY <1>2, <2>3, <2>4, <2>5, <2>7, <2>8 DEF AccountInv, RowsInv, LedgerAgrees
<1> QED
  BY <1>1, <1>2

\* Store.settle with known usage: a promise of an open row becomes what it spent.
LEMMA SettleCounts ==
    ASSUME AccountInv, NEW k \in Key, resv[k].state /= "none", NEW actual \in [Dim -> Nat],
           actual["model_calls"] = Amount(k)["model_calls"], SettleKnown(k, actual)
    PROVE  /\ AccountInv' /\ \A j \in Key \ {k} : resv'[j] = resv[j]
           /\ resv'[k].state = IF resv[k].state = "settled" \/ ~Exceeds(k, actual)
                               THEN "settled" ELSE resv[k].state
<1>1. CASE resv[k].state = "settled" \/ Exceeds(k, actual)
  <2>1. UNCHANGED <<reserved, consumed, resv>>
    BY <1>1 DEF SettleKnown
  <2> QED
    BY SMTT(30), <1>1, <2>1 DEF AccountInv, RowsInv, RowTrue, Rowed, LedgerAgrees, Promised, Spent, Held
<1>2. CASE ~(resv[k].state = "settled" \/ Exceeds(k, actual))
  <2> DEFINE a == Amount(k)
             paid == [state |-> "settled", actual |-> actual]
  <2>1. /\ reserved' = Minus(reserved, a) /\ consumed' = Plus(consumed, actual)
        /\ resv' = [resv EXCEPT ![k] = paid]
    BY <1>2 DEF SettleKnown
  <2>2. resv \in [Key -> Row] /\ RowTrue(k) /\ resv[k].actual = Nothing /\ Held(k)
    BY <1>2 DEF AccountInv, RowsInv, RowTrue, Row, Held
  <2>3. /\ resv' \in [Key -> Row] /\ resv'[k].state = "settled" /\ resv'[k].actual = actual
        /\ \A j \in Key \ {k} : resv'[j] = resv[j]
    BY <2>1, <2>2 DEF Row
  <2>4. /\ a \in [Dim -> Nat] /\ a["children"] = 0 /\ \A d \in Dim : a[d] <= Estimate + 1
        /\ \A d \in Dim : actual[d] <= a[d]
    BY <1>2, AmountShape DEF Exceeds
  <2>5. \A j \in Key : RowTrue(j)'
    BY <2>3, <2>4 DEF AccountInv, RowsInv, RowTrue, Amount
  <2>6. IsFiniteSet(Rowed')
    <3>1. Rowed' = Rowed
      BY <2>2, <2>3 DEF Rowed, Held
    <3> QED
      BY <3>1 DEF AccountInv, RowsInv
  <2>7. ASSUME NEW d \in Dim \ {"children"}
        PROVE  reserved'[d] = Cardinality(Promised(d)') /\ consumed'[d] = Cardinality(Spent(d)')
    <3>1. a[d] \in Nat /\ a[d] <= Estimate + 1 /\ actual[d] \in Nat /\ actual[d] <= a[d]
      BY <2>4
    <3>2. Promised(d) = Promised(d)' \cup UnitsOf(k, a[d])
      <4>2. UnitsOf(k, a[d]) = {u \in Units : u[1] = k /\ u[2] <= a[d]}
        <5> HIDE DEF a
        <5> QED
          BY <3>1, BudgetAssumption DEF UnitsOf, Units
      <4>3. \A u \in Units : Held(u[1])' <=> Held(u[1]) /\ u[1] /= k
        BY <2>3 DEF Held, Units
      <4>4. Promised(d)' = {u \in Units : Held(u[1])' /\ u[2] <= Amount(u[1])[d]}
        BY DEF Promised, Amount
      <4> QED
        BY <4>2, <4>3, <4>4, <2>2 DEF Promised
    <3>3. Spent(d)' = Spent(d) \cup UnitsOf(k, actual[d])
      <4>1. UnitsOf(k, actual[d]) = {u \in Units : u[1] = k /\ u[2] <= actual[d]}
        <5> HIDE DEF a
        <5> QED
          BY <3>1, BudgetAssumption DEF UnitsOf, Units
      <4>2. resv[k].actual[d] = 0
        BY <2>2 DEF Nothing
      <4>3. Spent(d)' = {u \in Units : u[2] <= resv'[u[1]].actual[d]}
        BY DEF Spent
      <4>4. \A u \in Spent(d) : u[1] /= k
        BY <4>2, BudgetAssumption DEF Spent, Units
      <4> QED
        BY <4>1, <4>3, <4>4, <2>3 DEF Spent, Units
    <3>4. \A u \in Promised(d)' : u[1] /= k
      BY <2>3 DEF Promised, Held
    <3>5. \A u \in Spent(d) : u[1] /= k
      BY <2>2, BudgetAssumption DEF Spent, Units, Nothing
    <3>6. IsFiniteSet(Promised(d)) /\ IsFiniteSet(Spent(d)) /\ IsFiniteSet(Promised(d)')
      <4>1. IsFiniteSet(Promised(d)) /\ IsFiniteSet(Spent(d))
        BY UnitsFinite
      <4>2. Promised(d)' \subseteq Promised(d)
        BY <3>2
      <4> QED
        BY <4>1, <4>2, FS_Subset
    <3>7. Cardinality(Promised(d)) = Cardinality(Promised(d)') + a[d]
      <4> HIDE DEF a
      <4> QED
        BY <3>1, <3>2, <3>4, <3>6, UnitsAdded
    <3>8. Cardinality(Spent(d)') = Cardinality(Spent(d)) + actual[d]
      BY <3>1, <3>3, <3>5, <3>6, UnitsAdded
    <3>9. /\ reserved[d] = Cardinality(Promised(d)) /\ consumed[d] = Cardinality(Spent(d))
          /\ reserved'[d] = reserved[d] - a[d] /\ consumed'[d] = consumed[d] + actual[d]
      BY <2>1 DEF AccountInv, LedgerAgrees, Plus, Minus
    <3>10. Cardinality(Promised(d)') \in Nat
      BY <3>6, FS_CardinalityType
    <3> HIDE DEF a
    <3> QED
      BY <3>1, <3>7, <3>8, <3>9, <3>10
  <2>8. reserved' \in [Dim -> Nat] /\ consumed' \in [Dim -> Nat] /\ reserved'["children"] = 0
    <3>1. ASSUME NEW d \in Dim \ {"children"}  PROVE reserved'[d] \in Nat
      <4>1. Promised(d)' \subseteq Promised(d)
        BY <2>2, <2>3 DEF Promised, Held, Units, Amount
      <4>2. IsFiniteSet(Promised(d)')
        BY <4>1, UnitsFinite, FS_Subset
      <4> QED
        BY <2>7, <4>2, FS_CardinalityType
    <3>2. reserved'["children"] = 0
      <4> HIDE DEF a
      <4> QED
        BY <2>1, <2>4 DEF AccountInv, Minus, Dim
    <3>3. reserved' \in [Dim -> Nat]
      <4> HIDE DEF a
      <4> QED
        BY <2>1, <3>1, <3>2 DEF Minus
    <3>4. consumed' \in [Dim -> Nat]
      BY <2>1 DEF Plus, AccountInv
    <3> QED
      BY <3>2, <3>3, <3>4
  <2> QED
    BY <1>2, <2>3, <2>5, <2>6, <2>7, <2>8 DEF AccountInv, RowsInv, LedgerAgrees
<1> QED
  BY <1>1, <1>2

\* Store.settle with unknown usage keeps the promise.
LEMMA UnknownCounts ==
    ASSUME AccountInv, NEW k \in Key, resv[k].state /= "none", SettleUnknown(k)
    PROVE  /\ AccountInv' /\ \A j \in Key \ {k} : resv'[j] = resv[j]
           /\ resv'[k].state = IF resv[k].state = "settled" THEN "settled" ELSE "unknown"
<1>1. resv \in [Key -> Row] /\ \A j \in Key : RowTrue(j)
  BY DEF AccountInv, RowsInv
<1>2. /\ resv' \in [Key -> Row] /\ \A j \in Key \ {k} : resv'[j] = resv[j]
      /\ resv'[k].state = IF resv[k].state = "settled" THEN "settled" ELSE "unknown"
      /\ resv'[k].actual = resv[k].actual
  BY <1>1 DEF SettleUnknown, Row
<1>3. \A j \in Key : RowTrue(j)'
  BY <1>1, <1>2 DEF RowTrue, Amount
<1>4. Rowed' = Rowed
  BY <1>2 DEF Rowed
<1>5. \A j \in Key : Held(j)' <=> Held(j)
  BY <1>1, <1>2 DEF Held, Row
<1>6. \A d : Promised(d)' = Promised(d)
  BY <1>5 DEF Promised, Units, Amount
<1>7. \A d : Spent(d)' = Spent(d)
  BY <1>2 DEF Spent, Units
<1>8. reserved' = reserved /\ consumed' = consumed
  BY DEF SettleUnknown
<1> QED
  BY <1>2, <1>3, <1>4, <1>6, <1>7, <1>8 DEF AccountInv, RowsInv, LedgerAgrees

------------------------------------------------------------------------------
(* Calls and tools against their rows *)

\* A call's earlier attempts are accounted for, its later ones untouched, its own as far as it got.
CallRows(c) ==
    /\ call[c].pc = "new" => call[c].attempt = 1
    /\ call[c].pc = "settling" /\ call[c].then = "asking" => call[c].used = Unknown
    /\ \A n \in 1 .. MaxAttempts :
          /\ n < call[c].attempt => resv[<<c, n>>].state \in {"unknown", "settled"}
          /\ n > call[c].attempt => resv[<<c, n>>].state = "none"
          /\ n \in call[c].sent => resv[<<c, n>>].state /= "none"
    /\ call[c].pc \in {"new", "asking"} => resv[This(c)].state = "none"
    /\ call[c].pc \in {"starting", "wire", "settling"} => resv[This(c)].state = "reserved"
    /\ call[c].pc = "over" /\ resv[This(c)].state = "reserved" => call[c].left /= "no"

\* The row of an operation and the worker inside it.
ToolType == [state : {"prepared", "running", "done", "unknown", "dropped"},
             by : BudgetProc \cup {NoBudgetProc}]

\* A tool that was entered has its reservation, and ends with it open only in a worker's hands.
OpRows(o) ==
    /\ tool[o].state = "running" => tool[o].by \in BudgetProc
    /\ tool[o].state \in {"running", "done", "unknown"} => resv[o].state /= "none"
    /\ tool[o].by \in BudgetProc => resv[o].state /= "none"
    /\ tool[o].state \in {"done", "unknown"} /\ resv[o].state = "reserved" => tool[o].by \in BudgetProc

\* A permit outlives its attempt only when the started event could not be written.
PermitRow(k) == InAttempt(k) \/ (call[k[1]].pc = "over" /\ call[k[1]].left = "lost")

\* The ledger, and what every call, operation and permit has to do with its row.
LedgerInv ==
    /\ AccountInv
    /\ \A c \in Call : CallRows(c)
    /\ tool \in [Op -> ToolType] /\ \A o \in Op : OpRows(o)
    /\ permits \subseteq Attempt /\ \A k \in permits : PermitRow(k)
    /\ budgetAlive \subseteq BudgetProc /\ lostStarts \in 0 .. MaxLostStarts

\* The keys of a call's attempts are no operation's, nor another call's.
LEMMA CallKeys ==
    ASSUME CallInv, NEW c \in Call
    PROVE  /\ call[c] \in CallType /\ This(c) \in Attempt /\ This(c) \in Key /\ This(c) \notin Op
           /\ \A n \in 1 .. MaxAttempts : <<c, n>> \in Key /\ <<c, n>> \notin Op
           /\ Amount(This(c)) = Tokens(Estimate)
<1>1. call[c] \in CallType
  BY DEF CallInv
<1>2. \A n \in 1 .. MaxAttempts : <<c, n>> \in Attempt /\ <<c, n>> \notin Op
  BY BudgetAssumption DEF Attempt, Op
<1>3. call[c].attempt \in 1 .. MaxAttempts
  BY <1>1 DEF CallType
<1> QED
  BY <1>1, <1>2, <1>3 DEF This, Key, Amount

\* The rest of the ledger stays when a step concerns one call and its attempt's row.
LEMMA OneCallLedger ==
    ASSUME CallInv, LedgerInv, NEW c \in Call, AccountInv', CallRows(c)',
           \A d \in Call \ {c} : call'[d] = call[d],
           \A j \in Key \ {This(c)} : resv'[j] = resv[j],
           \A k \in permits' : k[1] = c => PermitRow(k)',
           permits' \subseteq permits \cup {This(c)}, UNCHANGED <<tool, budgetAlive>>,
           lostStarts' \in 0 .. MaxLostStarts
    PROVE  LedgerInv'
<1>1. ASSUME NEW d \in Call, d /= c  PROVE CallRows(d)'
  <2>1. call'[d] = call[d] /\ This(d)' = This(d) /\ This(d) \in Key \ {This(c)}
    BY <1>1, CallKeys DEF This
  <2>2. \A n \in 1 .. MaxAttempts : <<d, n>> \in Key \ {This(c)}
    BY <1>1, CallKeys DEF This
  <2>3. resv'[This(d)] = resv[This(d)] /\ \A n \in 1 .. MaxAttempts : resv'[<<d, n>>] = resv[<<d, n>>]
    BY <2>1, <2>2
  <2> QED
    BY <2>1, <2>3 DEF CallRows, LedgerInv
<1>2. ASSUME NEW o \in Op  PROVE OpRows(o)'
  <2>1. o \in Key \ {This(c)}
    BY CallKeys DEF Key
  <2> QED
    BY <2>1 DEF LedgerInv, OpRows
<1>3. permits' \subseteq Attempt
  BY CallKeys DEF LedgerInv
<1>4. ASSUME NEW k \in permits', k[1] /= c  PROVE PermitRow(k)'
  BY <1>3, <1>4 DEF LedgerInv, PermitRow, InAttempt, Attempt, This
<1> QED
  BY <1>1, <1>2, <1>3, <1>4 DEF LedgerInv

\* A step of one call that leaves the account alone.
LEMMA CallAlone ==
    ASSUME CallInv, LedgerInv, NEW c \in Call, CallRows(c)',
           \A d \in Call \ {c} : call'[d] = call[d],
           UNCHANGED <<reserved, consumed, resv, permits, tool, budgetAlive>>,
           \A k \in permits : k[1] = c => PermitRow(k)', lostStarts' \in 0 .. MaxLostStarts
    PROVE  LedgerInv'
<1>1. AccountInv'
  BY ZenonT(60) DEF LedgerInv, AccountInv, RowsInv, RowTrue, Rowed, LedgerAgrees, Promised, Spent, Held
<1> QED
  BY <1>1, OneCallLedger

\* The steps of a model call that move no money.
LEMMA CallKeepsLedger ==
    ASSUME CallInv, LedgerInv, NEW c \in Call,
           \/ CallExhausted(c) \/ CallRefused(c) \/ CallStarts(c) \/ CallStartLost(c) \/ CallAnswered(c)
           \/ CallFailed(c) \/ \E p \in BudgetProc : CallBegins(c, p)
    PROVE  LedgerInv'
<1> DEFINE n == call[c].attempt
<1>1. /\ call[c] \in CallType /\ n \in 1 .. MaxAttempts /\ This(c) = <<c, n>> /\ CallRows(c)
      /\ call \in [Call -> CallType] /\ \A k \in permits : PermitRow(k)
  BY CallKeys DEF CallInv, CallType, This, LedgerInv
<1>2. ASSUME NEW p \in BudgetProc, CallBegins(c, p)  PROVE LedgerInv'
  <2>1. /\ call'[c].pc = "asking" /\ call'[c].attempt = 1 /\ call'[c].sent = call[c].sent
        /\ call[c].pc = "new" /\ \A d \in Call \ {c} : call'[d] = call[d]
    BY <1>1, <1>2 DEF CallBegins, CallType
  <2>2. n = 1 /\ This(c)' = This(c) /\ resv' = resv
    BY <1>1, <1>2, <2>1 DEF CallRows, This, CallBegins
  <2>3. CallRows(c)'
    BY <1>1, <2>1, <2>2 DEF CallRows
  <2>4. \A k \in permits : k[1] /= c
    BY <1>1, <2>1 DEF PermitRow, InAttempt
  <2> QED
    BY <1>2, <2>1, <2>3, <2>4, CallAlone DEF CallBegins, LedgerInv
<1>3. ASSUME CallExhausted(c) \/ CallRefused(c)  PROVE LedgerInv'
  <2>1. /\ call'[c].pc = "over" /\ call'[c].attempt = n /\ call'[c].sent = call[c].sent
        /\ call[c].pc = "asking" /\ \A d \in Call \ {c} : call'[d] = call[d]
    BY <1>1, <1>3 DEF CallExhausted, CallRefused, Goto, At, CallType
  <2>2. This(c)' = This(c) /\ resv' = resv
    BY <1>1, <1>3, <2>1 DEF This, CallExhausted, CallRefused
  <2>3. CallRows(c)'
    BY <1>1, <2>1, <2>2 DEF CallRows
  <2>4. \A k \in permits : k[1] /= c
    BY <1>1, <2>1 DEF PermitRow, InAttempt
  <2> QED
    BY <1>3, <2>1, <2>3, <2>4, CallAlone DEF CallExhausted, CallRefused, LedgerInv
<1>4. ASSUME CallStarts(c)  PROVE LedgerInv'
  <2>1. /\ call'[c].pc = "wire" /\ call'[c].attempt = n /\ call'[c].sent = call[c].sent \cup {n}
        /\ call[c].pc = "starting" /\ \A d \in Call \ {c} : call'[d] = call[d]
    BY <1>1, <1>4 DEF CallStarts, At, CallType
  <2>2. This(c)' = This(c) /\ resv' = resv
    BY <1>1, <1>4, <2>1 DEF This, CallStarts
  <2>3. CallRows(c)'
    BY <1>1, <2>1, <2>2 DEF CallRows
  <2>4. ASSUME NEW k \in permits, k[1] = c  PROVE PermitRow(k)'
    <3>1. InAttempt(k)
      BY <1>1, <2>1, <2>4 DEF PermitRow
    <3>2. InAttempt(k)'
      BY <2>1, <2>4, <3>1 DEF InAttempt
    <3> QED
      BY <3>2 DEF PermitRow, InAttempt
  <2> QED
    BY <1>4, <2>1, <2>3, <2>4, CallAlone DEF CallStarts, LedgerInv
<1>5. ASSUME CallStartLost(c)  PROVE LedgerInv'
  <2>1. /\ call'[c].pc = "over" /\ call'[c].attempt = n /\ call'[c].sent = call[c].sent
        /\ call'[c].left = "lost"
        /\ call[c].pc = "starting" /\ \A d \in Call \ {c} : call'[d] = call[d]
    BY <1>1, <1>5 DEF CallStartLost, At, CallType
  <2>2. This(c)' = This(c) /\ resv' = resv
    BY <1>1, <1>5, <2>1 DEF This, CallStartLost
  <2>3. CallRows(c)'
    BY <1>1, <2>1, <2>2 DEF CallRows
  <2>4. \A k \in permits : k[1] = c => PermitRow(k)'
    BY <2>1 DEF PermitRow
  <2>5. lostStarts' \in 0 .. MaxLostStarts
    BY <1>5, BudgetAssumption DEF CallStartLost, LedgerInv
  <2> QED
    BY <1>5, <2>1, <2>3, <2>4, <2>5, CallAlone DEF CallStartLost
<1>6. ASSUME CallAnswered(c) \/ CallFailed(c)  PROVE LedgerInv'
  <2>1. /\ call'[c].pc = "settling" /\ call'[c].attempt = n /\ call'[c].sent = call[c].sent
        /\ call'[c].then = "asking" => call'[c].used = Unknown
        /\ call[c].pc = "wire" /\ \A d \in Call \ {c} : call'[d] = call[d]
    <3>1. CASE CallAnswered(c)
      <4>1. PICK used \in {Unknown} \cup Reports :
              call' = [call EXCEPT ![c].pc = "settling", ![c].used = used, ![c].then = "over"]
        BY <3>1 DEF CallAnswered
      <4> QED
        BY <1>1, <3>1, <4>1 DEF CallAnswered, At, CallType
    <3>2. CASE CallFailed(c)
      <4>1. PICK then \in {"over"} \cup (IF call[c].attempt < MaxAttempts THEN {"asking"} ELSE {}) :
              call' = [call EXCEPT ![c].pc = "settling", ![c].used = Unknown, ![c].then = then]
        BY <3>2 DEF CallFailed
      <4> QED
        BY <1>1, <3>2, <4>1 DEF CallFailed, At, CallType
    <3> QED
      BY <1>6, <3>1, <3>2
  <2>2. This(c)' = This(c) /\ resv' = resv
    BY <1>1, <1>6, <2>1 DEF This, CallAnswered, CallFailed
  <2>3. CallRows(c)'
    BY <1>1, <2>1, <2>2 DEF CallRows
  <2>4. ASSUME NEW k \in permits, k[1] = c  PROVE PermitRow(k)'
    <3>1. InAttempt(k)
      BY <1>1, <2>1, <2>4 DEF PermitRow
    <3>2. InAttempt(k)'
      BY <2>1, <2>4, <3>1 DEF InAttempt
    <3> QED
      BY <3>2 DEF PermitRow, InAttempt
  <2> QED
    BY <1>6, <2>1, <2>3, <2>4, CallAlone DEF CallAnswered, CallFailed, LedgerInv
<1> QED
  BY <1>2, <1>3, <1>4, <1>5, <1>6

\* The two steps that do: reserve before the request leaves, settle after it ended.
LEMMA CallPaysLedger ==
    ASSUME CallInv, LedgerInv, NEW c \in Call, CallReserves(c) \/ CallSettles(c)
    PROVE  LedgerInv'
<1> DEFINE n == call[c].attempt
<1>1. /\ call[c] \in CallType /\ n \in 1 .. MaxAttempts /\ This(c) = <<c, n>> /\ CallRows(c)
      /\ call \in [Call -> CallType] /\ \A k \in permits : PermitRow(k)
      /\ AccountInv /\ This(c) \in Key /\ Amount(This(c)) = Tokens(Estimate) /\ permits \subseteq Attempt
  BY CallKeys DEF CallInv, CallType, This, LedgerInv
<1>2. \A m \in 1 .. MaxAttempts : m /= n => <<c, m>> \in Key \ {This(c)}
  BY <1>1, CallKeys
<1>3. ASSUME CallReserves(c)  PROVE LedgerInv'
  <2>1. /\ call'[c].pc = "starting" /\ call'[c].attempt = n /\ call'[c].sent = call[c].sent
        /\ call[c].pc = "asking" /\ \A d \in Call \ {c} : call'[d] = call[d]
    BY <1>1, <1>3 DEF CallReserves, Goto, At, CallType
  <2>2. This(c)' = This(c) /\ resv[This(c)].state = "none"
    BY <1>1, <2>1 DEF This, CallRows
  <2>3. Reserve(This(c)) /\ UNCHANGED consumed
    BY <1>3 DEF CallReserves
  <2>4. /\ AccountInv' /\ resv'[This(c)].state = "reserved" /\ \A j \in Key \ {This(c)} : resv'[j] = resv[j]
    BY <1>1, <2>2, <2>3, ReserveCounts
  <2>5. \A m \in 1 .. MaxAttempts : m /= n => resv'[<<c, m>>] = resv[<<c, m>>]
    BY <1>2, <2>4
  <2>6. CallRows(c)'
    BY <1>1, <2>1, <2>2, <2>4, <2>5 DEF CallRows
  <2>7. \A k \in permits : k[1] /= c
    BY <1>1, <2>1 DEF PermitRow, InAttempt
  <2>8. permits' = permits \cup {This(c)} /\ UNCHANGED <<tool, budgetAlive, lostStarts>>
    BY <1>3 DEF CallReserves
  <2>9. PermitRow(This(c))'
    <3>1. This(c)'[1] = c /\ This(c)'[2] = n
      BY <1>1, <2>2
    <3>2. InAttempt(This(c))'
      BY <2>1, <3>1 DEF InAttempt
    <3> QED
      BY <3>2 DEF PermitRow, InAttempt
  <2>10. \A k \in permits' : k[1] = c => PermitRow(k)'
    BY <2>7, <2>8, <2>9, <2>2
  <2> QED
    BY <2>1, <2>4, <2>6, <2>8, <2>10, OneCallLedger DEF LedgerInv
<1>4. ASSUME CallSettles(c)  PROVE LedgerInv'
  <2> DEFINE over == call[c].used > Estimate
             next == IF over THEN "over" ELSE call[c].then
  <2>1. /\ call'[c].pc = next /\ call'[c].attempt = (IF next = "asking" THEN n + 1 ELSE n)
        /\ call'[c].sent = call[c].sent /\ call'[c].left = (IF over THEN "over" ELSE call[c].left)
        /\ call'[c].then = "over" /\ \A d \in Call \ {c} : call'[d] = call[d]
    BY <1>1, <1>4 DEF CallSettles, CallType
  <2>2. call[c].pc = "settling" /\ resv[This(c)].state = "reserved" /\ next \in {"over", "asking"}
    BY <1>1, <1>4 DEF CallSettles, At, CallRows, CallType
  <2>3. /\ next = "asking" => call[c].used = Unknown /\ n < MaxAttempts
        /\ call[c].used \in {Unknown} \cup Reports
    BY <1>1, <2>2 DEF CallRows, CallInv, CallType
  <2>4. permits' = permits \ {This(c)} /\ UNCHANGED <<tool, budgetAlive, lostStarts>>
    BY <1>4 DEF CallSettles
  <2>5. /\ AccountInv' /\ \A j \in Key \ {This(c)} : resv'[j] = resv[j]
        /\ ~over => resv'[This(c)].state \in {"settled", "unknown"}
        /\ resv'[This(c)].state /= "none"
    <3>1. CASE call[c].used = Unknown
      <4>1. SettleUnknown(This(c))
        BY <1>4, <3>1 DEF CallSettles
      <4> QED
        BY <1>1, <2>2, <4>1, UnknownCounts
    <3>2. CASE call[c].used /= Unknown
      <4> DEFINE actual == Tokens(call[c].used)
      <4>1. SettleKnown(This(c), actual)
        BY <1>4, <3>2 DEF CallSettles
      <4>2. call[c].used \in Nat
        BY <2>3, <3>2, BudgetAssumption
      <4>3. actual \in [Dim -> Nat] /\ actual["model_calls"] = Amount(This(c))["model_calls"]
        BY <1>1, <4>2 DEF Tokens, Nothing, Dim
      <4>4. ~over => ~Exceeds(This(c), actual)
        <5>1. \A d \in Dim : /\ actual[d] = IF d = "model_calls" THEN 1
                                           ELSE IF d = "total_tokens" THEN call[c].used ELSE 0
                            /\ Amount(This(c))[d] = IF d = "model_calls" THEN 1
                                           ELSE IF d = "total_tokens" THEN Estimate ELSE 0
          BY <1>1 DEF Tokens, Nothing, Dim
        <5> HIDE DEF actual
        <5> QED
          BY <4>2, <5>1, BudgetAssumption DEF Exceeds
      <4> HIDE DEF actual
      <4>5. /\ AccountInv' /\ \A j \in Key \ {This(c)} : resv'[j] = resv[j]
            /\ resv'[This(c)].state = IF resv[This(c)].state = "settled" \/ ~Exceeds(This(c), actual)
                                       THEN "settled" ELSE resv[This(c)].state
        BY <1>1, <2>2, <4>1, <4>3, SettleCounts
      <4> QED
        BY <2>2, <4>4, <4>5
    <3> QED
      BY <3>1, <3>2
  <2>6. \A m \in 1 .. MaxAttempts : m /= n => resv'[<<c, m>>] = resv[<<c, m>>]
    BY <1>2, <2>5
  <2>7. \A k \in permits' : k[1] /= c
    BY <1>1, <2>2, <2>4 DEF PermitRow, InAttempt, Attempt
  <2>8. CallRows(c)'
    <3>1. CASE next = "over"
      <4>1. This(c)' = This(c)
        BY <2>1, <3>1 DEF This
      <4>2. call'[c].pc = "over" /\ call'[c].attempt = n
        BY <2>1, <3>1
      <4>3. resv'[This(c)].state = "reserved" => call'[c].left /= "no"
        BY <2>1, <2>5
      <4> HIDE DEF next, over
      <4> QED
        BY <1>1, <2>1, <2>5, <2>6, <4>1, <4>2, <4>3 DEF CallRows
    <3>2. CASE next = "asking"
      <4>1. ~over /\ n + 1 \in 1 .. MaxAttempts
        BY <1>1, <2>3, <3>2, BudgetAssumption DEF Unknown
      <4>2. This(c)' = <<c, n + 1>> /\ call'[c].pc = "asking" /\ call'[c].attempt = n + 1
        BY <2>1, <3>2 DEF This
      <4>3. resv'[<<c, n>>].state \in {"unknown", "settled"} /\ resv'[<<c, n + 1>>].state = "none"
        BY <1>1, <2>5, <2>6, <4>1 DEF CallRows
      <4> HIDE DEF next, over
      <4> QED
        BY <1>1, <2>1, <2>6, <4>1, <4>2, <4>3 DEF CallRows
    <3> QED
      BY <2>2, <3>1, <3>2
  <2> QED
    BY <2>1, <2>4, <2>5, <2>7, <2>8, OneCallLedger DEF LedgerInv
<1> QED
  BY <1>3, <1>4

\* The rest of the ledger stays when a step concerns one operation and its row.
LEMMA OneToolLedger ==
    ASSUME CallInv, LedgerInv, NEW o \in Op, NEW q \in ToolType, tool' = [tool EXCEPT ![o] = q],
           AccountInv', \A j \in Key \ {o} : resv'[j] = resv[j], OpRows(o)',
           UNCHANGED <<permits, call, budgetAlive, lostStarts>>
    PROVE  LedgerInv'
<1>1. ASSUME NEW c \in Call  PROVE CallRows(c)'
  <2>1. This(c)' = This(c) /\ This(c) \in Key \ {o} /\ \A n \in 1 .. MaxAttempts : <<c, n>> \in Key \ {o}
    BY CallKeys DEF This
  <2>2. resv'[This(c)] = resv[This(c)] /\ \A n \in 1 .. MaxAttempts : resv'[<<c, n>>] = resv[<<c, n>>]
    BY <2>1
  <2>3. call'[c] = call[c]
    OBVIOUS
  <2> QED
    BY <2>1, <2>2, <2>3 DEF CallRows, LedgerInv
<1>2. ASSUME NEW p \in Op, p /= o  PROVE OpRows(p)'
  <2>1. p \in Key \ {o} /\ tool'[p] = tool[p]
    BY <1>2 DEF Key, LedgerInv
  <2> QED
    BY <2>1 DEF LedgerInv, OpRows
<1>3. tool' \in [Op -> ToolType]
  BY DEF LedgerInv
<1>4. \A k \in permits' : PermitRow(k)'
  BY DEF LedgerInv, PermitRow, InAttempt
<1> QED
  BY <1>1, <1>2, <1>3, <1>4 DEF LedgerInv

\* A step of one operation that leaves the account alone.
LEMMA ToolAlone ==
    ASSUME CallInv, LedgerInv, NEW o \in Op, NEW q \in ToolType, tool' = [tool EXCEPT ![o] = q],
           UNCHANGED <<reserved, consumed, resv, permits, call, budgetAlive, lostStarts>>, OpRows(o)'
    PROVE  LedgerInv'
<1>1. AccountInv'
  BY DEF LedgerInv, AccountInv, RowsInv, RowTrue, Rowed, LedgerAgrees, Promised, Spent, Held
<1> QED
  BY <1>1, OneToolLedger

\* The steps of a tool call: ToolGateway.execute and what recovery and the end of a run do to its row.
LEMMA ToolKeepsLedger ==
    ASSUME CallInv, LedgerInv, NEW o \in Op,
           ToolStep(o) \/ \E p \in BudgetProc : ToolRuns(o, p) \/ PauseEntered(o, p)
    PROVE  LedgerInv'
<1>1. /\ tool \in [Op -> ToolType] /\ tool[o] \in ToolType /\ OpRows(o) /\ AccountInv /\ o \in Key
      /\ budgetAlive \subseteq BudgetProc /\ NoBudgetProc \notin BudgetProc
      /\ Inside(o) => tool[o].by \in BudgetProc
  BY BudgetAssumption DEF LedgerInv, Key, Inside
<1>2. /\ OneTool \in [Dim -> Nat] /\ OneTool["model_calls"] = Amount(o)["model_calls"]
      /\ ~Exceeds(o, OneTool)
  BY DEF OneTool, Nothing, Dim, Amount, Exceeds
<1>3. ASSUME NEW p \in BudgetProc, ToolRuns(o, p)  PROVE LedgerInv'
  <2> DEFINE q == [state |-> "running", by |-> p]
  <2>1. q \in ToolType /\ tool' = [tool EXCEPT ![o] = q] /\ tool'[o] = q
    BY <1>1, <1>3 DEF ToolRuns, ToolType
  <2>2. Reserve(o) /\ UNCHANGED <<consumed, permits, call, budgetAlive, lostStarts>>
    BY <1>3 DEF ToolRuns
  <2>3. AccountInv' /\ resv'[o].state /= "none" /\ \A j \in Key \ {o} : resv'[j] = resv[j]
    BY <1>1, <2>2, ReserveCounts
  <2>4. OpRows(o)'
    BY <2>1, <2>3 DEF OpRows
  <2> QED
    BY <2>1, <2>2, <2>3, <2>4, OneToolLedger
<1>4. ASSUME NEW p \in BudgetProc, PauseEntered(o, p)  PROVE LedgerInv'
  <2> DEFINE q == [tool[o] EXCEPT !.by = p]
  <2>1. /\ q \in ToolType /\ tool' = [tool EXCEPT ![o] = q] /\ tool'[o] = q
        /\ q.by = p /\ q.state = "prepared"
    BY <1>1, <1>4 DEF PauseEntered, ToolType
  <2>2. Reserve(o) /\ UNCHANGED <<consumed, permits, call, budgetAlive, lostStarts>>
    BY <1>4 DEF PauseEntered
  <2>3. AccountInv' /\ resv'[o].state /= "none" /\ \A j \in Key \ {o} : resv'[j] = resv[j]
    BY <1>1, <2>2, ReserveCounts
  <2>4. OpRows(o)'
    BY <2>1, <2>3 DEF OpRows
  <2> HIDE DEF q
  <2> QED
    BY <2>1, <2>2, <2>3, <2>4, OneToolLedger
<1>5. ASSUME PauseLeft(o)  PROVE LedgerInv'
  <2> DEFINE q == [tool[o] EXCEPT !.by = NoBudgetProc]
  <2>1. /\ q \in ToolType /\ tool' = [tool EXCEPT ![o] = q] /\ tool'[o] = q
        /\ q.by = NoBudgetProc /\ q.state = "prepared" /\ resv' = resv
    BY <1>1, <1>5 DEF PauseLeft, ToolType
  <2>2. OpRows(o)'
    BY <1>1, <2>1 DEF OpRows
  <2> HIDE DEF q
  <2> QED
    BY <1>5, <2>1, <2>2, ToolAlone DEF PauseLeft
<1>6. ASSUME ToolFinishes(o) \/ ToolRecovered(o)  PROVE LedgerInv'
  <2> DEFINE q(s) == [tool[o] EXCEPT !.state = s]
  <2>1. PICK s \in {"done", "unknown"} : tool' = [tool EXCEPT ![o] = q(s)]
    BY <1>6 DEF ToolFinishes, ToolRecovered
  <2>2. /\ q(s) \in ToolType /\ tool'[o] = q(s) /\ q(s).state = s /\ q(s).by = tool[o].by
    BY <1>1, <2>1 DEF ToolType
  <2>3. resv' = resv /\ resv[o].state /= "none" /\ (resv[o].state = "reserved" => tool[o].by \in BudgetProc)
    BY <1>1, <1>6 DEF ToolFinishes, ToolRecovered, OpRows
  <2>4. OpRows(o)'
    BY <1>1, <2>2, <2>3 DEF OpRows
  <2> HIDE DEF q
  <2> QED
    BY <1>6, <2>1, <2>2, <2>4, ToolAlone DEF ToolFinishes, ToolRecovered
<1>7. ASSUME ToolSettles(o)  PROVE LedgerInv'
  <2> DEFINE q == [tool[o] EXCEPT !.by = NoBudgetProc]
  <2>1. /\ q \in ToolType /\ tool' = [tool EXCEPT ![o] = q] /\ tool'[o] = q
        /\ q.by = NoBudgetProc /\ q.state \in {"done", "unknown"}
    BY <1>1, <1>7 DEF ToolSettles, ToolType
  <2>2. resv[o].state /= "none" /\ UNCHANGED <<permits, call, budgetAlive, lostStarts>>
    BY <1>1, <1>7 DEF ToolSettles, OpRows
  <2>3. AccountInv' /\ resv'[o].state \in {"settled", "unknown"} /\ \A j \in Key \ {o} : resv'[j] = resv[j]
    <3>1. CASE tool[o].state = "done"
      BY <1>1, <1>2, <1>7, <2>2, <3>1, SettleCounts DEF ToolSettles
    <3>2. CASE tool[o].state /= "done"
      BY <1>1, <1>7, <2>2, <3>2, UnknownCounts DEF ToolSettles
    <3> QED
      BY <3>1, <3>2
  <2>4. OpRows(o)'
    BY <1>1, <2>1, <2>3 DEF OpRows
  <2> HIDE DEF q
  <2> QED
    BY <2>1, <2>2, <2>3, <2>4, OneToolLedger
<1>8. ASSUME ToolDropped(o)  PROVE LedgerInv'
  <2> DEFINE q == [tool[o] EXCEPT !.state = "dropped"]
  <2>1. /\ q \in ToolType /\ tool' = [tool EXCEPT ![o] = q] /\ tool'[o] = q
        /\ q.by = tool[o].by /\ q.state = "dropped" /\ UNCHANGED <<permits, call, budgetAlive, lostStarts>>
    BY <1>1, <1>8 DEF ToolDropped, ToolType
  <2>2. CASE resv[o].state = "none"
    <3>1. UNCHANGED <<reserved, consumed, resv>>
      BY <1>8, <2>2 DEF ToolDropped
    <3>2. OpRows(o)'
      BY <1>1, <2>1, <3>1 DEF OpRows
    <3> HIDE DEF q
    <3> QED
      BY <2>1, <3>1, <3>2, ToolAlone
  <2>3. CASE resv[o].state /= "none"
    <3>1. SettleKnown(o, OneTool)
      BY <1>8, <2>3 DEF ToolDropped
    <3>2. AccountInv' /\ resv'[o].state = "settled" /\ \A j \in Key \ {o} : resv'[j] = resv[j]
      BY <1>1, <1>2, <2>3, <3>1, SettleCounts
    <3>3. OpRows(o)'
      BY <2>1, <3>2 DEF OpRows
    <3> HIDE DEF q
    <3> QED
      BY <2>1, <3>2, <3>3, OneToolLedger
  <2> QED
    BY <2>2, <2>3
<1> QED
  BY <1>3, <1>4, <1>5, <1>6, <1>7, <1>8 DEF ToolStep

\* Every step of workers, providers and runs keeps the ledger.
LEMMA LedgerKept == ASSUME CallInv, LedgerInv, [BudgetNext]_bvars  PROVE LedgerInv'
<1>1. ASSUME NEW c \in Call, CallStep(c) \/ \E p \in BudgetProc : CallBegins(c, p)  PROVE LedgerInv'
  BY <1>1, CallKeepsLedger, CallPaysLedger DEF CallStep
<1>2. ASSUME NEW o \in Op, ToolStep(o) \/ \E p \in BudgetProc : ToolRuns(o, p) \/ PauseEntered(o, p)
      PROVE  LedgerInv'
  BY <1>2, ToolKeepsLedger
<1>3. ASSUME Delegates  PROVE LedgerInv'
  <2>1. /\ consumed' = Plus(consumed, OneChild)
        /\ UNCHANGED <<reserved, resv, permits, call, tool, budgetAlive, lostStarts>>
    BY <1>3 DEF Delegates
  <2>2. consumed' \in [Dim -> Nat] /\ \A d \in Dim \ {"children"} : consumed'[d] = consumed[d]
    BY <2>1 DEF Plus, OneChild, Nothing, LedgerInv, AccountInv
  <2>3. AccountInv'
    BY ZenonT(60), <2>1, <2>2 DEF LedgerInv, AccountInv, RowsInv, RowTrue, Rowed, LedgerAgrees, Promised, Spent, Held
  <2> QED
    BY <2>1, <2>3 DEF LedgerInv, CallRows, OpRows, This, PermitRow, InAttempt
<1>4. ASSUME UNCHANGED <<reserved, consumed, resv, permits, call, tool, lostStarts>>,
             budgetAlive' \subseteq budgetAlive
      PROVE  LedgerInv'
  <2>1. AccountInv'
    BY <1>4 DEF LedgerInv, AccountInv, RowsInv, RowTrue, Rowed, LedgerAgrees, Promised, Spent, Held
  <2> QED
    BY <1>4, <2>1 DEF LedgerInv, CallRows, OpRows, This, PermitRow, InAttempt
<1> QED
  BY <1>1, <1>2, <1>3, <1>4 DEF BudgetNext, BudgetProcDies, bvars

\* A tree begins with an empty ledger.
LEMMA LedgerStarts == ASSUME BudgetInit  PROVE CallInv /\ LimitInv /\ PermitInv /\ LedgerInv
<1>1. CallInv /\ LimitInv
  BY BudgetAssumption DEF BudgetInit, CallInv, CallType, LimitInv, WithinLimit, Nothing
<1>2. PermitInv
  BY BudgetAssumption, FS_EmptySet DEF BudgetInit, PermitInv, LivePermits
<1>3. /\ resv \in [Key -> Row] /\ Rowed = {} /\ \A k \in Key : resv[k].state = "none" /\ RowTrue(k)
      /\ \A k \in Key : resv[k].actual = Nothing
  BY DEF BudgetInit, Row, Nothing, Rowed, RowTrue
<1>4. IsFiniteSet({}) /\ Cardinality({}) = 0
  BY FS_EmptySet
<1>5. ASSUME NEW d \in Dim  PROVE Promised(d) = {} /\ Spent(d) = {}
  <2>1. Promised(d) = {}
    BY <1>3 DEF Promised, Held, Units
  <2>2. \A k \in Key : resv[k].actual[d] = 0
    BY <1>3 DEF Nothing
  <2>3. Spent(d) = {}
    BY <2>2, BudgetAssumption DEF Spent, Units
  <2> QED
    BY <2>1, <2>3
<1>6. reserved \in [Dim -> Nat] /\ consumed \in [Dim -> Nat] /\ \A d \in Dim : reserved[d] = 0 /\ consumed[d] = 0
  BY DEF BudgetInit, Nothing
<1>7. AccountInv
  BY <1>3, <1>4, <1>5, <1>6 DEF AccountInv, RowsInv, LedgerAgrees, Dim
<1>8. ASSUME NEW c \in Call  PROVE CallRows(c)
  <2>1. \A n \in 1 .. MaxAttempts : resv[<<c, n>>].state = "none"
    BY <1>1, <1>3, CallKeys
  <2>2. resv[This(c)].state = "none"
    BY <1>1, <1>3, CallKeys
  <2>3. call[c].pc = "new" /\ call[c].attempt = 1 /\ call[c].sent = {}
    BY DEF BudgetInit
  <2> QED
    BY <2>1, <2>2, <2>3, BudgetAssumption DEF CallRows
<1>9. tool \in [Op -> ToolType] /\ \A o \in Op : OpRows(o)
  BY BudgetAssumption DEF BudgetInit, ToolType, OpRows
<1> QED
  BY <1>1, <1>2, <1>7, <1>8, <1>9, BudgetAssumption DEF LedgerInv, BudgetInit

\* No request leaves without its row, and every row of an attempt counts one model call.
LEMMA RequestsCounted ==
    ASSUME CallInv, LimitInv, LedgerInv  PROVE RequestsCapped
<1> DEFINE sent == {k \in Attempt : k[2] \in call[k[1]].sent}
           P == Promised("model_calls")
           S == Spent("model_calls")
           f == [k \in sent |-> <<k, 1>>]
<1>1. "model_calls" \in Dim /\ AccountInv
  BY DEF Dim, LedgerInv
<1>2. IsFiniteSet(P) /\ IsFiniteSet(S)
  BY <1>1, UnitsFinite
<1>3. ASSUME NEW k \in sent  PROVE <<k, 1>> \in P \cup S
  <2>1. PICK c \in Call, n \in 1 .. MaxAttempts : k = <<c, n>>
    BY DEF Attempt
  <2>2. k \in Key /\ k \notin Op /\ resv[k].state /= "none"
    BY <2>1, CallKeys DEF LedgerInv, CallRows
  <2>3. Amount(k)["model_calls"] = 1
    BY <2>2 DEF Amount, Tokens, Nothing, Dim
  <2>4. <<k, 1>> \in Units
    BY <2>2, BudgetAssumption DEF Units
  <2>5. Held(k) \/ (resv[k].state = "settled" /\ resv[k].actual["model_calls"] = 1)
    BY <1>1, <2>2, <2>3 DEF AccountInv, RowsInv, RowTrue, Row, Held
  <2> QED
    BY <2>3, <2>4, <2>5 DEF Promised, Spent
<1>4. IsFiniteSet(P \cup S) /\ Cardinality(P \cup S) <= Cardinality(P) + Cardinality(S)
  <2>1. /\ IsFiniteSet(P \cup S)
        /\ Cardinality(P \cup S) = Cardinality(P) + Cardinality(S) - Cardinality(P \cap S)
    BY <1>2, FS_Union
  <2>2. IsFiniteSet(P \cap S)
    BY <1>2, FS_Intersection
  <2>3. Cardinality(P) \in Nat /\ Cardinality(S) \in Nat /\ Cardinality(P \cap S) \in Nat
    BY <1>2, <2>2, FS_CardinalityType
  <2> QED
    BY <2>1, <2>3
<1>5. IsFiniteSet(sent) /\ Cardinality(sent) <= Cardinality(P \cup S)
  <2>1. f \in Injection(sent, P \cup S)
    <3> HIDE DEF P, S, sent
    <3> QED
      BY <1>3 DEF Injection, IsInjective
  <2> QED
    BY <1>4, <2>1, FS_Injection
<1>6. Cardinality(sent) \in Nat /\ Cardinality(P \cup S) \in Nat
  BY <1>4, <1>5, FS_CardinalityType
<1>7. /\ Cardinality(P) + Cardinality(S) <= Limits["model_calls"] /\ Limits["model_calls"] \in Nat
      /\ Cardinality(P) \in Nat /\ Cardinality(S) \in Nat
  <2>1. reserved["model_calls"] = Cardinality(P) /\ consumed["model_calls"] = Cardinality(S)
    BY <1>1 DEF AccountInv, LedgerAgrees
  <2> QED
    BY <1>1, <1>2, <2>1, FS_CardinalityType, BudgetAssumption DEF LimitInv, WithinLimit
<1>8. Cardinality(sent) <= Limits["model_calls"]
  <2> HIDE DEF P, S, sent
  <2> QED
    BY <1>4, <1>5, <1>6, <1>7
<1> QED
  BY <1>8 DEF RequestsCapped

\* What stays open has a reason.
LEMMA OpenHasReason == ASSUME CallInv, LedgerInv  PROVE OpenExplained
<1>1. ASSUME NEW k \in Attempt, resv[k].state = "reserved", ~InAttempt(k)  PROVE call[k[1]].left /= "no"
  <2>1. PICK c \in Call, n \in 1 .. MaxAttempts : k = <<c, n>>
    BY DEF Attempt
  <2>2. CallRows(c) /\ call[c].attempt \in 1 .. MaxAttempts /\ call[c] \in CallType
    BY CallKeys DEF LedgerInv, CallType
  <2>3. n = call[c].attempt
    BY <1>1, <2>1, <2>2 DEF CallRows
  <2>4. k = This(c) /\ call[c].pc = "over"
    BY <1>1, <2>1, <2>2, <2>3 DEF This, InAttempt, CallRows, CallType
  <2> QED
    BY <1>1, <2>1, <2>2, <2>4 DEF CallRows
<1>2. ASSUME NEW k \in Attempt, k \in LivePermits, ~InAttempt(k)  PROVE call[k[1]].left = "lost"
  BY <1>2 DEF LivePermits, LedgerInv, PermitRow
<1>3. ASSUME NEW o \in Op, resv[o].state = "reserved", tool[o].state \in {"done", "unknown"}, ~Inside(o)
      PROVE  budgetAlive /= BudgetProc
  BY <1>3 DEF LedgerInv, OpRows, Inside
<1> QED
  BY <1>1, <1>2, <1>3 DEF OpenExplained

------------------------------------------------------------------------------
(* What the account promises *)

\* The inductive invariant of the budget: calls, limits, permits and the ledger with its rows.
BudgetInv == CallInv /\ LimitInv /\ PermitInv /\ LedgerInv

\* Every step of workers, providers and runs keeps all of it.
LEMMA BudgetKept == ASSUME BudgetInv, [BudgetNext]_bvars  PROVE BudgetInv'
  BY CallKeeps, LimitKeeps, PermitKeeps, LedgerKept DEF BudgetInv

\* And it makes the account what Store.reserve and Store.settle promise.
LEMMA BudgetPromise == ASSUME BudgetInv  PROVE BudgetTypeOK /\ WithinLimit /\ ReservationsSound
<1>1. WithinLimit
  BY DEF BudgetInv, LimitInv
<1>2. ReservationsSound
  BY RequestsCounted, WirePermits, OpenHasReason
  DEF BudgetInv, ReservationsSound, LedgerInv, AccountInv
<1>3. BudgetTypeOK
  BY DEF BudgetInv, BudgetTypeOK, CallInv, CallType, LedgerInv, AccountInv, RowsInv, Row, ToolType
<1> QED
  BY <1>1, <1>2, <1>3

\* Store.reserve and Store.settle: whatever is settled, lost or left unknown, and whichever
\* worker dies when, what a tree has spent and been promised stays within every limit.
THEOREM SpendingWithinLimit == BudgetSpec => []WithinLimit
<1>1. BudgetInit => BudgetInv
  BY LedgerStarts DEF BudgetInv
<1> QED
  BY <1>1, BudgetKept, BudgetPromise, PTL DEF BudgetSpec

\* Store.reserve, Store.settle, ModelBudgetAdapter and ToolGateway.execute: the account is the sum
\* of its rows, no more requests reach a provider than it allows nor are more on the wire than
\* there are permits, and what stays open was left so by a death, a lost event or an overrun.
THEOREM ReservationsHold == BudgetSpec => [](BudgetTypeOK /\ ReservationsSound)
<1>1. BudgetInit => BudgetInv
  BY LedgerStarts DEF BudgetInv
<1> QED
  BY <1>1, BudgetKept, BudgetPromise, PTL DEF BudgetSpec


------------------------------------------------------------------------------
(* Messages added to a turn *)

\* A nonempty set of naturals has a least element.
LEMMA LeastNatural ==
    ASSUME NEW T \in SUBSET Nat, T /= {}
    PROVE  \E n \in T : \A m \in T : n <= m
<1> DEFINE less == {pair \in Nat \X Nat : pair[1] < pair[2]}
<1>1. \A m, n \in Nat : m < n => <<m, n>> \in less
  OBVIOUS
<1>2. IsWellFoundedOn(less, Nat)
  BY NatLessThanWellFounded, Zenon DEF OpToRel
<1> HIDE DEF less
<1>3. \E n \in T : \A m \in T : <<m, n>> \notin less
  BY <1>2, WFMin
<1>4. PICK n \in T : \A m \in T : <<m, n>> \notin less
  BY <1>3
<1>5. \A m \in T : m \in Nat /\ n \in Nat /\ ~ (m < n)
  BY <1>1, <1>4
<1>6. \A m \in T : n <= m
  BY <1>5
<1> QED
  BY <1>6

\* A bounded nonempty set of revisions has a newest one.
LEMMA NewestRevision ==
    ASSUME NEW S \in SUBSET Nat, NEW n \in Nat, S /= {}, \A i \in S : i <= n
    PROVE  MaxOf(S) \in S /\ \A i \in S : i <= MaxOf(S)
<1> DEFINE Above == {k \in Nat : \A i \in S : i <= k}
<1>1. PICK k \in Above : \A j \in Above : k <= j
  <2>1. Above \subseteq Nat /\ Above /= {}
    OBVIOUS
  <2> HIDE DEF Above
  <2> QED
    BY <2>1, LeastNatural
<1>2. k \in S
  <2>1. SUFFICES ASSUME k \notin S PROVE FALSE
    OBVIOUS
  <2>2. PICK i \in S : TRUE
    OBVIOUS
  <2>3. \A j \in S : j <= k - 1
    BY <2>1, <1>1
  <2>4. k - 1 \in Nat
    BY <2>2, <2>3
  <2> QED
    BY <1>1, <2>3, <2>4
<1>3. \A i \in S : k >= i
  BY <1>1
<1> HIDE DEF Above
<1>4. \E x \in S : \A y \in S : x >= y
  BY <1>2, <1>3
<1> QED
  BY <1>4 DEF MaxOf

------------------------------------------------------------------------------
\* The newest input, and what a resumed task's revision can be, are revisions.
LEMMA LatestIsRevision ==
    ASSUME SteeringTypeOK
    PROVE  /\ Latest \in Revision
           /\ run.input <= Latest
           /\ \A i \in Pending : i <= Latest
<1>1. run.input \in Revision /\ Pending \subseteq Command /\ MaxInput \in Nat
  BY SteeringAssumption DEF SteeringTypeOK, Pending
<1> DEFINE S == {run.input} \cup Pending
<1>2. \A i \in S : i \in Revision /\ i \in Nat /\ i <= MaxInput
  <2>1. ASSUME NEW i \in S  PROVE i = run.input \/ i \in Command
    BY <1>1
  <2>2. Command \subseteq Revision
    BY <1>1 DEF Revision, Command
  <2>3. ASSUME NEW i \in S  PROVE i \in Revision
    BY <1>1, <2>1, <2>2
  <2>4. \A i \in Revision : i \in Nat /\ i <= MaxInput
    BY <1>1 DEF Revision
  <2> QED
    BY <2>3, <2>4
<1>3. MaxOf(S) \in S /\ \A i \in S : i <= MaxOf(S)
  BY <1>1, <1>2, NewestRevision
<1>4. Latest = MaxOf(S)
  BY DEF Latest
<1> QED
  BY <1>2, <1>3, <1>4

\* The newest of two or of several inputs of a task is an input again.
LEMMA TaskInput ==
    ASSUME SteeringTypeOK, NEW i \in 0 .. MaxInput, NEW S \in SUBSET Command
    PROVE  MaxOf({i} \cup S) \in 0 .. MaxInput /\ (S /= {} => MaxOf({i} \cup S) \in Revision)
<1>1. MaxInput \in Nat
  BY SteeringAssumption
<1> DEFINE T == {i} \cup S
<1>2. \A j \in T : j \in Nat /\ j <= MaxInput
  BY <1>1 DEF Command
<1>3. MaxOf(T) \in T /\ \A j \in T : j <= MaxOf(T)
  BY <1>1, <1>2, NewestRevision
<1>4. MaxOf(T) \in 0 .. MaxInput
  <2>1. MaxOf(T) \in Nat /\ MaxOf(T) <= MaxInput
    BY <1>2, <1>3
  <2> QED
    BY <1>1, <2>1
<1>5. ASSUME NEW j \in S  PROVE MaxOf(T) \in Revision
  <2>1. j \in T /\ j >= 2 /\ j \in Nat
    BY <1>1 DEF Command
  <2>2. j <= MaxOf(T)
    BY <1>3, <2>1
  <2> HIDE DEF T
  <2> QED
    BY <1>1, <1>4, <2>1, <2>2 DEF Revision
<1> QED
  BY <1>4, <1>5
------------------------------------------------------------------------------

\* Of two revisions one is the newest.
LEMMA NewerOfTwo ==
    ASSUME NEW i \in Nat, NEW j \in Nat
    PROVE  MaxOf({i, j}) \in {i, j} /\ i <= MaxOf({i, j})
<1>1. PICK n \in Nat : i <= n /\ j <= n
  <2>1. (i <= i /\ j <= i) \/ (i <= j /\ j <= j)
    OBVIOUS
  <2> QED
    BY <2>1
<1>2. {i, j} \in SUBSET Nat /\ {i, j} /= {} /\ \A k \in {i, j} : k <= n
  BY <1>1
<1> QED
  BY <1>2, NewestRevision

\* The thread of a running task is a checkpoint; what waits to be acknowledged is in the
\* conversation, in the thread and in the pointer alike; unless a stale pointer was resumed,
\* the conversation has every consumed message; nothing is pending once the run completed.
SteeringInv ==
    /\ SteeringTypeOK
    /\ run.status = "running" => thread \in CheckpointOf
    /\ thread.ids \subseteq thread.known
    /\ run.pointer.ids \subseteq run.pointer.known
    /\ ~stale => \A i \in Command : commands[i] = "consumed" => i \in thread.known
    /\ run.status = "completed" => \A i \in Command : commands[i] /= "pending"

\* The nodes of the graph: each only adds to the conversation.
LEMMA SteeringKept ==
    ASSUME SteeringInv, [SteeringNext]_svars
    PROVE  SteeringInv'
<1> USE DEF SteeringInv
<1>1. CASE Steer
  <2>1. Latest + 1 \in Command
    BY <1>1, LatestIsRevision, SteeringAssumption DEF Steer, Revision, Command
  <2> QED
    BY <1>1, <2>1 DEF Steer, SteeringTypeOK
<1>2. CASE PauseAnswered
  BY <1>2 DEF PauseAnswered, SteeringTypeOK
<1>3. CASE WorkerDies
  BY <1>3, SteeringAssumption DEF WorkerDies, SteeringTypeOK, Idle
<1>4. CASE Resumes
  <2>1. /\ Found \in CheckpointOf
        /\ Found.ids \subseteq Found.known
    BY <1>4 DEF Resumes, ResumeHere, Found, SteeringTypeOK
  <2>2. /\ thread' = Found /\ ctx' = [input |-> Found.input, at |-> Found.next]
        /\ run' = [run EXCEPT !.status = "running"]
        /\ stale' = (stale \/ Forgets(Found))
        /\ UNCHANGED <<commands, turns, deaths>>
    BY <1>4 DEF Resumes, Execute
  <2>3. ctx' \in [input : 0 .. MaxInput, at : Node \cup {"none"}]
    BY <2>1, <2>2, SteeringAssumption DEF CheckpointOf, Revision
  <2>4. stale' \in BOOLEAN
    BY <2>2 DEF SteeringTypeOK, Forgets
  <2>5. SteeringTypeOK'
    BY <2>1, <2>2, <2>3, <2>4 DEF SteeringTypeOK
  <2>6. ASSUME ~stale', NEW i \in Command, commands[i] = "consumed"  PROVE i \in Found.known
    BY <2>2, <2>6 DEF Forgets
  <2> QED
    BY <2>1, <2>2, <2>5, <2>6 DEF SteeringTypeOK
<1>5. CASE ResumeRefused
  BY <1>5, SteeringAssumption DEF ResumeRefused, Fail, SteeringTypeOK, Idle
<1>6. CASE Starts
  <2>1. Begun(thread) \in CheckpointOf
    <3>1. CASE thread = Blank
      BY <3>1 DEF Begun, SteeringTypeOK, CheckpointOf, Blank, Node
    <3>2. CASE thread \in CheckpointOf
      BY <3>2 DEF Begun, SteeringTypeOK, CheckpointOf, Node
    <3> QED
      BY <3>1, <3>2 DEF SteeringTypeOK
  <2>2. Begun(thread).known = thread.known /\ Begun(thread).ids = thread.ids
    <3>1. thread \in CheckpointOf \/ thread = Blank
      BY DEF SteeringTypeOK
    <3> QED
      BY <3>1 DEF Begun, CheckpointOf, Blank
  <2>3. ctx' \in [input : 0 .. MaxInput, at : Node \cup {"none"}]
    BY <1>6, <2>1, SteeringAssumption DEF Starts, Execute, CheckpointOf, SteeringTypeOK, Revision
  <2> QED
    BY <1>6, <2>1, <2>2, <2>3 DEF Starts, Execute, SteeringTypeOK
<1>7. CASE BeforeModel
  <2> DEFINE input == MaxOf({ctx.input} \cup Pending)
  <2>1. Pending \subseteq Command /\ ctx.input \in 0 .. MaxInput /\ thread \in CheckpointOf
    BY <1>7 DEF BeforeModel, Pending, SteeringTypeOK
  <2>2. input \in 0 .. MaxInput /\ (Pending /= {} => input \in Revision)
    BY <2>1, TaskInput
  <2>3. ctx' = [input |-> input, at |-> "model"]
    BY <1>7 DEF BeforeModel
  <2>4. thread' = IF Pending = {} THEN [thread EXCEPT !.next = "model"]
                  ELSE [input |-> input, known |-> thread.known \cup Pending,
                        ids |-> thread.ids \cup Pending, next |-> "model"]
    BY <1>7 DEF BeforeModel
  <2> HIDE DEF input
  <2>5. thread' \in CheckpointOf /\ thread'.ids \subseteq thread'.known
          /\ thread.known \subseteq thread'.known
    BY <2>1, <2>2, <2>4 DEF CheckpointOf, Node
  <2>6. ctx' \in [input : 0 .. MaxInput, at : Node \cup {"none"}]
    BY <2>2, <2>3 DEF Node
  <2> QED
    BY <1>7, <2>5, <2>6 DEF BeforeModel, SteeringTypeOK
<1>8. CASE ModelAcks
  <2>1. MaxOf({run.input, ctx.input}) \in Revision
    <3>1. run.input \in Revision /\ ctx.input \in 0 .. MaxInput /\ MaxInput \in Nat
      BY SteeringAssumption DEF SteeringTypeOK
    <3>2. run.input \in Nat /\ ctx.input \in Nat
      BY <3>1 DEF Revision
    <3>3. MaxOf({run.input, ctx.input}) = run.input \/ MaxOf({run.input, ctx.input}) = ctx.input
      BY <3>2, NewerOfTwo
    <3>4. run.input <= MaxOf({run.input, ctx.input})
      BY <3>2, NewerOfTwo
    <3> QED
      BY <3>1, <3>3, <3>4 DEF Revision
  <2>2. commands' \in [Command -> {"none", "pending", "consumed"}]
    BY <1>8 DEF ModelAcks, SteeringTypeOK
  <2>3. ASSUME NEW i \in Command, commands'[i] = "consumed"
        PROVE  commands[i] = "consumed" \/ i \in thread.known
    BY <1>8, <2>3 DEF ModelAcks
  <2> QED
    BY <1>8, <2>1, <2>2, <2>3 DEF ModelAcks, SteeringTypeOK
<1>9. CASE ModelAnswers
  <2>1. PICK next \in {"end"} \cup (IF turns < MaxTurns THEN {"tools"} ELSE {}) :
             /\ thread' = [thread EXCEPT !.next = next]
             /\ ctx' = [ctx EXCEPT !.at = next]
             /\ turns' = IF next = "tools" THEN turns + 1 ELSE turns
    BY <1>9 DEF ModelAnswers
  <2>2. next \in Node /\ turns' \in 0 .. MaxTurns
    BY <2>1, SteeringAssumption DEF SteeringTypeOK, Node
  <2>3. thread' \in CheckpointOf /\ thread'.known = thread.known /\ thread'.ids = thread.ids
    BY <1>9, <2>1, <2>2 DEF ModelAnswers, CheckpointOf
  <2> QED
    BY <1>9, <2>1, <2>2, <2>3 DEF ModelAnswers, SteeringTypeOK
<1>10. CASE ToolsDone
  BY <1>10 DEF ToolsDone, SteeringTypeOK, CheckpointOf, Node
<1>11. CASE ToolsPause
  <2>1. thread \in CheckpointOf /\ run.pointer' \in {thread, run.pointer} /\ ctx' = Idle
    BY <1>11 DEF ToolsPause, SettledAs, SteeringTypeOK
  <2>2. run' \in [status : {"queued", "running", "waiting", "completed", "failed"},
                  input : Revision, pointer : CheckpointOf \cup {Blank}]
    BY <1>11, <2>1 DEF ToolsPause, SettledAs, SteeringTypeOK
  <2>3. ctx' \in [input : 0 .. MaxInput, at : Node \cup {"none"}]
    BY <2>1, SteeringAssumption DEF Idle
  <2> QED
    BY <1>11, <2>1, <2>2, <2>3 DEF ToolsPause, SettledAs, SteeringTypeOK
<1>12. CASE Settles
  <2>1. thread \in CheckpointOf /\ run.pointer' \in {thread, run.pointer} /\ ctx' = Idle
    BY <1>12 DEF Settles, SettledAs, SteeringTypeOK
  <2>2. run' \in [status : {"queued", "running", "waiting", "completed", "failed"},
                  input : Revision, pointer : CheckpointOf \cup {Blank}]
    BY <1>12, <2>1 DEF Settles, SettledAs, SteeringTypeOK
  <2>3. ctx' \in [input : 0 .. MaxInput, at : Node \cup {"none"}]
    BY <2>1, SteeringAssumption DEF Idle
  <2> QED
    BY <1>12, <2>1, <2>2, <2>3 DEF Settles, SettledAs, SteeringTypeOK, Pending
<1>13. CASE Continues
  <2>1. thread' \in CheckpointOf /\ thread'.known = thread.known /\ thread'.ids = thread.ids
    BY <1>13 DEF Continues, Begun, SteeringTypeOK, CheckpointOf, Node
  <2>2. ctx' \in [input : 0 .. MaxInput, at : Node \cup {"none"}]
    BY <1>13, SteeringAssumption DEF Continues, SteeringTypeOK, Revision, Node
  <2> QED
    BY <1>13, <2>1, <2>2 DEF Continues, SteeringTypeOK
<1>14. CASE UNCHANGED svars
  BY <1>14 DEF svars, SteeringTypeOK
<1> QED
  BY <1>1, <1>2, <1>3, <1>4, <1>5, <1>6, <1>7, <1>8, <1>9, <1>10, <1>11, <1>12, <1>13, <1>14
  DEF SteeringNext, Work

\* A conversation with one message and no turn yet.
LEMMA SteeringStarts == SteeringInit => SteeringInv
<1> SUFFICES ASSUME SteeringInit  PROVE SteeringInv
  OBVIOUS
<1>1. 1 \in Revision /\ 0 \in 0 .. MaxTurns /\ 0 \in 0 .. MaxDeaths /\ 0 \in 0 .. MaxInput
  BY SteeringAssumption DEF Revision
<1>2. SteeringTypeOK
  BY <1>1 DEF SteeringInit, SteeringTypeOK, Idle
<1> QED
  BY <1>2 DEF SteeringInit, SteeringInv, Blank

\* Worker._execute, abefore_model, ack_input_commands: however many messages, turns and deaths, a run completes
\* only with every admitted message consumed and in the conversation its answer was made from, unless it was
\* resumed from a pointer older than a message consumed since.
THEOREM SteeringHolds == SteeringSpec => [](SteeringTypeOK /\ EveryInputAnswered)
<1>1. SteeringInv => SteeringTypeOK /\ EveryInputAnswered
  BY DEF SteeringInv, EveryInputAnswered, SteeringTypeOK
<1> QED
  BY <1>1, SteeringStarts, SteeringKept, PTL DEF SteeringSpec

------------------------------------------------------------------------------
(* The model *)

\* A bound call is bound under a revision; the first model was no selection of the user's; and
\* what the user is told of a selection is what became of it.
SelectionTold ==
    /\ \A l \in LogicalCall : binding[l] = Unbound \/ binding[l].rev \in Rev
    /\ command[0] /= "requested"
    /\ task.at = "failing" => task.rev \in failed
    /\ RejectedWasTried /\ AppliedWasBound /\ OneOpenSelection

\* Where a call's task stands when the questions of the call have their answers.
Trying == {"enter", "preparing", "binding", "failing", "rejected", "prepared", "sending", "sent"}

\* Questions are prepared before the call waits for them, for one candidate at a time, and no later
\* call has any; a task past the replay has every answer, one before the pause a question to open.
QuestionsAsked ==
    /\ task.at = "prepared" => question[step][task.rev] /= "none"
    /\ \A l \in LogicalCall, r \in Rev :
         /\ r \in waits[l] => l <= step /\ question[l][r] /= "none"
         /\ question[l][r] \in {"open", "answered"} => r \in waits[l]
         /\ question[l][r] = "closed" => runState \in Ended \cup {"cancelling"}
    /\ task.at \in Trying => \A r \in waits[step] : question[step][r] = "answered"
    /\ \A r, s \in waits[step] :
         question[step][r] /= "answered" /\ question[step][s] /= "answered" => r = s
    /\ task.at = "asking" /\ Fence => \E r \in waits[step] : question[step][r] = "pending"

SelectionInv == SelectionTypeOK /\ SelectionTold /\ QuestionsAsked /\ QuestionCanBeAnswered

\* A run with the model it was submitted with.
LEMMA SelectionStarts == SelectionInit => SelectionInv
<1> SUFFICES ASSUME SelectionInit  PROVE SelectionInv
  OBVIOUS
<1>1. 0 \in Rev /\ 1 \in LogicalCall /\ 0 \in 0 .. MaxClaims /\ 0 \in 0 .. MaxPreparations
  BY SelectionAssumption DEF Rev, LogicalCall
<1>2. SelectionTypeOK
  BY <1>1, SelectionAssumption
  DEF SelectionInit, SelectionTypeOK, NoTask, Unbound, Active, QuestionState, TaskPoint
<1>3. SelectionTold
  BY <1>1 DEF SelectionInit, SelectionTold, RejectedWasTried, AppliedWasBound, OneOpenSelection, NoTask, Ended
<1>4. QuestionsAsked /\ QuestionCanBeAnswered
  BY <1>1 DEF SelectionInit, QuestionsAsked, QuestionCanBeAnswered, NoTask, Trying
<1> QED
  BY <1>2, <1>3, <1>4 DEF SelectionInv

\* Where the run's end leaves the user's newest selection and the open questions.
LEMMA SelectionFinished ==
    ASSUME SelectionTypeOK, SelectionTold, NEW status \in Ended, Finish(status)
    PROVE  /\ runState' \in Active \cup Ended \cup {"cancelling"}
           /\ control' \in [rev : Rev, effRev : Rev, desired : Profile, effective : Profile,
                    status : {"initial", "requested", "applied", "rejected", "not_applied"}]
           /\ command' \in [Rev -> {"none", "requested", "superseded", "applied", "rejected", "not_applied"}]
           /\ question' \in [LogicalCall -> [Rev -> QuestionState]]
           /\ control'.rev = control.rev
           /\ \A r \in Rev : command'[r] \in {command[r], "not_applied"} /\ command'[r] /= "requested"
<1>1. control.rev \in Rev
  BY DEF SelectionTypeOK
<1>2. question' \in [LogicalCall -> [Rev -> QuestionState]]
  BY DEF Finish, QuestionsClosed, SelectionTypeOK, QuestionState
<1>3. CASE control.status = "requested"
  BY <1>1, <1>2, <1>3 DEF Finish, SelectionTypeOK, SelectionTold, OneOpenSelection
<1>4. CASE control.status /= "requested"
  BY <1>1, <1>2, <1>4 DEF Finish, SelectionTypeOK, SelectionTold, OneOpenSelection
<1> QED
  BY <1>3, <1>4

\* The steps that leave control and commands alone.
LEMMA SelectionUntouched ==
    ASSUME SelectionTold, UNCHANGED <<control, command, binding>>, failed \subseteq failed',
           runState' \in Ended => runState \in Ended, task'.at = "failing" => task'.rev \in failed'
    PROVE  SelectionTold'
BY DEF SelectionTold, RejectedWasTried, AppliedWasBound, OneOpenSelection

\* The end of the run, whoever settles it.
LEMMA SelectionEnds ==
    ASSUME SelectionTypeOK, SelectionTold, NEW status \in Ended, Finish(status), UNCHANGED <<binding, failed>>,
           task' = NoTask
    PROVE  SelectionTold'
<1>1. \A r \in Rev : command'[r] \in {command[r], "not_applied"} /\ command'[r] /= "requested"
  BY SelectionFinished
<1>2. 0 \in Rev /\ task'.at /= "failing"
  BY SelectionAssumption DEF Rev, NoTask
<1> QED
  BY <1>1, <1>2 DEF SelectionTold, RejectedWasTried, AppliedWasBound, OneOpenSelection

\* Every step keeps the shape of the run, the selections and the bound calls.
LEMMA SelectionTypesKept ==
    ASSUME SelectionTypeOK, SelectionTold, [SelectionNext]_mvars
    PROVE  SelectionTypeOK'
<1> USE SelectionAssumption
<1>0. \A l \in LogicalCall : binding[l] = Unbound \/ binding[l].rev \in Rev
  BY DEF SelectionTold
<1>f. /\ "failed" \in Ended /\ "completed" \in Ended /\ "cancelled" \in Ended
      /\ NoTask \in [at : TaskPoint, rev : Rev, profile : Profile, tries : 0 .. MaxPreparations]
  BY DEF Ended, NoTask, Rev, TaskPoint
<1>q. {"none", "pending", "open", "answered", "closed"} \subseteq QuestionState
  BY DEF QuestionState
<1>1. ASSUME NEW p \in Profile, Select(p)  PROVE SelectionTypeOK'
  <2>1. control.rev + 1 \in Rev
    BY <1>1 DEF Select, SelectionTypeOK, Rev
  <2> QED
    BY <1>1, <2>1 DEF Select, SelectionTypeOK
<1>2. CASE ContinueAnswered
  <2>1. question' \in [LogicalCall -> [Rev -> QuestionState]]
    BY <1>2, <1>q DEF ContinueAnswered, SelectionTypeOK
  <2> QED
    BY <1>2, <2>1 DEF ContinueAnswered, SelectionTypeOK, Active
<1>3. CASE CancelRun
  <2>1. CASE runState \in {"queued", "waiting"}
    BY <1>f, <1>3, <2>1, SelectionFinished DEF CancelRun, SelectionTypeOK
  <2>2. CASE runState \notin {"queued", "waiting"}
    <3>1. question' \in [LogicalCall -> [Rev -> QuestionState]]
      BY <1>3, <2>2, <1>q DEF CancelRun, QuestionsClosed, SelectionTypeOK
    <3> QED
      BY <1>3, <2>2, <3>1 DEF CancelRun, SelectionTypeOK
  <2> QED
    BY <2>1, <2>2
<1>4. CASE CancelSettled
  BY <1>f, <1>4, SelectionFinished DEF CancelSettled, SelectionTypeOK
<1>5. CASE Claim
  <2>1. task' \in [at : TaskPoint, rev : Rev, profile : Profile, tries : 0 .. MaxPreparations]
    BY <1>f, <1>5 DEF Claim, TaskPoint
  <2> QED
    BY <1>5, <2>1 DEF Claim, SelectionTypeOK, Active
<1>6. CASE LoseLease
  BY <1>6 DEF LoseLease, SelectionTypeOK, Active
<1>7. CASE RunRecovered
  BY <1>f, <1>7 DEF RunRecovered, SelectionTypeOK, Active
<1>8. CASE Candidate
  <2>1. binding[step] /= Unbound => binding[step].rev \in Rev /\ binding[step].profile \in Profile
    BY <1>0 DEF SelectionTypeOK
  <2>2. control.rev \in Rev /\ control.desired \in Profile /\ task.tries + 1 \in 0 .. MaxPreparations
    BY <1>8 DEF SelectionTypeOK, Candidate
  <2> QED
    BY <1>8, <2>1, <2>2 DEF Candidate, SelectionTypeOK, TaskPoint
<1>9. CASE TooManySelections
  BY <1>f, <1>9, SelectionFinished DEF TooManySelections, SelectionTypeOK
<1>10. CASE Prepared
  BY <1>10 DEF Prepared, SelectionTypeOK, TaskPoint
<1>11. CASE BindAgain
  BY <1>11 DEF BindAgain, Uses, SelectionTypeOK, TaskPoint
<1>12. CASE BindMoved
  BY <1>12 DEF BindMoved, SelectionTypeOK, TaskPoint
<1>13. CASE Bind
  BY <1>13 DEF Bind, Uses, SelectionTypeOK, TaskPoint
<1>14. CASE TaskRejected
  BY <1>f, <1>14 DEF TaskRejected, SelectionTypeOK
<1>15. CASE RejectCandidate
  BY <1>15 DEF RejectCandidate, SelectionTypeOK, TaskPoint
<1>16. CASE PrepareQuestion
  <2>1. question' \in [LogicalCall -> [Rev -> QuestionState]]
    BY <1>16, <1>q DEF PrepareQuestion, SelectionTypeOK
  <2> QED
    BY <1>16, <2>1 DEF PrepareQuestion, SelectionTypeOK, TaskPoint
<1>17. CASE KeepsQuestion
  BY <1>17 DEF KeepsQuestion, SelectionTypeOK, TaskPoint
<1>18. CASE GivesUp
  BY <1>f, <1>18, SelectionFinished DEF GivesUp, SelectionTypeOK
<1>19. CASE Pauses
  <2>1. question' \in [LogicalCall -> [Rev -> QuestionState]]
    BY <1>19, <1>q DEF Pauses, SelectionTypeOK
  <2> QED
    BY <1>f, <1>19, <2>1 DEF Pauses, SelectionTypeOK, Active
<1>20. CASE Dispatch
  BY <1>20 DEF Dispatch, SelectionTypeOK, TaskPoint
<1>21. CASE TurnSaved
  <2>1. CASE step < MaxCalls /\ step' = step + 1 /\ task' = [NoTask EXCEPT !.at = "enter"]
               /\ UNCHANGED <<runState, control, command, question>>
    <3>1. step' \in LogicalCall
      BY <2>1 DEF SelectionTypeOK, LogicalCall
    <3>2. task' \in [at : TaskPoint, rev : Rev, profile : Profile, tries : 0 .. MaxPreparations]
      BY <1>f, <2>1 DEF TaskPoint
    <3> QED
      BY <1>21, <2>1, <3>1, <3>2 DEF TurnSaved, SelectionTypeOK
  <2>2. CASE Finish("completed") /\ task' = NoTask /\ UNCHANGED step
    BY <1>f, <1>21, <2>2, SelectionFinished DEF TurnSaved, SelectionTypeOK
  <2> QED
    BY <1>21, <2>1, <2>2 DEF TurnSaved
<1>22. CASE UNCHANGED mvars
  BY <1>22 DEF mvars, SelectionTypeOK
<1> QED
  BY <1>1, <1>2, <1>3, <1>4, <1>5, <1>6, <1>7, <1>8, <1>9, <1>10, <1>11, <1>12, <1>13, <1>14,
     <1>15, <1>16, <1>17, <1>18, <1>19, <1>20, <1>21, <1>22 DEF SelectionNext, TaskStep

\* select(), bind(), reject() and the end of the run: the verdicts stay true.
LEMMA SelectionToldKept ==
    ASSUME SelectionTypeOK, SelectionTypeOK', SelectionTold, [SelectionNext]_mvars
    PROVE  SelectionTold'
<1>f. "failed" \in Ended /\ "completed" \in Ended /\ "cancelled" \in Ended
  BY DEF Ended
<1>z. 0 \in Rev /\ control.rev \in Rev /\ step \in LogicalCall
  BY SelectionAssumption DEF Rev, SelectionTypeOK
<1>k. task.at = "failing" => task.rev \in failed
  BY DEF SelectionTold
<1>1. ASSUME NEW p \in Profile, Select(p)  PROVE SelectionTold'
  <2>1. \A r \in Rev : command'[r] = IF r = control.rev + 1 THEN "requested"
                                 ELSE IF r = control.rev /\ control.status = "requested"
                                      THEN "superseded" ELSE command[r]
    BY <1>1 DEF Select
  <2>2. /\ control'.rev = control.rev + 1 /\ control'.status = "requested"
        /\ runState' = runState /\ runState \notin Ended
        /\ UNCHANGED <<binding, failed, task>>
    BY <1>1 DEF Select, SelectionTypeOK, Active, Ended
  <2>3. command'[0] /= "requested"
    BY <1>z, <2>1 DEF SelectionTold, Rev
  <2> QED
    BY <2>1, <2>2, <2>3 DEF SelectionTold, RejectedWasTried, AppliedWasBound, OneOpenSelection
<1>2. CASE ContinueAnswered
  BY <1>k, <1>2, SelectionUntouched DEF ContinueAnswered, Ended
<1>3. CASE CancelRun
  <2>1. CASE runState \in {"queued", "waiting"}
    <3>1. \A r \in Rev : command'[r] \in {command[r], "not_applied"} /\ command'[r] /= "requested"
      BY <1>f, <1>3, <2>1, SelectionFinished DEF CancelRun
    <3> QED
      BY <1>z, <1>3, <2>1, <3>1 DEF CancelRun, SelectionTold, RejectedWasTried, AppliedWasBound, OneOpenSelection
  <2>2. CASE runState \notin {"queued", "waiting"}
    BY <1>k, <1>3, <2>2, SelectionUntouched DEF CancelRun, Ended
  <2> QED
    BY <2>1, <2>2
<1>4. CASE CancelSettled
  BY <1>f, <1>4, SelectionEnds DEF CancelSettled
<1>5. CASE Claim
  BY <1>5, SelectionUntouched DEF Claim, Ended, NoTask
<1>6. CASE LoseLease
  BY <1>k, <1>6, SelectionUntouched DEF LoseLease, Ended
<1>7. CASE RunRecovered
  BY <1>7, SelectionUntouched DEF RunRecovered, Ended, NoTask
<1>8. CASE Candidate
  BY <1>8, SelectionUntouched DEF Candidate, SelectionTypeOK
<1>9. CASE TooManySelections
  BY <1>f, <1>9, SelectionEnds DEF TooManySelections
<1>10. CASE Prepared
  BY <1>10, SelectionUntouched DEF Prepared, SelectionTypeOK
<1>11. CASE BindAgain
  BY <1>11, SelectionUntouched DEF BindAgain, Uses, SelectionTypeOK
<1>12. CASE BindMoved
  BY <1>12, SelectionUntouched DEF BindMoved, SelectionTypeOK
<1>13. CASE Bind
  <2>1. /\ control'.rev = control.rev /\ task.rev = control.rev /\ control'.status = "applied"
        /\ runState' = runState /\ failed' = failed /\ task'.at = "sending"
    BY <1>13 DEF Bind, Uses, Moved, SelectionTypeOK
  <2>2. /\ binding[step] = Unbound
        /\ \A l \in LogicalCall : binding'[l] = IF l = step THEN [rev |-> task.rev, profile |-> task.profile]
                                                ELSE binding[l]
    BY <1>13 DEF Bind, Bound, SelectionTypeOK
  <2>3. \A r \in Rev : command'[r] = IF control.rev > 0 /\ r = control.rev THEN "applied" ELSE command[r]
    BY <1>z, <1>13 DEF Bind, SelectionTypeOK
  <2>4. \A r \in Rev : command'[r] /= "requested"
    <3>1. \A r \in Rev : command[r] = "requested" => r = control.rev /\ r /= 0
      BY <1>z DEF SelectionTold, OneOpenSelection
    <3>2. \A r \in Rev : r /= 0 => r > 0
      BY DEF Rev
    <3> QED
      BY <2>3, <3>1, <3>2
  <2>5. \A r \in Rev : r /= -1
    BY DEF Rev
  <2>6. ASSUME NEW r \in Rev, command'[r] = "applied"  PROVE \E l \in LogicalCall : binding'[l].rev = r
    <3>1. CASE r = control.rev
      BY <1>z, <2>1, <2>2, <3>1
    <3>2. CASE r /= control.rev
      <4>1. PICK l \in LogicalCall : binding[l].rev = r
        BY <2>3, <2>6, <3>2 DEF SelectionTold, AppliedWasBound
      <4>2. l /= step
        BY <2>2, <2>5, <4>1 DEF Unbound
      <4> QED
        BY <2>2, <4>1, <4>2
    <3> QED
      BY <3>1, <3>2
  <2>7. \A l \in LogicalCall : binding'[l] = Unbound \/ binding'[l].rev \in Rev
    BY <1>z, <2>1, <2>2 DEF SelectionTold
  <2>8. \A r \in Rev : command'[r] = "rejected" => r \in failed'
    BY <2>1, <2>3 DEF SelectionTold, RejectedWasTried
  <2> QED
    BY <1>z, <2>1, <2>4, <2>6, <2>7, <2>8
    DEF SelectionTold, RejectedWasTried, AppliedWasBound, OneOpenSelection
<1>14. CASE TaskRejected
  BY <1>14, SelectionUntouched DEF TaskRejected, NoTask
<1>15. CASE RejectCandidate
  <2>1. UNCHANGED <<binding, runState, failed>> /\ runState \notin Ended /\ task.rev \in failed
    BY <1>k, <1>15 DEF RejectCandidate, Fence, Ended
  <2>2. task'.at = "rejected"
    BY <1>15 DEF RejectCandidate, SelectionTypeOK
  <2>3. CASE Moved
    BY <1>15, <2>1, <2>2, <2>3, SelectionUntouched DEF RejectCandidate
  <2>4. CASE ~Moved
    <3>1. task.rev = control.rev /\ control'.rev = control.rev /\ control'.status = "rejected"
      BY <1>15, <2>4 DEF RejectCandidate, Moved, SelectionTypeOK
    <3>2. \A r \in Rev : command'[r] = IF control.rev /= 0 /\ r = control.rev THEN "rejected" ELSE command[r]
      BY <1>z, <1>15, <2>4 DEF RejectCandidate, SelectionTypeOK
    <3>3. \A r \in Rev : command'[r] /= "requested"
      <4>1. \A r \in Rev : command[r] = "requested" => r = control.rev /\ r /= 0
        BY <1>z DEF SelectionTold, OneOpenSelection
      <4> QED
        BY <3>2, <4>1
    <3>4. \A r \in Rev : command'[r] = "rejected" => r \in failed'
      BY <2>1, <3>1, <3>2 DEF SelectionTold, RejectedWasTried
    <3>5. \A r \in Rev : command'[r] = "applied" => \E l \in LogicalCall : binding'[l].rev = r
      BY <2>1, <3>2 DEF SelectionTold, AppliedWasBound
    <3> QED
      BY <1>z, <2>1, <2>2, <3>3, <3>4, <3>5
      DEF SelectionTold, RejectedWasTried, AppliedWasBound, OneOpenSelection
  <2> QED
    BY <2>3, <2>4
<1>16. CASE PrepareQuestion
  BY <1>16, SelectionUntouched DEF PrepareQuestion, SelectionTypeOK
<1>17. CASE KeepsQuestion
  BY <1>17, SelectionUntouched DEF KeepsQuestion, SelectionTypeOK
<1>18. CASE GivesUp
  BY <1>f, <1>18, SelectionEnds DEF GivesUp
<1>19. CASE Pauses
  BY <1>19, SelectionUntouched DEF Pauses, Ended, NoTask
<1>20. CASE Dispatch
  BY <1>20, SelectionUntouched DEF Dispatch, SelectionTypeOK
<1>21. CASE TurnSaved
  <2>1. CASE step < MaxCalls /\ step' = step + 1 /\ task' = [NoTask EXCEPT !.at = "enter"]
               /\ UNCHANGED <<runState, control, command, question>>
    BY <1>21, <2>1, SelectionUntouched DEF TurnSaved, NoTask
  <2>2. CASE Finish("completed") /\ task' = NoTask /\ UNCHANGED step
    BY <1>f, <1>21, <2>2, SelectionEnds DEF TurnSaved
  <2> QED
    BY <1>21, <2>1, <2>2 DEF TurnSaved
<1>22. CASE UNCHANGED mvars
  BY <1>k, <1>22, SelectionUntouched DEF mvars
<1> QED
  BY <1>1, <1>2, <1>3, <1>4, <1>5, <1>6, <1>7, <1>8, <1>9, <1>10, <1>11, <1>12, <1>13, <1>14,
     <1>15, <1>16, <1>17, <1>18, <1>19, <1>20, <1>21, <1>22 DEF SelectionNext, TaskStep

\* The steps that leave the questions alone.
LEMMA QuestionsUntouched ==
    ASSUME QuestionsAsked, QuestionCanBeAnswered, UNCHANGED <<question, waits, step>>,
           runState' = "waiting" <=> runState = "waiting",
           runState \in Ended \cup {"cancelling"} => runState' \in Ended \cup {"cancelling"},
           task'.at \in Trying => task.at \in Trying,
           task'.at = "prepared" => task.at = "prepared" /\ task'.rev = task.rev,
           task'.at = "asking" /\ Fence' => task.at = "asking" /\ Fence
    PROVE  QuestionsAsked' /\ QuestionCanBeAnswered'
<1>1. QuestionsAsked'
  BY DEF QuestionsAsked
<1>2. QuestionCanBeAnswered'
  BY DEF QuestionCanBeAnswered
<1> QED
  BY <1>1, <1>2

\* The run ends or is being cancelled: what nobody answered is closed.
LEMMA QuestionsEnd ==
    ASSUME SelectionTypeOK, QuestionsAsked, QuestionCanBeAnswered, QuestionsClosed, UNCHANGED <<waits, step>>,
           runState' \in Ended \cup {"cancelling"}, task' \in {task, NoTask}
    PROVE  QuestionsAsked' /\ QuestionCanBeAnswered'
<1>1. \A l \in LogicalCall, r \in Rev :
        question'[l][r] = IF question[l][r] \in {"pending", "open"} THEN "closed" ELSE question[l][r]
  BY DEF QuestionsClosed
<1>2. step \in LogicalCall /\ task.rev \in Rev /\ waits[step] \subseteq Rev
  BY DEF SelectionTypeOK
<1>3. runState' /= "waiting" /\ ~Fence'
  BY DEF Ended, Fence
<1>4. task'.at \in Trying \/ task'.at = "prepared" => task' = task
  BY DEF NoTask, Trying
<1>5. QuestionsAsked'
  BY <1>1, <1>2, <1>3, <1>4 DEF QuestionsAsked
<1>6. QuestionCanBeAnswered'
  BY <1>1, <1>2, <1>3, <1>4 DEF QuestionCanBeAnswered
<1> QED
  BY <1>5, <1>6

\* prepare_interaction(), the waits entry, settle(), respond() and cancel(): what is asked can be answered.
LEMMA QuestionsKept ==
    ASSUME SelectionTypeOK, SelectionTypeOK', QuestionsAsked, QuestionCanBeAnswered, [SelectionNext]_mvars
    PROVE  QuestionsAsked' /\ QuestionCanBeAnswered'
<1>f. "failed" \in Ended /\ "completed" \in Ended /\ "cancelled" \in Ended
  BY DEF Ended
<1>z. step \in LogicalCall /\ task.rev \in Rev /\ waits[step] \subseteq Rev
  BY DEF SelectionTypeOK
<1>1. ASSUME NEW p \in Profile, Select(p)  PROVE QuestionsAsked' /\ QuestionCanBeAnswered'
  BY <1>1, QuestionsUntouched DEF Select, Fence
<1>2. CASE ContinueAnswered
  <2>1. PICK a \in Rev : question[step][a] = "open" /\ question' = [question EXCEPT ![step][a] = "answered"]
    BY <1>2 DEF ContinueAnswered
  <2>2. /\ runState = "waiting" /\ runState' = "queued" /\ UNCHANGED <<waits, step, task>>
        /\ a \in waits[step]
    BY <1>z, <1>2, <2>1 DEF ContinueAnswered, QuestionsAsked
  <2>3. \A l \in LogicalCall, r \in Rev :
          question'[l][r] = IF l = step /\ r = a THEN "answered" ELSE question[l][r]
    BY <2>1 DEF SelectionTypeOK
  <2>4. \A r \in waits[step] : question'[step][r] = "answered"
    BY <1>z, <2>1, <2>2, <2>3 DEF QuestionsAsked
  <2>5. \A l \in LogicalCall, r \in Rev : question'[l][r] /= "open"
    <3>1. \A l \in LogicalCall, r \in Rev : question[l][r] = "open" => l = step /\ r \in waits[step]
      BY DEF QuestionsAsked, QuestionCanBeAnswered
    <3> QED
      BY <1>z, <2>3, <2>4, <3>1
  <2>6. QuestionsAsked'
    <3>1. ~Fence'
      BY <2>2 DEF Fence
    <3>2. \A l \in LogicalCall, r \in Rev :
            /\ r \in waits'[l] => l <= step' /\ question'[l][r] /= "none"
            /\ question'[l][r] \in {"open", "answered"} => r \in waits'[l]
            /\ question'[l][r] = "closed" => runState' \in Ended \cup {"cancelling"}
      <4>1. runState \notin Ended \cup {"cancelling"}
        BY <2>2 DEF Ended
      <4> QED
        BY <1>z, <2>2, <2>3, <4>1 DEF QuestionsAsked
    <3> QED
      BY <1>z, <2>2, <2>3, <2>4, <3>1, <3>2 DEF QuestionsAsked
  <2>7. QuestionCanBeAnswered'
    BY <1>z, <2>2, <2>3, <2>4, <2>5 DEF QuestionCanBeAnswered
  <2> QED
    BY <2>6, <2>7
<1>3. CASE CancelRun
  <2>1. CASE runState \in {"queued", "waiting"}
    BY <1>f, <1>3, <2>1, QuestionsEnd DEF CancelRun, Finish
  <2>2. CASE runState \notin {"queued", "waiting"}
    BY <1>3, <2>2, QuestionsEnd DEF CancelRun
  <2> QED
    BY <2>1, <2>2
<1>4. CASE CancelSettled
  BY <1>f, <1>4, QuestionsEnd DEF CancelSettled, Finish
<1>5. CASE Claim
  <2>1. /\ runState = "queued" /\ runState' = "running" /\ UNCHANGED <<question, waits, step>>
        /\ task' = [NoTask EXCEPT !.at = IF Unanswered /= {} THEN "asking" ELSE "enter"]
    BY <1>5 DEF Claim
  <2>2. task'.at = (IF Unanswered /= {} THEN "asking" ELSE "enter")
    BY <2>1 DEF NoTask
  <2>3. \A l \in LogicalCall, r \in Rev : question[l][r] \notin {"open", "closed"}
    BY <2>1 DEF QuestionsAsked, QuestionCanBeAnswered, Ended
  <2>4. \A r \in Unanswered : r \in waits[step] /\ question[step][r] = "pending"
    BY <1>z, <2>3 DEF Unanswered, QuestionsAsked, SelectionTypeOK, QuestionState
  <2>5. "asking" \notin Trying
    BY DEF Trying
  <2>6. task'.at \in Trying => \A r \in waits[step] : question[step][r] = "answered"
    BY <2>2, <2>5 DEF Unanswered
  <2>7. task'.at = "asking" => \E r \in waits[step] : question[step][r] = "pending"
    BY <2>2, <2>4
  <2>8. task'.at /= "prepared"
    BY <2>2
  <2>9. QuestionsAsked'
    BY <2>1, <2>3, <2>6, <2>7, <2>8 DEF QuestionsAsked
  <2>10. QuestionCanBeAnswered'
    BY <2>1, <2>3, <2>8 DEF QuestionCanBeAnswered
  <2> QED
    BY <2>9, <2>10
<1>6. CASE LoseLease
  BY <1>6, QuestionsUntouched DEF LoseLease, Fence, Ended
<1>7. CASE RunRecovered
  BY <1>7, QuestionsUntouched DEF RunRecovered, Ended, NoTask, Trying
<1>8. CASE Candidate
  BY <1>8, QuestionsUntouched DEF Candidate, SelectionTypeOK, Trying
<1>9. CASE TooManySelections
  BY <1>f, <1>9, QuestionsEnd DEF TooManySelections, Finish
<1>10. CASE Prepared
  BY <1>10, QuestionsUntouched DEF Prepared, SelectionTypeOK, Trying
<1>11. CASE BindAgain
  BY <1>11, QuestionsUntouched DEF BindAgain, Uses, SelectionTypeOK, Trying
<1>12. CASE BindMoved
  BY <1>12, QuestionsUntouched DEF BindMoved, SelectionTypeOK, Trying
<1>13. CASE Bind
  BY <1>13, QuestionsUntouched DEF Bind, Uses, SelectionTypeOK, Trying
<1>14. CASE TaskRejected
  BY <1>14, QuestionsUntouched DEF TaskRejected, NoTask, Trying
<1>15. CASE RejectCandidate
  BY <1>15, QuestionsUntouched DEF RejectCandidate, SelectionTypeOK, Trying
<1>16. CASE PrepareQuestion
  <2>1. /\ task.at = "rejected" /\ task'.at = "prepared" /\ task'.rev = task.rev
        /\ UNCHANGED <<runState, waits, step>> /\ runState = "running"
    BY <1>16 DEF PrepareQuestion, Fence, SelectionTypeOK
  <2>2. \A l \in LogicalCall, r \in Rev :
          question'[l][r] = IF l = step /\ r = task.rev /\ question[l][r] = "none" THEN "pending"
                            ELSE question[l][r]
    BY <1>z, <1>16 DEF PrepareQuestion, SelectionTypeOK
  <2>3. question'[step][task.rev] /= "none" /\ task.at \in Trying
    BY <1>z, <2>1, <2>2 DEF Trying
  <2>4. \A r \in waits[step] : question'[step][r] = "answered"
    BY <1>z, <2>2, <2>3 DEF QuestionsAsked
  <2>5. \A l \in LogicalCall, r \in Rev :
          /\ r \in waits[l] => l <= step /\ question'[l][r] /= "none"
          /\ question'[l][r] \in {"open", "answered"} => r \in waits[l]
          /\ question'[l][r] = "closed" => runState \in Ended \cup {"cancelling"}
    BY <2>2 DEF QuestionsAsked
  <2>6. QuestionsAsked'
    BY <2>1, <2>3, <2>4, <2>5 DEF QuestionsAsked
  <2>7. QuestionCanBeAnswered'
    BY <2>1, <2>2, <2>4 DEF QuestionCanBeAnswered
  <2> QED
    BY <2>6, <2>7
<1>17. CASE KeepsQuestion
  <2>1. /\ task.at = "prepared" /\ task'.at = "asking" /\ UNCHANGED <<runState, question, step>>
        /\ task.rev \notin waits[step]
    BY <1>17 DEF KeepsQuestion, SelectionTypeOK
  <2>2. /\ waits'[step] = waits[step] \cup {task.rev}
        /\ \A l \in LogicalCall : l /= step => waits'[l] = waits[l]
    BY <1>z, <1>17 DEF KeepsQuestion, SelectionTypeOK
  <2>3. \A r \in waits[step] : question[step][r] = "answered"
    BY <2>1 DEF QuestionsAsked, Trying
  <2>4. question[step][task.rev] \in {"pending", "closed"}
    BY <1>z, <2>1 DEF QuestionsAsked, SelectionTypeOK, QuestionState
  <2>5. "asking" \notin Trying /\ step <= step
    BY <1>z DEF Trying, LogicalCall
  <2>6. Fence' => question[step][task.rev] = "pending"
    BY <1>z, <2>1, <2>4 DEF QuestionsAsked, Fence, Ended
  <2>7. QuestionsAsked'
    BY <1>z, <2>1, <2>2, <2>3, <2>4, <2>5, <2>6 DEF QuestionsAsked
  <2>8. QuestionCanBeAnswered'
    BY <1>z, <2>1, <2>2 DEF QuestionCanBeAnswered
  <2> QED
    BY <2>7, <2>8
<1>18. CASE GivesUp
  BY <1>f, <1>18, QuestionsEnd DEF GivesUp, Finish
<1>19. CASE Pauses
  <2>1. /\ task.at = "asking" /\ runState = "running" /\ runState' = "waiting" /\ task' = NoTask
        /\ UNCHANGED <<waits, step>>
    BY <1>19 DEF Pauses, Fence
  <2>2. \A l \in LogicalCall, r \in Rev :
          question'[l][r] = IF l = step /\ r \in waits[step] /\ question[l][r] = "pending" THEN "open"
                            ELSE question[l][r]
    BY <1>z, <1>19 DEF Pauses, SelectionTypeOK
  <2>3. PICK a \in waits[step] : question[step][a] = "pending"
    BY <2>1 DEF QuestionsAsked, Fence
  <2>4. \A l \in LogicalCall, r \in Rev : question[l][r] /= "open"
    BY <2>1 DEF QuestionCanBeAnswered
  <2>5. task'.at = "none" /\ "none" \notin Trying
    BY <2>1 DEF NoTask, Trying
  <2>6. \A l \in LogicalCall, r \in Rev :
          /\ r \in waits[l] => l <= step /\ question'[l][r] /= "none"
          /\ question'[l][r] \in {"open", "answered"} => r \in waits[l]
          /\ question'[l][r] = "closed" => runState' \in Ended \cup {"cancelling"}
    <3>1. \A l \in LogicalCall, r \in Rev : question[l][r] /= "closed"
      BY <2>1 DEF QuestionsAsked, Ended
    <3> QED
      BY <2>2, <3>1 DEF QuestionsAsked
  <2>7. \A r, s \in waits[step] : question'[step][r] /= "answered" /\ question'[step][s] /= "answered" => r = s
    BY <1>z, <2>2 DEF QuestionsAsked
  <2>8. QuestionsAsked'
    BY <2>1, <2>5, <2>6, <2>7 DEF QuestionsAsked
  <2>9. QuestionCanBeAnswered'
    BY <1>z, <2>1, <2>2, <2>3, <2>4, <2>5 DEF QuestionCanBeAnswered
  <2> QED
    BY <2>8, <2>9
<1>20. CASE Dispatch
  BY <1>20, QuestionsUntouched DEF Dispatch, SelectionTypeOK, Trying
<1>21. CASE TurnSaved
  <2>1. CASE step < MaxCalls /\ step' = step + 1 /\ task' = [NoTask EXCEPT !.at = "enter"]
               /\ UNCHANGED <<runState, control, command, question>>
    <3>1. /\ task'.at = "enter" /\ UNCHANGED <<runState, question, waits>> /\ runState = "running"
          /\ step' \in LogicalCall /\ step \in Int
      BY <1>21, <2>1 DEF TurnSaved, NoTask, Fence, SelectionTypeOK, LogicalCall
    <3>2. waits[step'] = {}
      <4>1. \A r \in Rev : r \notin waits[step']
        BY <2>1, <3>1 DEF QuestionsAsked
      <4> QED
        BY <3>1, <4>1 DEF SelectionTypeOK
    <3>3. \A l \in LogicalCall : l <= step => l <= step'
      BY <2>1, <3>1 DEF LogicalCall
    <3>4. QuestionsAsked'
      BY <3>1, <3>2, <3>3 DEF QuestionsAsked
    <3>5. QuestionCanBeAnswered'
      BY <3>1 DEF QuestionCanBeAnswered
    <3> QED
      BY <3>4, <3>5
  <2>2. CASE Finish("completed") /\ task' = NoTask /\ UNCHANGED step
    BY <1>f, <1>21, <2>2, QuestionsEnd DEF TurnSaved, Finish
  <2> QED
    BY <1>21, <2>1, <2>2 DEF TurnSaved
<1>22. CASE UNCHANGED mvars
  BY <1>22, QuestionsUntouched DEF mvars, Fence
<1> QED
  BY <1>1, <1>2, <1>3, <1>4, <1>5, <1>6, <1>7, <1>8, <1>9, <1>10, <1>11, <1>12, <1>13, <1>14,
     <1>15, <1>16, <1>17, <1>18, <1>19, <1>20, <1>21, <1>22 DEF SelectionNext, TaskStep

\* The shapes, the verdicts and the questions are kept together.
LEMMA SelectionKept ==
    ASSUME SelectionInv, [SelectionNext]_mvars
    PROVE  SelectionInv'
BY SelectionTypesKept, SelectionToldKept, QuestionsKept DEF SelectionInv

\* ModelSelectionService, awrap_model_call: though a candidate is prepared across awaits and its failure is
\* recorded in three writes between which the worker may die and the user may act, a selection told as rejected
\* was tried, one told as applied was bound, at most the newest is open, none after the run ended, and a run
\* that waits over a candidate has a question the user can answer.
THEOREM SelectionHolds == SelectionSpec => [](SelectionTypeOK /\ VerdictsTrue)
<1>1. SelectionInv => SelectionTypeOK /\ VerdictsTrue
  BY DEF SelectionInv, SelectionTold, VerdictsTrue
<1> QED
  BY <1>1, SelectionStarts, SelectionKept, PTL DEF SelectionSpec

------------------------------------------------------------------------------
(* The context *)

\* The bounds of the history and of the turn under way; no view is open outside a turn.
ContextRuns ==
    /\ history + added <= MaxHistory /\ branchRev <= history /\ chat.input <= history
    /\ chat.status = "running" => asks <= MaxAsks
    /\ chat.status /= "running" => added = 0 /\ view.at = "none"
    /\ view.at = "none" => view = NoView

\* The pins and the pointer a view was read with are those of their revisions.
ViewRead ==
    view.at \in {"reading", "summarizing"} =>
        /\ pointer.rev = view.pointerRev /\ view.summary.covered \subseteq pointer.summary.covered
        /\ view.at = "summarizing" => view.previous = pointer.summary
        /\ view.pinRev <= pins.rev
        /\ pins.rev = view.pinRev => pins.items = view.pins

\* An open view has every turn of the history, itself or in its summary (an image is never only summarized).
ViewWhole ==
    view.at \in {"reading", "summarizing", "fitting"} =>
        \A t \in 1 .. history : t \in view.turns \/ (t \in view.summary.covered /\ t \notin ImageTurn)

\* The inductive invariant of the context.
ContextInv ==
    /\ ContextTypeOK /\ ContextRuns /\ ViewRead /\ ViewWhole /\ NothingDropped
    /\ pointer.rev = 0 => pointer.summary = NoSummary

\* An empty history with its first message.
LEMMA ContextStarts == ContextInit => ContextInv
<1> SUFFICES ASSUME ContextInit  PROVE ContextInv
  OBVIOUS
<1>1. 0 \in 0 .. MaxHistory /\ 0 \in 0 .. MaxPinEdits /\ 0 \in 0 .. MaxAsks + 1 /\ MaxHistory \in Nat /\ MaxAsks \in Nat
  BY ContextAssumption
<1>2. NoSummary \in Summary
  BY DEF NoSummary, Summary
<1>3. ContextTypeOK
  BY <1>1, <1>2 DEF ContextInit, ContextTypeOK, NoView, NoRequest
<1>4. ContextRuns
  BY <1>1 DEF ContextInit, ContextRuns, NoView
<1> QED
  BY <1>3, <1>4 DEF ContextInit, ContextInv, ViewRead, ViewWhole, NothingDropped, NoView, NoRequest

\* A refusal lets the user try again, or ends the run.
LEMMA ContextRefused ==
    ASSUME ContextInv, chat.status = "running", UNCHANGED pointer,
           NEW code \in {"stale_context_input", "compaction_failed", "context_revision_conflict", "context_limit"},
           Refuse(code)
    PROVE  ContextInv'
<1>0. MaxAsks \in Nat /\ asks \in 0 .. MaxAsks + 1 /\ asks <= MaxAsks /\ 0 \in 0 .. MaxHistory
  BY ContextAssumption DEF ContextInv, ContextTypeOK, ContextRuns
<1>1. asks' = asks + 1 /\ UNCHANGED <<history, branchRev, pins, request, pointer>>
  BY DEF Refuse
<1>2. asks' \in 0 .. MaxAsks + 1
  BY <1>0, <1>1
<1>3. NoView \in [at : {"none", "ready", "reading", "summarizing", "fitting", "sent"}, pointerRev : Nat,
                 pinRev : 0 .. MaxPinEdits, pins : SUBSET Pin, turns : SUBSET Turn,
                 summary : Summary, previous : Summary]
  BY ContextAssumption DEF NoView, NoSummary, Summary
<1>4. CASE asks < MaxAsks
  <2>1. /\ view' = Ready /\ chat' = [chat EXCEPT !.error = code] /\ added' = added
    BY <1>4 DEF Refuse
  <2>2. Ready.at = "ready"
    BY DEF Ready, NoView
  <2>3. ContextTypeOK'
    BY <1>1, <1>2, <1>3, <2>1 DEF ContextInv, ContextTypeOK, Ready
  <2>4. chat'.status = "running" /\ chat'.input = chat.input
    BY <2>1 DEF ContextInv, ContextTypeOK
  <2>5. ContextRuns'
    BY <1>0, <1>1, <1>4, <2>1, <2>2, <2>4 DEF ContextInv, ContextRuns
  <2> QED
    BY <1>1, <2>1, <2>2, <2>3, <2>5 DEF ContextInv, ViewRead, ViewWhole, NothingDropped
<1>5. CASE ~(asks < MaxAsks)
  <2>1. /\ view' = NoView /\ chat' = [chat EXCEPT !.status = "failed", !.error = code] /\ added' = 0
    BY <1>5 DEF Refuse
  <2>2. NoView.at = "none"
    BY DEF NoView
  <2>3. ContextTypeOK'
    BY <1>0, <1>1, <1>2, <1>3, <2>1 DEF ContextInv, ContextTypeOK
  <2>4. chat'.status = "failed" /\ chat'.input = chat.input
    BY <2>1 DEF ContextInv, ContextTypeOK
  <2>5. ContextRuns'
    <3>1. history + 0 <= MaxHistory
      BY ContextAssumption DEF ContextInv, ContextTypeOK
    <3> QED
      BY <1>1, <2>1, <2>2, <2>4, <3>1 DEF ContextInv, ContextRuns
  <2> QED
    BY <1>1, <2>1, <2>2, <2>3, <2>5 DEF ContextInv, ViewRead, ViewWhole, NothingDropped
<1> QED
  BY <1>4, <1>5

\* A turn that leaves the view is covered by the summary that comes with it.
LEMMA SummaryCovers ==
    ASSUME ContextInv, CompactPublishes
    PROVE  /\ NewSummary \in Summary
           /\ pins.items \subseteq NewSummary.constraints
           /\ pointer.summary.constraints \subseteq NewSummary.constraints
           /\ pointer.summary.covered \subseteq NewSummary.covered
           /\ Older(view.turns) \subseteq NewSummary.covered
<1>1. /\ view.previous \in Summary /\ view.pins \in SUBSET Pin /\ Older(view.turns) \in SUBSET Turn
  BY DEF ContextInv, ContextTypeOK, Older
<1>2. view.previous = pointer.summary /\ pins.items = view.pins
  BY DEF CompactPublishes, Unmoved, ContextInv, ViewRead
<1> QED
  BY <1>1, <1>2 DEF NewSummary, Summary

\* compose(), compact(), edits of pins and the end of a turn keep it.
LEMMA ContextKept ==
    ASSUME ContextInv, [ContextNext]_cvars
    PROVE  ContextInv'
<1> USE ContextAssumption
<1>0. ContextTypeOK /\ ContextRuns
  BY DEF ContextInv
<1>n. /\ MaxHistory \in Nat /\ MaxAsks \in Nat /\ MaxPinEdits \in Nat
      /\ NoView.at = "none" /\ Ready.at = "ready"
      /\ 0 \in 0 .. MaxHistory /\ 0 \in 0 .. MaxAsks + 1
      /\ NoView \in [at : {"none", "ready", "reading", "summarizing", "fitting", "sent"}, pointerRev : Nat,
                 pinRev : 0 .. MaxPinEdits, pins : SUBSET Pin, turns : SUBSET Turn,
                 summary : Summary, previous : Summary]
      /\ Ready \in [at : {"none", "ready", "reading", "summarizing", "fitting", "sent"}, pointerRev : Nat,
                 pinRev : 0 .. MaxPinEdits, pins : SUBSET Pin, turns : SUBSET Turn,
                 summary : Summary, previous : Summary]
      /\ NoSummary \in Summary
  BY DEF NoView, Ready, NoSummary, Summary
<1>1. CASE SubmitTurn
  <2>1. /\ history' = history + 1 /\ branchRev' = branchRev + 1 /\ asks' = 0
        /\ chat' = [status |-> "running", input |-> branchRev + 1, error |-> "none"]
        /\ UNCHANGED <<added, pointer, pins, view, request>>
        /\ added = 0 /\ view.at = "none" /\ history < MaxHistory
    BY <1>0, <1>1 DEF SubmitTurn, ContextRuns
  <2>2. history' \in 0 .. MaxHistory /\ branchRev' \in 0 .. MaxHistory /\ branchRev' <= history'
    BY <1>0, <1>n, <2>1 DEF ContextTypeOK, ContextRuns
  <2>3. ContextTypeOK'
    BY <1>0, <1>n, <2>1, <2>2 DEF ContextTypeOK
  <2>4. ContextRuns'
    BY <1>0, <1>n, <2>1, <2>2 DEF ContextRuns
  <2> QED
    BY <2>1, <2>3, <2>4 DEF ContextInv, ViewRead, ViewWhole, NothingDropped
<1>2. CASE AddMessage
  <2>1. added' = added + 1 /\ added' \in 0 .. MaxHistory /\ history + added' <= MaxHistory
    BY <1>0, <1>n, <1>2 DEF AddMessage, ContextTypeOK
  <2> QED
    BY <1>2, <2>1 DEF AddMessage, ContextInv, ContextTypeOK, ContextRuns, ViewRead, ViewWhole, NothingDropped
<1>3. CASE EditPins
  <2>1. PICK text \in Pin : pins' = [rev |-> pins.rev + 1, items |-> pins.items \cup {text}]
    BY <1>3 DEF EditPins
  <2>2. pins.rev \in 0 .. MaxPinEdits /\ pins.rev < MaxPinEdits /\ pins.items \subseteq Pin
    BY <1>0, <1>3 DEF EditPins, ContextTypeOK
  <2>3. /\ pins' \in [rev : 0 .. MaxPinEdits, items : SUBSET Pin]
        /\ pins'.rev = pins.rev + 1
    BY <1>n, <2>1, <2>2
  <2>4. ViewRead'
    <3>1. view.pinRev \in Nat /\ pins.rev \in Nat
      BY <1>0, <1>n, <2>2 DEF ContextTypeOK
    <3> QED
      BY <1>3, <2>3, <3>1 DEF EditPins, ContextInv, ViewRead
  <2> QED
    BY <1>3, <2>3, <2>4 DEF EditPins, ContextInv, ContextTypeOK, ContextRuns, ViewWhole, NothingDropped
<1>4. CASE TakeIn
  <2>1. /\ history' = history + added /\ added' = 0 /\ chat' = [chat EXCEPT !.input = @ + added]
        /\ view' = Ready /\ UNCHANGED <<branchRev, pointer, pins, request, asks>> /\ chat.status = "running"
    BY <1>4 DEF TakeIn
  <2>2. history' \in 0 .. MaxHistory /\ chat.input + added \in 0 .. MaxHistory /\ chat.input + added <= history'
        /\ branchRev' <= history'
    BY <1>0, <1>n, <2>1 DEF ContextTypeOK, ContextRuns
  <2>3. ContextTypeOK'
    BY <1>0, <1>n, <2>1, <2>2 DEF ContextTypeOK
  <2>4. chat'.status = "running" /\ chat'.input = chat.input + added
    BY <1>0, <2>1 DEF ContextTypeOK
  <2>5. ContextRuns'
    BY <1>0, <1>n, <2>1, <2>2, <2>4 DEF ContextRuns
  <2> QED
    BY <1>n, <2>1, <2>3, <2>5 DEF ContextInv, ViewRead, ViewWhole, NothingDropped
<1>5. CASE ComposeStale
  BY <1>5, ContextRefused DEF ComposeStale, Composing
<1>6. CASE ComposeReads
  <2>1. /\ pointer' = Raised
        /\ view' = [NoView EXCEPT !.at = "reading", !.pointerRev = Raised.rev, !.pinRev = pins.rev,
                              !.pins = pins.items, !.summary = Usable(pointer.summary),
                              !.turns = Working(Usable(pointer.summary))]
        /\ UNCHANGED <<history, branchRev, chat, added, pins, request, asks>>
        /\ chat.status = "running"
    BY <1>6 DEF ComposeReads, Composing
  <2>2. /\ Raised \in [rev : Nat, input : 0 .. MaxHistory, summary : Summary]
        /\ Raised.summary = pointer.summary
        /\ Raised.rev = 0 => pointer.rev = 0
    <3>1. /\ pointer \in [rev : Nat, input : 0 .. MaxHistory, summary : Summary]
          /\ chat.input \in 0 .. MaxHistory
          /\ pointer.rev = 0 => pointer.summary = NoSummary
      BY <1>0 DEF ContextInv, ContextTypeOK
    <3>2. CASE pointer.rev = 0
      BY <1>n, <3>1, <3>2 DEF Raised
    <3>3. CASE pointer.rev /= 0 /\ pointer.input < chat.input
      <4>1. Raised = [pointer EXCEPT !.rev = pointer.rev + 1, !.input = chat.input]
        BY <3>3 DEF Raised
      <4>2. pointer.rev \in Nat /\ pointer.rev + 1 \in Nat /\ pointer.rev + 1 /= 0
        BY <3>1
      <4> QED
        BY <3>1, <4>1, <4>2
    <3>4. CASE pointer.rev /= 0 /\ ~(pointer.input < chat.input)
      BY <3>1, <3>4 DEF Raised
    <3> QED
      BY <3>2, <3>3, <3>4
  <2>3. /\ Working(Usable(pointer.summary)) \in SUBSET Turn /\ Usable(pointer.summary) \in Summary
        /\ Usable(pointer.summary).covered \subseteq pointer.summary.covered
    BY <1>0, <1>n DEF Working, Usable, Turn, Summary, NoSummary, ContextTypeOK
  <2>4. /\ view'.at = "reading" /\ view'.pointerRev = Raised.rev /\ view'.pinRev = pins.rev
        /\ view'.pins = pins.items /\ view'.summary = Usable(pointer.summary)
        /\ view'.turns = Working(Usable(pointer.summary))
    BY <2>1 DEF NoView
  <2>5. view' \in [at : {"none", "ready", "reading", "summarizing", "fitting", "sent"}, pointerRev : Nat,
                 pinRev : 0 .. MaxPinEdits, pins : SUBSET Pin, turns : SUBSET Turn,
                 summary : Summary, previous : Summary]
    BY <1>0, <1>n, <2>1, <2>2, <2>3 DEF ContextTypeOK
  <2>6. ContextTypeOK'
    BY <1>0, <2>1, <2>2, <2>5 DEF ContextTypeOK
  <2>7. ContextRuns'
    BY <1>0, <2>1, <2>4 DEF ContextRuns
  <2>8. ViewRead'
    <3>1. pins.rev \in Nat
      BY <1>0, <1>n DEF ContextTypeOK
    <3>2. view'.summary.covered \subseteq pointer'.summary.covered
      BY <2>1, <2>2, <2>3, <2>4
    <3>3. pointer'.rev = view'.pointerRev /\ view'.pinRev <= pins'.rev /\ pins'.items = view'.pins
      BY <2>1, <2>4, <3>1
    <3> QED
      BY ONLY <2>4, <3>2, <3>3, SMT DEF ViewRead
  <2>9. ViewWhole'
    BY <2>1, <2>4 DEF ViewWhole, Working
  <2> QED
    BY <2>1, <2>2, <2>6, <2>7, <2>8, <2>9 DEF ContextInv, NothingDropped
<1>7. CASE ComposeTooLarge
  BY <1>0, <1>7, ContextRefused DEF ComposeTooLarge, Fit, ContextRuns
<1>8. CASE CompactReads
  <2>1. /\ view.at = "reading" /\ view' = [view EXCEPT !.at = "summarizing", !.previous = pointer.summary]
        /\ UNCHANGED <<history, branchRev, chat, added, pointer, pins, request, asks>>
    BY <1>8 DEF CompactReads
  <2>2. pointer.summary \in Summary
    BY <1>0 DEF ContextTypeOK
  <2>3. /\ view'.at = "summarizing" /\ view'.previous = pointer.summary /\ view'.turns = view.turns
        /\ view'.summary = view.summary /\ view'.pins = view.pins /\ view'.pinRev = view.pinRev
        /\ view'.pointerRev = view.pointerRev
    BY <1>0, <2>1 DEF ContextTypeOK
  <2>4. ContextTypeOK'
    BY <1>0, <2>1, <2>2 DEF ContextTypeOK
  <2>5. ContextRuns'
    BY <1>0, <2>1, <2>3 DEF ContextRuns
  <2> QED
    BY <2>1, <2>3, <2>4, <2>5 DEF ContextInv, ViewRead, ViewWhole, NothingDropped
<1>9. CASE CompactFails
  BY <1>0, <1>9, ContextRefused DEF CompactFails, ContextRuns
<1>10. CASE CompactPublishes
  <2> DEFINE older == Older(view.turns) \ ImageTurn
  <2>1. /\ pointer' = [rev |-> pointer.rev + 1, input |-> chat.input, summary |-> NewSummary]
        /\ view' = [view EXCEPT !.at = "fitting", !.summary = NewSummary, !.turns = view.turns \ older]
        /\ UNCHANGED <<history, branchRev, chat, added, pins, request, asks>>
        /\ view.at = "summarizing"
    BY <1>0, <1>10 DEF CompactPublishes, ContextTypeOK
  <2>2. /\ NewSummary \in Summary /\ pointer.summary.covered \subseteq NewSummary.covered
        /\ older \subseteq NewSummary.covered /\ older \cap ImageTurn = {}
    BY <1>10, SummaryCovers
  <2>3. view.turns \ older \in SUBSET Turn
    BY <1>0 DEF ContextTypeOK
  <2> HIDE DEF older
  <2>4. view'.at = "fitting" /\ view'.summary = NewSummary /\ view'.turns = view.turns \ older
    BY <1>0, <2>1 DEF ContextTypeOK
  <2>5. ContextTypeOK'
    <3>1. pointer' \in [rev : Nat, input : 0 .. MaxHistory, summary : Summary]
      BY <1>0, <2>1, <2>2 DEF ContextTypeOK
    <3>2. view' \in [at : {"none", "ready", "reading", "summarizing", "fitting", "sent"}, pointerRev : Nat,
                 pinRev : 0 .. MaxPinEdits, pins : SUBSET Pin, turns : SUBSET Turn,
                 summary : Summary, previous : Summary]
      BY <1>0, <2>1, <2>2, <2>3 DEF ContextTypeOK
    <3> QED
      BY <1>0, <2>1, <3>1, <3>2 DEF ContextTypeOK
  <2>6. ContextRuns'
    BY <1>0, <2>1, <2>4 DEF ContextRuns
  <2>7. ViewWhole'
    <3>1. view.summary.covered \subseteq pointer.summary.covered
      BY <2>1 DEF ContextInv, ViewRead
    <3>2. \A t \in 1 .. history : t \in view.turns \/ (t \in view.summary.covered /\ t \notin ImageTurn)
      BY <2>1 DEF ContextInv, ViewWhole
    <3>3. \A t \in 1 .. history : t \in view'.turns \/ (t \in NewSummary.covered /\ t \notin ImageTurn)
      BY <2>2, <2>4, <3>1, <3>2
    <3> QED
      BY <2>1, <2>4, <3>3 DEF ViewWhole
  <2>8. pointer'.rev /= 0
    BY <1>0, <2>1 DEF ContextTypeOK
  <2> QED
    BY <2>1, <2>4, <2>5, <2>6, <2>7, <2>8 DEF ContextInv, ViewRead, NothingDropped
<1>11. CASE CompactConflicts
  BY <1>0, <1>11, ContextRefused DEF CompactConflicts, ContextRuns
<1>12. CASE ViewSent
  <2>1. /\ request' = [turns |-> view.turns, summary |-> view.summary, pins |-> view.pins, upto |-> history]
        /\ view' = [NoView EXCEPT !.at = "sent"]
        /\ UNCHANGED <<history, branchRev, chat, added, pointer, pins, asks>>
        /\ view.at \in {"reading", "fitting"}
    BY <1>12 DEF ViewSent, Fit
  <2>2. view'.at = "sent"
    BY <2>1 DEF NoView
  <2>3. ContextTypeOK'
    <3>1. /\ view.turns \in SUBSET Turn /\ view.summary \in Summary /\ view.pins \in SUBSET Pin
          /\ history \in 0 .. MaxHistory
      BY <1>0 DEF ContextTypeOK
    <3>2. request' \in [turns : SUBSET Turn, summary : Summary, pins : SUBSET Pin, upto : 0 .. MaxHistory]
      BY <2>1, <3>1
    <3>3. view' \in [at : {"none", "ready", "reading", "summarizing", "fitting", "sent"}, pointerRev : Nat,
                 pinRev : 0 .. MaxPinEdits, pins : SUBSET Pin, turns : SUBSET Turn,
                 summary : Summary, previous : Summary]
      BY <1>n, <2>1
    <3> QED
      BY <1>0, <2>1, <3>2, <3>3 DEF ContextTypeOK
  <2>4. ContextRuns'
    BY <1>0, <2>1, <2>2 DEF ContextRuns
  <2> QED
    BY <2>1, <2>2, <2>3, <2>4 DEF ContextInv, ViewRead, ViewWhole, NothingDropped
<1>13. CASE ModelReplied
  <2>1. /\ view' = NoView /\ asks' = 0 /\ UNCHANGED <<history, branchRev, added, pointer, pins, request>>
        /\ chat.status = "running"
    BY <1>0, <1>13 DEF ModelReplied, ContextRuns
  <2>2. \/ chat' = [chat EXCEPT !.error = "none"]
        \/ added = 0 /\ chat' = [chat EXCEPT !.status = "completed"]
    BY <1>13 DEF ModelReplied
  <2>3. ContextTypeOK'
    BY <1>0, <1>n, <2>1, <2>2 DEF ContextTypeOK
  <2>4. /\ chat'.input = chat.input
        /\ chat'.status = "running" \/ added = 0
    BY <1>0, <2>1, <2>2 DEF ContextTypeOK
  <2>5. ContextRuns'
    BY <1>0, <1>n, <2>1, <2>4 DEF ContextRuns
  <2> QED
    BY <1>n, <2>1, <2>3, <2>5 DEF ContextInv, ViewRead, ViewWhole, NothingDropped
<1>14. CASE ComposerDies
  BY <1>0, <1>n, <1>14 DEF ComposerDies, ContextInv, ContextTypeOK, ContextRuns, ViewRead, ViewWhole, NothingDropped
<1>15. CASE UNCHANGED cvars
  BY <1>15 DEF cvars, ContextInv, ContextTypeOK, ContextRuns, ViewRead, ViewWhole, NothingDropped,
      MustCompact
<1> QED
  BY <1>1, <1>2, <1>3, <1>4, <1>5, <1>6, <1>7, <1>8, <1>9, <1>10, <1>11, <1>12, <1>13, <1>14, <1>15
  DEF ContextNext

\* _compact: a new summary has the pins of the moment and all the old one had.
LEMMA SummaryStep ==
    ASSUME ContextInv, [ContextNext]_cvars, pointer'.summary /= pointer.summary
    PROVE  /\ pins.items \subseteq pointer'.summary.constraints
           /\ pointer.summary.constraints \subseteq pointer'.summary.constraints
           /\ pointer.summary.covered \subseteq pointer'.summary.covered
<1>1. CASE CompactPublishes
  <2>1. pointer'.summary = NewSummary
    BY <1>1 DEF CompactPublishes
  <2> QED
    BY <1>1, <2>1, SummaryCovers
<1>2. CASE ComposeReads
  BY <1>2 DEF ComposeReads, Raised, ContextInv, ContextTypeOK
<1>3. CASE UNCHANGED pointer
  BY <1>3
<1> QED
  BY <1>1, <1>2, <1>3
  DEF ContextNext, SubmitTurn, AddMessage, EditPins, TakeIn, ComposeStale, ComposeTooLarge,
      CompactReads, CompactFails, CompactConflicts, ViewSent, ModelReplied, ComposerDies, cvars

\* compose(), compact(): however often a conversation is compacted, every turn is sent itself or
\* covered by the summary sent with it, one with an image itself.
THEOREM ContextHolds == ContextSpec => [](ContextTypeOK /\ NothingDropped)
<1>1. ContextInv => ContextTypeOK /\ NothingDropped
  BY DEF ContextInv
<1> QED
  BY <1>1, ContextStarts, ContextKept, PTL DEF ContextSpec

\* _compact's transaction: though pins change while the model writes a summary, the one that is
\* published holds every pinned constraint and all its predecessor held, and never covers less.
THEOREM SummariesKeep == ContextSpec => SummaryKeeps
<1>1. ContextInv /\ [ContextNext]_cvars =>
        [pointer'.summary /= pointer.summary =>
          /\ pins.items \subseteq pointer'.summary.constraints
          /\ pointer.summary.constraints \subseteq pointer'.summary.constraints
          /\ pointer.summary.covered \subseteq pointer'.summary.covered]_cvars
  BY SummaryStep
<1> QED
  BY <1>1, ContextStarts, ContextKept, PTL DEF ContextSpec, SummaryKeeps

------------------------------------------------------------------------------
(* The turn *)

\* The inductive invariants of all the parts.
TurnInv ==
    /\ BudgetInv /\ SteeringInv /\ SelectionInv /\ ContextInv
    /\ McpInv /\ ConfigInv /\ OAuthInv /\ StreamInv

\* A step of a turn is, for every part, a step of that part or none.
LEMMA TurnSteps ==
    ASSUME [TurnNext]_turnVars
    PROVE  /\ [BudgetNext]_bvars /\ [SteeringNext]_svars /\ [SelectionNext]_mvars /\ [ContextNext]_cvars
           /\ [McpNext]_xvars /\ [ConfigNext]_gvars /\ [OAuthNext]_ovars /\ [StreamNext]_evars
  BY DEF TurnNext, turnVars

\* The parts of a turn keep their invariants beside one another.
LEMMA TurnInvariant == TurnSpec => []TurnInv
<1>1. TurnInit => TurnInv
  <2>1. BudgetInit => BudgetInv
    BY LedgerStarts DEF BudgetInv
  <2> QED
    BY <2>1, SteeringStarts, SelectionStarts, ContextStarts, McpStarts, ConfigStarts, OAuthStarts, StreamStarts
    DEF TurnInit, TurnInv
<1>2. TurnInv /\ [TurnNext]_turnVars => TurnInv'
  BY TurnSteps, BudgetKept, SteeringKept, SelectionKept, ContextKept, McpKept, ConfigKept, OAuthKept, StreamKept
  DEF TurnInv
<1> QED
  BY <1>1, <1>2, PTL DEF TurnSpec

\* Store, ModelSelectionService, ContextService and McpGateway: the state of every part of a turn
\* keeps its shape while all of them are there.
THEOREM TurnTypesHold == TurnSpec => []TurnTypeOK
<1>1. TurnInv => TurnTypeOK
  <2>1. SteeringInv => SteeringTypeOK
    BY DEF SteeringInv
  <2>2. SelectionInv /\ ContextInv => SelectionTypeOK /\ ContextTypeOK
    BY DEF SelectionInv, ContextInv
  <2>3. McpInv /\ ConfigInv /\ OAuthInv => McpTypeOK /\ ConfigTypeOK /\ OAuthTypeOK
    BY DEF McpInv, ConfigInv, OAuthInv
  <2>4. StreamInv => StreamTypeOK
    BY DEF StreamInv
  <2> QED
    BY <2>1, <2>2, <2>3, <2>4, BudgetPromise DEF TurnInv, TurnTypeOK
<1> QED
  BY <1>1, TurnInvariant, PTL

\* McpConfigFileService.save and OAuthAuthorizationService.callback: during any turn, a save
\* replaces only the text its page had seen and an authorization code is spent once.
THEOREM ConnectionsStaySound == TurnSpec => []ConnectionsSound
<1>1. TurnInv => ConnectionsSound
  BY DEF TurnInv, ConnectionsSound, ConfigInv, OAuthInv
<1> QED
  BY <1>1, TurnInvariant, PTL
===============================================================================
