\* Budget, steering, model selection, context, remote calls and their configuration, one at a time.
SPECIFICATION TurnSpec
CONSTANTS
    BudgetProc = {q1, q2}
    NoBudgetProc = NoBudgetProc
    Call = {c1, c2}
    ToolOp = {t1}
    PausingOp = {a1}
    MaxAttempts = 2
    Concurrency = 1
    Estimate = 2
    Reports = {1, 3}
    Limits <- AccountLimits
    BudgetCrash = {q1}
    MaxLostStarts = 1
    MaxInput = 3
    MaxTurns = 2
    MaxDeaths = 2
    Profile = {A, B}
    FirstProfile = A
    MaxSelects = 2
    MaxCalls = 2
    MaxClaims = 2
    MaxPreparations = 2
    Pin = {P1, P2}
    MaxHistory = 5
    ImageTurn = {1}
    RecentTurns = 1
    SoftTurns = 2
    HardTurns = 3
    MaxPinEdits = 2
    MaxAsks = 1
    McpCall = {m1, m2}
    ReadOnly = {m2}
    Elicits = {m1}
    MaxRounds = 2
    MaxMcpDeaths = 1
    Text = {t1, t2}
    FirstText = t1
    Invalid = Invalid
    NoText = NoText
    WebSave = {s1}
    MaxEdits = 2
    MaxApiDeaths = 1
    Callback = {k1, k2}
    MaxRowChanges = 2
    MaxExchangerDeaths = 1
    Reply = {r1}
    MaxEvents = 3
    MaxTouches = 1
    MaxChunks = 1
    MaxWire = 2
    MaxDrops = 1
    MaxRefreshes = 1
INVARIANTS
    TurnTypeOK
    WithinLimit
    ReservationsSound
    EveryInputAnswered
    VerdictsTrue
    NothingDropped
    McpOutcomeTrue
    ConnectionsSound
    ViewTrue
PROPERTIES
    CallEnds
    InputHeard
    SummaryKeeps
    FileTakesEffect
    ViewCatchesUp
CHECK_DEADLOCK FALSE
