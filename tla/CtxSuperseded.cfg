\* A compose refused as superseded, of a run nothing superseded.
SPECIFICATION ContextSpec
CONSTANTS
    Pin = {P1}
    MaxHistory = 5
    ImageTurn = {}
    RecentTurns = 1
    SoftTurns = 2
    HardTurns = 3
    MaxPinEdits = 0
    MaxAsks = 1
INVARIANTS
    RefusedWasSuperseded
CHECK_DEADLOCK FALSE
