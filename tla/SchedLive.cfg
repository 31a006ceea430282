\* A parent and a child, two workers of which one may die: what must happen in the end.
CONSTANTS
    NoProc = NoProc
    MaxRuns = 2
    MaxRoots = 1
    Branch = {b1, b2}
    Proc = {p1, p2}
    ReadOp = {}
    FileOp = {}
    ExternalOp = {}
    McpOp = {}
    InputOp = {}
    WaitOp = {w1}
    DelegateOp = {d1}
    Approval = {}
    AnyWait = {}
    WorkerSlots = 2
    ChildConcurrency = 1
    MaxDepth = 1
    MaxFence = 2
    MayCrash = {p1}
    LiveLeaseLoss = FALSE
SPECIFICATION LiveSpec
PROPERTIES
    CancelEnds
    WaitersWake
    LostRunMoves
CHECK_DEADLOCK FALSE
