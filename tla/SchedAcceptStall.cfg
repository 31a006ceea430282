\* One slot; the user accepts an unresolved outcome while a child is queued.
CONSTANTS
    NoProc = NoProc
    MaxRuns = 2
    MaxRoots = 1
    Branch = {b1, b2}
    Proc = {p1}
    ReadOp = {}
    FileOp = {}
    ExternalOp = {x1}
    McpOp = {}
    InputOp = {}
    WaitOp = {}
    DelegateOp = {d1}
    Approval = {}
    AnyWait = {}
    WorkerSlots = 1
    ChildConcurrency = 1
    MaxDepth = 1
    MaxFence = 2
    MayCrash = {}
    LiveLeaseLoss = FALSE
SPECIFICATION LiveSpec
PROPERTIES
    CancelEnds
CHECK_DEADLOCK FALSE
