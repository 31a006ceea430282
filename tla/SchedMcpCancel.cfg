\* One run whose MCP call waits for an answer is cancelled.
CONSTANTS
    NoProc = NoProc
    MaxRuns = 1
    MaxRoots = 1
    Branch = {b1}
    Proc = {p1}
    ReadOp = {}
    FileOp = {}
    ExternalOp = {}
    McpOp = {m1}
    InputOp = {}
    WaitOp = {}
    DelegateOp = {}
    Approval = {}
    AnyWait = {}
    WorkerSlots = 1
    ChildConcurrency = 1
    MaxDepth = 0
    MaxFence = 2
    MayCrash = {}
    LiveLeaseLoss = FALSE
SPECIFICATION LiveSpec
PROPERTIES
    CancelEnds
CHECK_DEADLOCK FALSE
