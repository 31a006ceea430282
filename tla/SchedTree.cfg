\* A tree of up to three runs: a child and a grandchild, or two children, with one
\* wait for children of mode "all"; child_concurrency below the number of children.
CONSTANTS
    NoProc = NoProc
    MaxRuns = 3
    MaxRoots = 1
    Branch = {b1, b2, b3}
    Proc = {p1}
    ReadOp = {}
    FileOp = {}
    ExternalOp = {}
    McpOp = {}
    InputOp = {}
    WaitOp = {w1}
    DelegateOp = {d1, d2}
    Approval = {}
    AnyWait = {}
    WorkerSlots = 2
    ChildConcurrency = 1
    MaxDepth = 2
    MaxFence = 2
    MayCrash = {}
    LiveLeaseLoss = FALSE
SPECIFICATION Spec
INVARIANTS
    CompletedSettled
    CancelCoversTree
PROPERTIES
    PromiseKept
CHECK_DEADLOCK FALSE
