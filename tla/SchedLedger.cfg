\* Two runs compete for one branch; a command, a question;
\* both workers may die, and a live worker may miss its lease.
CONSTANTS
    NoProc = NoProc
    MaxRuns = 2
    MaxRoots = 2
    Branch = {b1}
    Proc = {p1, p2}
    ReadOp = {}
    FileOp = {}
    ExternalOp = {x1}
    McpOp = {}
    InputOp = {i1}
    WaitOp = {}
    DelegateOp = {}
    Approval = {}
    AnyWait = {}
    WorkerSlots = 1
    ChildConcurrency = 1
    MaxDepth = 0
    MaxFence = 2
    MayCrash = {p1, p2}
    LiveLeaseLoss = TRUE
SPECIFICATION Spec
INVARIANTS
    SingleExecutor
    BranchExclusive
    LedgerClosed
    ReviewActionable
PROPERTIES
    CancelSticks
SYMMETRY ProcSymmetry
CHECK_DEADLOCK FALSE
