\* A step that asks a question and waits for a child ("any"): answers, deadlines and
\* children resolve one barrier in any order; the worker may die and another resumes.
CONSTANTS
    NoProc = NoProc
    MaxRuns = 2
    MaxRoots = 1
    Branch = {b1, b2}
    Proc = {p1, p2}
    ReadOp = {}
    FileOp = {}
    ExternalOp = {}
    McpOp = {}
    InputOp = {i1}
    WaitOp = {w1}
    DelegateOp = {d1}
    Approval = {}
    AnyWait = {w1}
    WorkerSlots = 1
    ChildConcurrency = 1
    MaxDepth = 1
    MaxFence = 2
    MayCrash = {p1}
    LiveLeaseLoss = FALSE
SPECIFICATION Spec
INVARIANTS
    TypeOK
    BarrierComplete
CHECK_DEADLOCK FALSE
