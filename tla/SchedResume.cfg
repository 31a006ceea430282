\* One run with an approved write, an MCP call that asks a question and a read; its worker
\* may die at any point and another resumes it, up to three attempts.
CONSTANTS
    NoProc = NoProc
    MaxRuns = 1
    MaxRoots = 1
    Branch = {b1}
    Proc = {p1, p2}
    ReadOp = {r1}
    FileOp = {f1}
    ExternalOp = {}
    McpOp = {m1}
    InputOp = {}
    WaitOp = {}
    DelegateOp = {}
    Approval = {f1}
    AnyWait = {}
    WorkerSlots = 1
    ChildConcurrency = 1
    MaxDepth = 0
    MaxFence = 3
    MayCrash = {p1}
    LiveLeaseLoss = FALSE
SPECIFICATION Spec
INVARIANTS
    AtMostOnceEffect
    ApprovalBeforeEffect
CHECK_DEADLOCK FALSE
