---------------------------- MODULE RunScheduler ----------------------------
(***************************************************************************)
(* The run scheduler of Mi Harness: harness/scheduler/service.py (Scheduler)*)
(* and worker.py (Worker), over the rows harness/storage/store.py keeps for *)
(* runs, attempts, branches, tool operations, interactions and child waits. *)
(*                                                                         *)
(* One SQLite database is shared by an API process, which submits, answers, *)
(* cancels and reconciles, and by worker processes, which claim runs and    *)
(* execute each one in an asyncio task.  Every database transaction takes   *)
(* the write lock at its start (BEGIN IMMEDIATE), so an action of this      *)
(* module is one transaction; whatever the code does in two transactions is *)
(* two actions, and another process may step, or this one die, in between.  *)
(*                                                                         *)
(* Time is abstracted to the moments it decides: a lease or an interaction  *)
(* expires, a run's deadline stops its task.  The language model and the    *)
(* tools decide freely which calls a task makes and how each one ends.      *)
(***************************************************************************)
EXTENDS Integers, FiniteSets

CONSTANTS
    MaxRuns,           \* bound: how many runs are ever created
    MaxRoots,          \* bound: how many of them users submit
    Branch,            \* conversation branches
    Proc,              \* worker process incarnations (pid and start time)
    NoProc,
    ReadOp,            \* tool calls with effect "read"
    FileOp,            \* write_file and apply_patch: the target's hash proves them
    ExternalOp,        \* effects "process" and "external_write"
    McpOp,             \* MCP calls that may pause for an elicitation
    InputOp,           \* request_input
    WaitOp,            \* wait_children
    DelegateOp,        \* delegate: effect "read", creates a child run
    Approval,          \* the calls whose policy decision is "approval"
    AnyWait,           \* the wait_children calls with mode "any"
    WorkerSlots, ChildConcurrency, MaxDepth,      \* SchedulerConfig
    MaxFence,          \* bound: claims of one run
    MayCrash,          \* the worker processes that may die
    LiveLeaseLoss      \* whether a live worker can miss its lease (suspend)

Run   == 1 .. MaxRuns         \* in creation order
NoRun == 0

Special == InputOp \cup WaitOp
Op == ReadOp \cup FileOp \cup ExternalOp \cup McpOp \cup DelegateOp \cup Special

\* Calls that leave a mark outside the database, or create a run.
Effectful == FileOp \cup ExternalOp \cup McpOp \cup DelegateOp

ASSUME BoundsAssumption ==
    /\ MaxRuns \in Nat \ {0}  /\ MaxFence \in Nat \ {0}
    /\ WorkerSlots \in Nat \ {0}  /\ ChildConcurrency \in Nat \ {0}
    /\ MaxDepth \in Nat /\ MaxRoots \in Nat
    /\ LiveLeaseLoss \in BOOLEAN
    /\ NoProc \notin Proc  /\ MayCrash \subseteq Proc
    /\ Branch # {}

ASSUME OpAssumption ==
    /\ ReadOp \cap (FileOp \cup ExternalOp \cup McpOp \cup DelegateOp \cup Special) = {}
    /\ FileOp \cap (ExternalOp \cup McpOp \cup DelegateOp \cup Special) = {}
    /\ ExternalOp \cap (McpOp \cup DelegateOp \cup Special) = {}
    /\ McpOp \cap (DelegateOp \cup Special) = {}
    /\ DelegateOp \cap Special = {}
    /\ InputOp \cap WaitOp = {}
    /\ Approval \subseteq FileOp \cup ExternalOp
    /\ AnyWait \subseteq WaitOp

VARIABLES
    \* table runs
    status, parent, root, depth, branch, cancelReq, required,
    review,            \* records "review_resolutions": interrupts closed by reconcile
    fence,             \* runs.fencing_token, which also names the current attempt
    \* the run's current row of run_attempts
    holder, ended, lease,
    owner,             \* branches.active_run_id
    \* table tool_executions
    opRun, opState, accepted, grant, cont,
    \* tables interactions and run_waits
    ask, kids, bound, done,
    \* worker processes
    proc, task, probe, execBy, acted,
    \* the world outside
    effects

runVars  == <<status, parent, root, depth, branch, cancelReq, required, review>>
leaseVars == <<fence, holder, ended, lease>>
opVars   == <<opRun, opState, accepted, grant, cont>>
waitVars == <<ask, kids, bound, done>>
procVars == <<proc, task, probe>>
execVars == <<execBy, acted, effects>>
vars == <<runVars, leaseVars, owner, opVars, waitVars, procVars, execVars>>

Terminal == {"completed", "failed", "cancelled"}
Status == Terminal \cup {"none", "queued", "running", "waiting_user",
    "waiting_children", "recovering", "needs_review", "cancelling"}
OpStates == {"none", "prepared", "running", "succeeded", "failed", "unknown", "cancelled"}
AskStates == {"none", "pending", "open", "approved", "denied", "expired", "cancelled"}
Answered == {"approved", "denied", "expired", "cancelled"}

\* What a paused run waits for: a call together with the reason it paused.
Interrupt == Op \X {"user", "children", "review"}

Probe == [run : Run, fence : 1 .. MaxFence, alive : BOOLEAN]
NoProbe == [run |-> NoRun, fence |-> 0, alive |-> FALSE]

-----------------------------------------------------------------------------
(* Derived state *)

Created(r)    == status[r] # "none"
Unfinished(r) == status[r] \notin Terminal \cup {"none"}
Children(r)   == {c \in Run : parent[c] = r}
OpsOf(r)      == {o \in Op : opRun[o] = r}

\* A settlement that looks for operations still running and forgets the unknown ones.
UnresolvedRunningOnly(r) == {o \in OpsOf(r) : opState[o] = "running"}

\* Operations whose outcome the ledger cannot tell and nobody has accepted.
Unresolved(r) ==
    {o \in OpsOf(r) : opState[o] \in {"running", "unknown"} /\ ~accepted[o]}

ChildrenSettled(r) == \A c \in Children(r) : status[c] \in Terminal

\* The task trees cancel() walks: r and everything delegated below it.
Descendants(r) ==
    {d \in Run : \A S \in SUBSET Run :
        (r \in S /\ \A c \in Run : parent[c] \in S => c \in S) => d \in S}

\* assert_fence for the identity a task was claimed with.
Fenced(p, r) ==
    /\ proc[p] = "alive"
    /\ task[p][r] # 0
    /\ task[p][r] = fence[r]
    /\ ~ended[r]
    /\ lease[r]
MayAct(p, r)    == Fenced(p, r) /\ status[r] = "running" /\ ~cancelReq[r]
MayRecord(p, r) == Fenced(p, r) /\ status[r] \in {"running", "cancelling"}

\* assert_fence for the identity settlement rebuilds from the run's present row.
RowFenced(r) ==
    /\ fence[r] # 0
    /\ ~ended[r]
    /\ lease[r]
    /\ status[r] \in {"running", "cancelling"}

\* The runtime reports an outcome when none of the run's calls is executing.
Quiet(p, r) == \A o \in OpsOf(r) : execBy[o] # p

-----------------------------------------------------------------------------
(* Pausing and waking *)

\* The interrupts of r that already carry a resolution (Scheduler.resolutions).
Ready(r, asks, finished) ==
    {<<o, "user">> : o \in {x \in OpsOf(r) : asks[x] \in Answered}}
    \cup {<<o, "children">> : o \in {x \in OpsOf(r) : finished[x]}}
    \cup review[r]

\* A barrier that opens on its first resolution instead of its last.
BarrierMetByAny(needs, ready) == needs \cap ready # {}
BarrierMet(needs, ready) == needs \subseteq ready

Wakes(r, asks, finished) ==
    /\ status[r] \in {"waiting_user", "waiting_children"}
    /\ ~cancelReq[r]
    /\ BarrierMet(required[r], Ready(r, asks, finished))

\* A wait that counts only the children that succeeded.
WaitMetCompleted(o, stat) ==
    IF o \in AnyWait THEN \E c \in kids[o] : stat[c] = "completed"
                     ELSE \A c \in kids[o] : stat[c] = "completed"

\* Whether the wait's children are done, by its mode ("all" or "any").
WaitMet(o, stat) ==
    IF o \in AnyWait THEN \E c \in kids[o] : stat[c] \in Terminal
                     ELSE \A c \in kids[o] : stat[c] \in Terminal

\* What a call may pause on when it is made (again) by r's task.
Pending(r) ==
    {<<o, "user">> : o \in {x \in OpsOf(r) :
        /\ ask[x] \in {"pending", "open"}
        /\ opState[x] = "prepared" \/ (opState[x] = "running" /\ cont[x])}}
    \cup {<<o, "children">> : o \in {x \in OpsOf(r) \cap WaitOp :
        opState[x] = "prepared" /\ kids[x] # {} /\ ~done[x]}}
    \cup {<<o, "review">> : o \in {x \in OpsOf(r) :
        opState[x] = "unknown" \/ (opState[x] = "running" /\ ~cont[x])}}

KindsOf(W) == {i[2] : i \in W}

\* A status outside the ones claim, respond and cancel look for.
WaitStatusUnlisted(W) == IF "user" \in KindsOf(W) THEN "waiting" ELSE "waiting_children"
WaitStatus(W) ==
    IF "review" \in KindsOf(W) THEN "needs_review"
    ELSE IF "user" \in KindsOf(W) THEN "waiting_user" ELSE "waiting_children"

-----------------------------------------------------------------------------
(* What transition() does besides the status when runs end *)

\* A release that forgets to compare the owner with the run that ends.
ReleaseBranchesOf(T) == [b \in Branch |-> IF \E r \in T : branch[r] = b THEN NoRun ELSE owner[b]]
ReleaseBranches(T) ==
    [b \in Branch |->
        IF \E r \in T : branch[r] = b /\ owner[b] = r THEN NoRun ELSE owner[b]]

CloseAsks(S) ==
    [o \in Op |-> IF opRun[o] \in S /\ ask[o] \in {"pending", "open"}
                  THEN "cancelled" ELSE ask[o]]
RevokeGrants(S) == [o \in Op |-> grant[o] /\ opRun[o] \notin S]
DropPrepared(T) ==
    [o \in Op |-> IF opRun[o] \in T /\ opState[o] = "prepared"
                  THEN "cancelled" ELSE opState[o]]

\* The runs of T end with status st; S \supseteq T also lose grants and open questions.
Ending(T, S) ==
    /\ owner' = ReleaseBranches(T)
    /\ ask' = CloseAsks(S)
    /\ grant' = RevokeGrants(S)
    /\ opState' = DropPrepared(T)

-----------------------------------------------------------------------------
Init ==
    /\ status = [r \in Run |-> "none"]
    /\ parent = [r \in Run |-> NoRun]
    /\ root = [r \in Run |-> NoRun]
    /\ depth = [r \in Run |-> 0]
    /\ branch = [r \in Run |-> CHOOSE b \in Branch : TRUE]
    /\ cancelReq = [r \in Run |-> FALSE]
    /\ required = [r \in Run |-> {}]
    /\ review = [r \in Run |-> {}]
    /\ fence = [r \in Run |-> 0]
    /\ holder = [r \in Run |-> NoProc]
    /\ ended = [r \in Run |-> FALSE]
    /\ lease = [r \in Run |-> FALSE]
    /\ owner = [b \in Branch |-> NoRun]
    /\ opRun = [o \in Op |-> NoRun]
    /\ opState = [o \in Op |-> "none"]
    /\ accepted = [o \in Op |-> FALSE]
    /\ grant = [o \in Op |-> FALSE]
    /\ cont = [o \in Op |-> FALSE]
    /\ ask = [o \in Op |-> "none"]
    /\ kids = [o \in Op |-> {}]
    /\ bound = [o \in Op |-> FALSE]
    /\ done = [o \in Op |-> FALSE]
    /\ proc = [p \in Proc |-> "new"]
    /\ task = [p \in Proc |-> [r \in Run |-> 0]]
    /\ probe = [p \in Proc |-> NoProbe]
    /\ execBy = [o \in Op |-> NoProc]
    /\ acted = [o \in Op |-> FALSE]
    /\ effects = [o \in Op |-> 0]

-----------------------------------------------------------------------------
(* Creating and claiming runs *)

NextRun(r) == ~Created(r) /\ \A q \in Run : q < r => Created(q)

\* The rows a new run starts from.
Insert(r, up, top, level, b) ==
    /\ status' = [status EXCEPT ![r] = "queued"]
    /\ parent' = [parent EXCEPT ![r] = up]
    /\ root' = [root EXCEPT ![r] = top]
    /\ depth' = [depth EXCEPT ![r] = level]
    /\ branch' = [branch EXCEPT ![r] = b]

\* A branch is created under an identity of its own; which one makes no difference.
Unused == {b \in Branch : \A q \in Run : Created(q) => branch[q] # b}
NewBranch(b) == b \in Unused /\ b = CHOOSE x \in Unused : TRUE

\* A user submits a task to a new branch or to one that exists, whatever runs there.
Submit(r, b) ==
    /\ NextRun(r)
    /\ Cardinality({q \in Run : Created(q) /\ parent[q] = NoRun}) < MaxRoots
    /\ b \notin Unused \/ NewBranch(b)
    /\ Insert(r, NoRun, r, 0, b)
    /\ UNCHANGED <<cancelReq, required, review, leaseVars, owner, opVars,
                   waitVars, procVars, execVars>>

BranchFree(r) == owner[branch[r]] \in {NoRun, r}

Claimable(r) ==
    /\ status[r] = "queued"
    /\ BranchFree(r)
    /\ parent[r] # NoRun =>
        Cardinality({q \in Run : /\ status[q] \in {"running", "cancelling"}
                                 /\ root[q] = root[r]
                                 /\ parent[q] # NoRun}) < ChildConcurrency

\* A worker takes the oldest run it may take: it now owns the branch, and a new
\* attempt with the next fencing token holds a fresh lease.  Whether a task starts
\* is up to the worker (maintenance mode, a stopping worker), so this may not happen.
Claim(p, r) ==
    /\ proc[p] = "alive"
    /\ Cardinality({q \in Run : task[p][q] # 0}) < WorkerSlots
    /\ Cardinality({q \in Run : status[q] \in {"running", "cancelling"}}) < WorkerSlots
    /\ Claimable(r)
    /\ fence[r] < MaxFence
    /\ \A q \in Run : Claimable(q) /\ fence[q] < MaxFence => r <= q
    /\ owner' = [owner EXCEPT ![branch[r]] = r]
    /\ status' = [status EXCEPT ![r] = "running"]
    /\ fence' = [fence EXCEPT ![r] = @ + 1]
    /\ holder' = [holder EXCEPT ![r] = p]
    /\ ended' = [ended EXCEPT ![r] = FALSE]
    /\ lease' = [lease EXCEPT ![r] = TRUE]
    /\ task' = [task EXCEPT ![p][r] = fence[r] + 1]
    /\ UNCHANGED <<parent, root, depth, branch, cancelReq, required, review, opVars,
                   waitVars, proc, probe, execVars>>

-----------------------------------------------------------------------------
(* One tool call of a task: ToolGateway.execute *)

\* The call is entered in the ledger under its message and call identity.
PrepareOp(p, r, o) ==
    /\ MayAct(p, r)
    /\ opState[o] = "none"
    /\ opRun' = [opRun EXCEPT ![o] = r]
    /\ opState' = [opState EXCEPT ![o] = "prepared"]
    /\ UNCHANGED <<runVars, leaseVars, owner, accepted, grant, cont, waitVars,
                   procVars, execVars>>

\* request_input, or a call whose policy decision is "approval", creates its question.
AskUser(p, r, o) ==
    /\ MayAct(p, r)
    /\ o \in InputOp \cup Approval
    /\ opRun[o] = r /\ opState[o] = "prepared" /\ ask[o] = "none"
    /\ ask' = [ask EXCEPT ![o] = "pending"]
    /\ UNCHANGED <<runVars, leaseVars, owner, opVars, kids, bound, done,
                   procVars, execVars>>

\* wait_children registers which of the run's children it waits for (prepare_wait).
RegisterWait(p, r, o, K) ==
    /\ proc[p] = "alive" /\ task[p][r] # 0
    /\ o \in WaitOp
    /\ opRun[o] = r /\ opState[o] = "prepared" /\ kids[o] = {}
    /\ K # {} /\ K \subseteq Children(r)
    /\ kids' = [kids EXCEPT ![o] = K]
    /\ UNCHANGED <<runVars, leaseVars, owner, opVars, ask, bound, done,
                   procVars, execVars>>

\* Policy, a changed target or an approval that was not given: the call fails unexecuted.
RefuseOp(p, r, o) ==
    /\ MayRecord(p, r)
    /\ opRun[o] = r /\ opState[o] = "prepared" /\ execBy[o] = NoProc
    /\ opState' = [opState EXCEPT ![o] = "failed"]
    /\ UNCHANGED <<runVars, leaseVars, owner, opRun, accepted, grant, cont, waitVars,
                   procVars, execVars>>

\* request_input and wait_children finish once their interrupt is resolved.
ConcludeSpecial(p, r, o) ==
    /\ MayAct(p, r)
    /\ o \in Special
    /\ opRun[o] = r /\ opState[o] = "prepared"
    /\ ask[o] \in Answered \/ done[o]
    /\ opState' = [opState EXCEPT ![o] = "succeeded"]
    /\ UNCHANGED <<runVars, leaseVars, owner, opRun, accepted, grant, cont, waitVars,
                   procVars, execVars>>

\* An expired question counted as consent.
ClearedUnlessDenied(o) == o \in Approval => ask[o] \in Answered \ {"denied"}
Cleared(o) == o \in Approval => ask[o] = "approved"

\* prepared -> authorized -> running, with a one-shot grant consumed in the same
\* transaction; the executor is entered.
StartOp(p, r, o) ==
    /\ MayAct(p, r)
    /\ o \in Op \ Special
    /\ opRun[o] = r /\ opState[o] = "prepared"
    /\ Cleared(o)
    /\ opState' = [opState EXCEPT ![o] = "running"]
    /\ grant' = [grant EXCEPT ![o] = TRUE]
    /\ execBy' = [execBy EXCEPT ![o] = p]
    /\ acted' = [acted EXCEPT ![o] = FALSE]
    /\ UNCHANGED <<runVars, leaseVars, owner, opRun, accepted, cont, waitVars,
                   procVars, effects>>

\* The executor does what the tool does.  Nothing re-reads the lease here.
Act(p, o) ==
    /\ execBy[o] = p
    /\ o \in Effectful \ DelegateOp
    /\ ~acted[o]
    /\ acted' = [acted EXCEPT ![o] = TRUE]
    /\ effects' = [effects EXCEPT ![o] = @ + 1]
    /\ UNCHANGED <<runVars, leaseVars, owner, opVars, waitVars, procVars, execBy>>

\* delegate(): the same call creates its child once, however often it is executed.
SpawnChild(p, r, o, c, b) ==
    /\ execBy[o] = p /\ o \in DelegateOp /\ ~acted[o]
    /\ MayAct(p, r)
    /\ opRun[o] = r
    /\ acted' = [acted EXCEPT ![o] = TRUE]
    /\ IF effects[o] > 0
       THEN UNCHANGED <<status, parent, root, depth, branch, effects>>
       ELSE /\ ~cancelReq[root[r]] /\ depth[r] < MaxDepth
            /\ NextRun(c)
            /\ NewBranch(b)
            /\ Insert(c, r, root[r], depth[r] + 1, b)
            /\ effects' = [effects EXCEPT ![o] = @ + 1]
    /\ UNCHANGED <<cancelReq, required, review, leaseVars, owner, opVars,
                   waitVars, procVars, execBy>>

\* What the ledger may say of a call whose executor returned or raised.  A file call is
\* never cancelled half way (its body does not await), but may fail after the replace.
Results(o) ==
    {"failed"}
    \cup (IF o \in Effectful => acted[o] THEN {"succeeded"} ELSE {})
    \cup (IF o \in ReadOp \cup DelegateOp \/ (o \in FileOp /\ ~acted[o])
          THEN {"cancelled"} ELSE {})
    \cup (IF o \in ExternalOp THEN {"cancelled"} ELSE {})
    \cup (IF o \in ExternalOp \cup FileOp \cup McpOp THEN {"unknown"} ELSE {})

\* _finish: the result is recorded under the task's identity, or, when that is no
\* longer accepted, lost with the exception it raises.
FinishOp(p, o, result) ==
    LET r == opRun[o] IN
    /\ execBy[o] = p
    /\ result \in Results(o)
    /\ opState' = IF MayRecord(p, r) THEN [opState EXCEPT ![o] = result] ELSE opState
    /\ execBy' = [execBy EXCEPT ![o] = NoProc]
    /\ UNCHANGED <<runVars, leaseVars, owner, opRun, accepted, grant, cont,
                   waitVars, procVars, acted, effects>>

\* The MCP server answers a call with a question: the exchange is saved, the call stays
\* "running" in the ledger, and the task pauses on the question.
McpPause(p, r, o) ==
    /\ execBy[o] = p /\ o \in McpOp
    /\ opRun[o] = r /\ ask[o] = "none"
    /\ MayAct(p, r)
    /\ cont' = [cont EXCEPT ![o] = TRUE]
    /\ ask' = [ask EXCEPT ![o] = "pending"]
    /\ execBy' = [execBy EXCEPT ![o] = NoProc]
    /\ UNCHANGED <<runVars, leaseVars, owner, opRun, opState, accepted, grant,
                   kids, bound, done, procVars, acted, effects>>

\* The saved exchange is continued under the grant of the original call, never by a
\* second call; when the grant is gone the outcome is unknown.
McpResume(p, r, o) ==
    /\ MayAct(p, r)
    /\ o \in McpOp
    /\ opRun[o] = r /\ opState[o] = "running" /\ cont[o] /\ execBy[o] = NoProc
    /\ ask[o] \in Answered
    /\ IF grant[o]
       THEN execBy' = [execBy EXCEPT ![o] = p] /\ UNCHANGED opState
       ELSE opState' = [opState EXCEPT ![o] = "unknown"] /\ UNCHANGED execBy
    /\ cont' = [cont EXCEPT ![o] = FALSE]
    /\ UNCHANGED <<runVars, leaseVars, owner, opRun, accepted, grant, waitVars,
                   procVars, acted, effects>>

-----------------------------------------------------------------------------
(* The task reports its outcome: Worker._execute and Scheduler.settle *)

\* The task of p for r returns; its attempt ends.
Retire(p, r) ==
    /\ task' = [task EXCEPT ![p][r] = 0]
    /\ ended' = [ended EXCEPT ![r] = TRUE]

CanSettle(p, r) ==
    /\ proc[p] = "alive" /\ task[p][r] # 0
    /\ Quiet(p, r)
    /\ RowFenced(r)

\* Whatever the outcome, a run being cancelled ends once nothing of it is unsettled.
SettleCancelling(p, r) ==
    /\ CanSettle(p, r)
    /\ status[r] = "cancelling"
    /\ IF Unresolved(r) = {} /\ ChildrenSettled(r)
       THEN /\ status' = [status EXCEPT ![r] = "cancelled"]
            /\ Ending({r}, {r})
       ELSE UNCHANGED <<status, owner, ask, grant, opState>>
    /\ Retire(p, r)
    /\ UNCHANGED <<parent, root, depth, branch, cancelReq, required, review, fence, holder,
                   lease, opRun, accepted, cont, kids, bound, done, proc, probe, execVars>>

\* The graph paused on the interrupts W.  An interrupt whose resolution this attempt was
\* given (it is in required) cannot be reported again: the runtime raises instead.
SettleWaiting(p, r, W) ==
    /\ CanSettle(p, r)
    /\ status[r] = "running"
    /\ W # {} /\ W \subseteq Pending(r) \ required[r]
    /\ \A i \in Pending(r) : i[2] = "review" => i \in W
    /\ required' = [required EXCEPT ![r] = W]
    /\ opState' = [o \in Op |-> IF <<o, "review">> \in W THEN "unknown" ELSE opState[o]]
    /\ ask' = [o \in Op |-> IF <<o, "user">> \in W THEN "open" ELSE ask[o]]
    /\ bound' = [o \in Op |-> bound[o] \/ <<o, "children">> \in W]
    /\ done' = [o \in Op |-> done[o] \/ (/\ opRun[o] = r /\ bound'[o] /\ WaitMet(o, status))]
    /\ status' = [status EXCEPT ![r] =
            IF WaitStatus(W) # "needs_review" /\ BarrierMet(W, Ready(r, ask', done'))
            THEN "queued" ELSE WaitStatus(W)]
    /\ Retire(p, r)
    /\ UNCHANGED <<parent, root, depth, branch, cancelReq, review, fence, holder, lease,
                   owner, opRun, accepted, grant, cont, kids, proc, probe, execVars>>

\* A final answer that forgets the run's children.
FinalStatusAlone(r) == "completed"
\* A final answer completes the run; with unfinished children it is refused
\* (CHILDREN_UNSETTLED) and the worker settles the run as failed instead.
FinalStatus(r) == IF ChildrenSettled(r) THEN "completed" ELSE "failed"

\* The task ends with an answer or an error: the run ends, unless an operation of it is
\* in doubt.
SettleEnd(p, r, final) ==
    /\ CanSettle(p, r)
    /\ status[r] = "running"
    /\ IF Unresolved(r) # {}
       THEN /\ status' = [status EXCEPT ![r] = "needs_review"]
            /\ UNCHANGED <<owner, ask, grant, opState>>
       ELSE /\ status' = [status EXCEPT ![r] = IF final THEN FinalStatus(r) ELSE "failed"]
            /\ Ending({r}, {r})
    /\ Retire(p, r)
    /\ UNCHANGED <<parent, root, depth, branch, cancelReq, required, review, fence, holder,
                   lease, opRun, accepted, cont, kids, bound, done, proc, probe, execVars>>

\* The row is no longer the task's to settle: the worker logs it and drops the task.
SettleRejected(p, r) ==
    /\ proc[p] = "alive" /\ task[p][r] # 0
    /\ Quiet(p, r)
    /\ ~RowFenced(r)
    /\ task' = [task EXCEPT ![p][r] = 0]
    /\ UNCHANGED <<runVars, leaseVars, owner, opVars, waitVars, proc, probe, execVars>>

-----------------------------------------------------------------------------
(* Users answer, time passes, children end *)

Resumed(S) == [r \in Run |-> IF r \in S THEN "queued" ELSE status[r]]

\* A user answers an open question; the answer that completes the barrier wakes the run.
Respond(o, answer) ==
    LET r == opRun[o] IN
    /\ ask[o] = "open" /\ status[r] = "waiting_user"
    /\ answer \in IF o \in Approval THEN {"approved", "denied"} ELSE {"approved"}
    /\ ask' = [ask EXCEPT ![o] = answer]
    /\ status' = Resumed({q \in {r} : Wakes(q, ask', done)})
    /\ UNCHANGED <<parent, root, depth, branch, cancelReq, required, review, leaseVars,
                   owner, opVars, kids, bound, done, procVars, execVars>>

\* The deadline of a paused run's question passes.
ExpireAsk(o) ==
    LET r == opRun[o] IN
    /\ ask[o] = "open" /\ status[r] \in {"waiting_user", "waiting_children"}
    /\ ask' = [ask EXCEPT ![o] = "expired"]
    /\ status' = Resumed({q \in {r} : Wakes(q, ask', done)})
    /\ UNCHANGED <<parent, root, depth, branch, cancelReq, required, review, leaseVars,
                   owner, opVars, kids, bound, done, procVars, execVars>>

\* A worker's tick resolves every wait whose children are done and wakes the waiting runs.
RefreshWaits ==
    LET met == {o \in WaitOp : bound[o] /\ ~done[o] /\ WaitMet(o, status)} IN
    /\ met # {}
    /\ done' = [o \in Op |-> done[o] \/ o \in met]
    /\ status' = Resumed({r \in Run : OpsOf(r) \cap met # {} /\ Wakes(r, ask, done')})
    /\ UNCHANGED <<parent, root, depth, branch, cancelReq, required, review, leaseVars,
                   owner, opVars, ask, kids, bound, procVars, execVars>>

-----------------------------------------------------------------------------
(* Cancellation *)

\* A paused run that holds nothing ends at once.
EndsAtOnce(r) ==
    \/ status[r] = "queued"
    \/ /\ status[r] = "waiting_user"
       /\ Children(r) = {}
       /\ \A o \in OpsOf(r) : opState[o] \notin {"running", "unknown"}

\* A cancel that stops at the run's own children.
MarkedOneLevel(u) == {d \in {u} \cup Children(u) : Unfinished(d)}
Marked(u) == {d \in Descendants(u) : Unfinished(d)}

\* cancel(): one transaction marks the whole tree below u.
Cancel(u) ==
    LET marked == Marked(u)
        ends == {d \in marked : EndsAtOnce(d)} IN
    /\ marked # {}
    /\ status' = [r \in Run |-> IF r \in ends THEN "cancelled"
                                ELSE IF r \in marked THEN "cancelling" ELSE status[r]]
    /\ cancelReq' = [r \in Run |-> cancelReq[r] \/ r \in marked]
    /\ Ending(ends, marked)
    /\ UNCHANGED <<parent, root, depth, branch, required, review, leaseVars, opRun, accepted,
                   cont, kids, bound, done, procVars, execVars>>

\* Cancelling runs without a live attempt or an unsettled operation.
IdleCancelling ==
    {r \in Run : /\ status[r] = "cancelling"
                 /\ fence[r] = 0 \/ ended[r]
                 /\ Unresolved(r) = {}}

\* A pass that takes only a cancelled child for an ended one.
FinishingCancelledOnly ==
    UNION {S \in SUBSET IdleCancelling :
        \A r \in S : \A c \in Children(r) : status[c] = "cancelled" \/ c \in S}

\* Those of them whose children have ended, or end in the same newest-first pass.
Finishing ==
    UNION {S \in SUBSET IdleCancelling :
        \A r \in S : \A c \in Children(r) : status[c] \in Terminal \/ c \in S}

\* finish_idle_cancellations(), which every tick, cancel and reconcile ends with.
FinishIdle ==
    /\ Finishing # {}
    /\ status' = [r \in Run |-> IF r \in Finishing THEN "cancelled" ELSE status[r]]
    /\ Ending(Finishing, Finishing)
    /\ UNCHANGED <<parent, root, depth, branch, cancelReq, required, review, leaseVars,
                   opRun, accepted, cont, kids, bound, done, procVars, execVars>>

-----------------------------------------------------------------------------
(* Lost workers and recovery *)

StartProc(p) ==
    /\ proc[p] = "new"
    /\ proc' = [proc EXCEPT ![p] = "alive"]
    /\ UNCHANGED <<runVars, leaseVars, owner, opVars, waitVars, task, probe, execVars>>

\* The process dies with its tasks, the calls they execute and what it had read.
Crash(p) ==
    /\ p \in MayCrash /\ proc[p] = "alive"
    /\ proc' = [proc EXCEPT ![p] = "dead"]
    /\ task' = [task EXCEPT ![p] = [r \in Run |-> 0]]
    /\ probe' = [probe EXCEPT ![p] = NoProbe]
    /\ execBy' = [o \in Op |-> IF execBy[o] = p THEN NoProc ELSE execBy[o]]
    /\ UNCHANGED <<runVars, leaseVars, owner, opVars, waitVars, acted, effects>>

\* The process that took the run's current attempt, identified by pid and start time.
HolderPresumedDead(r) == FALSE
HolderAlive(r) == holder[r] # NoProc /\ proc[holder[r]] = "alive"

\* A lease runs out: nobody renews it, or a live worker was suspended for longer than it.
LeaseExpire(r) ==
    /\ fence[r] # 0 /\ lease[r]
    /\ LiveLeaseLoss \/ ~HolderAlive(r) \/ task[holder[r]][r] # fence[r]
    /\ lease' = [lease EXCEPT ![r] = FALSE]
    /\ UNCHANGED <<runVars, fence, holder, ended, owner, opVars, waitVars, procVars, execVars>>

\* recover() reads a run whose lease is over and looks for its process ...
RecoverRead(p, r) ==
    /\ proc[p] = "alive" /\ probe[p] = NoProbe
    /\ status[r] \in {"running", "recovering", "cancelling"}
    /\ fence[r] # 0 /\ ~lease[r]
    /\ probe' = [probe EXCEPT ![p] = [run |-> r, fence |-> fence[r], alive |-> HolderAlive(r)]]
    /\ UNCHANGED <<runVars, leaseVars, owner, opVars, waitVars, proc, task, execVars>>

\* A replay that repeats whatever is not a file call.
ReplaySafeTooWide(o) == o \notin FileOp
ReplaySafe(o) == o \in ReadOp \cup DelegateOp

\* What the ledger says of a call that was running when its worker was lost.  A file call
\* whose target carries the new content is known to be done.
Settled(o) ==
    IF cont[o] THEN {"running"}
    ELSE IF ReplaySafe(o) THEN {"prepared"}
    ELSE IF o \in FileOp /\ effects[o] > 0 THEN {"succeeded", "unknown"}
    ELSE {"unknown"}

\* A recovery that forgets that a cancelled run must not run again.
AfterLossAnyRun(st, doubt) == IF doubt THEN "needs_review" ELSE "queued"
\* A recovery that sends every lost run to review.
AfterLossReview(st, doubt) == IF st = "recovering" THEN "needs_review" ELSE st
\* A recovery that leaves a lost run in "recovering" unless something is in doubt.
AfterLossStays(st, doubt) == IF st = "recovering" /\ doubt THEN "needs_review" ELSE st

\* The status of a run whose worker is gone.
AfterLoss(st, doubt) ==
    IF st # "recovering" THEN st
    ELSE IF doubt THEN "needs_review" ELSE "queued"

\* ... and, in a later transaction, acts on what it saw, unless a new attempt began.
RecoverCommit(p) ==
    LET r == probe[p].run
        running == {o \in OpsOf(r) : opState[o] = "running"} IN
    /\ probe[p] # NoProbe
    /\ probe' = [probe EXCEPT ![p] = NoProbe]
    /\ IF fence[r] # probe[p].fence
       THEN UNCHANGED <<status, ended, grant, opState>>
       ELSE LET st == IF status[r] = "running" THEN "recovering" ELSE status[r] IN
            /\ grant' = [o \in Op |-> grant[o] /\ (o \in OpsOf(r) => o \in running /\ cont[o])]
            /\ IF probe[p].alive
               THEN /\ status' = [status EXCEPT ![r] = st]
                    /\ UNCHANGED <<ended, opState>>
               ELSE /\ ended' = [ended EXCEPT ![r] = TRUE]
                    /\ \E after \in [running -> OpStates] :
                        /\ \A o \in running : after[o] \in Settled(o)
                        /\ opState' = [o \in Op |-> IF o \in running THEN after[o] ELSE opState[o]]
                    /\ status' = [status EXCEPT ![r] =
                        AfterLoss(st, \E o \in OpsOf(r) : opState'[o] = "unknown")]
    /\ UNCHANGED <<parent, root, depth, branch, cancelReq, required, review, fence, holder,
                   lease, owner, opRun, accepted, cont, waitVars, proc, task, execVars>>

\* A user settles an operation in doubt, on evidence ("completed") or by accepting that
\* nobody knows.  The last one resumes the run; acceptance stops it.  confirm_not_executed
\* changes nothing: the evidence it demands (proven_not_started) no code writes.
Reconcile(o, decision) ==
    LET r == opRun[o] IN
    /\ r # NoRun
    /\ status[r] \in {"needs_review", "cancelling"}
    /\ opState[o] = "unknown"
    /\ decision \in {"completed", "accept"}
    /\ opState' = IF decision = "completed" THEN [opState EXCEPT ![o] = "succeeded"] ELSE opState
    /\ accepted' = IF decision = "accept" THEN [accepted EXCEPT ![o] = TRUE] ELSE accepted
    /\ grant' = RevokeGrants({r})
    /\ LET settled == \A x \in OpsOf(r) : opState'[x] = "unknown" => accepted'[x]
           resumes == decision = "completed" /\ settled /\ status[r] = "needs_review"
           stops == decision = "accept" /\ status[r] = "needs_review" IN
       /\ status' = [status EXCEPT ![r] =
            IF resumes THEN "queued" ELSE IF stops THEN "cancelling" ELSE @]
       /\ review' = IF resumes THEN [review EXCEPT ![r] = required[r]] ELSE review
       /\ cancelReq' = [cancelReq EXCEPT ![r] = @ \/ stops]
    /\ UNCHANGED <<parent, root, depth, branch, required, leaseVars, owner, opRun, cont,
                   waitVars, procVars, execVars>>

-----------------------------------------------------------------------------
Calls(p, r, o) ==
    \/ PrepareOp(p, r, o)
    \/ AskUser(p, r, o)
    \/ \E K \in SUBSET Run : RegisterWait(p, r, o, K)
    \/ RefuseOp(p, r, o)
    \/ ConcludeSpecial(p, r, o)
    \/ StartOp(p, r, o)
    \/ McpPause(p, r, o)
    \/ McpResume(p, r, o)
    \/ \E c \in Run, b \in Branch : SpawnChild(p, r, o, c, b)

Settles(p, r) ==
    \/ SettleCancelling(p, r)
    \/ \E W \in SUBSET Pending(r) : SettleWaiting(p, r, W)
    \/ \E final \in BOOLEAN : SettleEnd(p, r, final)
    \/ SettleRejected(p, r)

Worker(p) ==
    \/ StartProc(p)
    \/ Crash(p)
    \/ \E r \in Run : Claim(p, r) \/ Settles(p, r) \/ RecoverRead(p, r)
    \/ \E r \in Run, o \in Op : Calls(p, r, o)
    \/ \E o \in Op : Act(p, o) \/ \E result \in OpStates : FinishOp(p, o, result)
    \/ RecoverCommit(p)

User ==
    \/ \E r \in Run, b \in Branch : Submit(r, b)
    \/ \E o \in Op, answer \in AskStates : Respond(o, answer)
    \/ \E r \in Run : Cancel(r)
    \/ \E o \in Op, decision \in {"completed", "accept"} : Reconcile(o, decision)

Tick ==
    \/ \E o \in Op : ExpireAsk(o)
    \/ RefreshWaits
    \/ FinishIdle
    \/ \E r \in Run : LeaseExpire(r)

Next == User \/ Tick \/ \E p \in Proc : Worker(p)

Spec == Init /\ [][Next]_vars

\* A worker process keeps ticking until it dies: it scans, recovers and claims again and
\* again, and each recovery scan visits every run it finds in turn (hence SF).  Tool and
\* model calls end (they carry timeouts), so a task settles; leases end when nobody renews
\* them.  Users are free to do nothing.
Fairness ==
    /\ WF_vars(RefreshWaits) /\ WF_vars(FinishIdle)
    /\ \A r \in Run : WF_vars(LeaseExpire(r) /\ ~HolderAlive(r))
    /\ \A p \in Proc \ MayCrash : WF_vars(StartProc(p))
    /\ \A p \in Proc :
        /\ WF_vars(RecoverCommit(p))
        /\ \A r \in Run : SF_vars(RecoverRead(p, r)) /\ WF_vars(Settles(p, r))
        /\ \A o \in Op : WF_vars(\E result \in OpStates : FinishOp(p, o, result))
        /\ WF_vars(\E r \in Run : Claim(p, r))

LiveSpec == Spec /\ Fairness
-----------------------------------------------------------------------------
(* Properties *)

\* Every row, task and call stays within its type.
TypeOK ==
    /\ status \in [Run -> Status]
    /\ parent \in [Run -> Run \cup {NoRun}]
    /\ root \in [Run -> Run \cup {NoRun}]
    /\ depth \in [Run -> 0 .. MaxDepth]
    /\ branch \in [Run -> Branch]
    /\ cancelReq \in [Run -> BOOLEAN]
    /\ required \in [Run -> SUBSET Interrupt]
    /\ review \in [Run -> SUBSET Interrupt]
    /\ fence \in [Run -> 0 .. MaxFence]
    /\ holder \in [Run -> Proc \cup {NoProc}]
    /\ ended \in [Run -> BOOLEAN]
    /\ lease \in [Run -> BOOLEAN]
    /\ owner \in [Branch -> Run \cup {NoRun}]
    /\ opRun \in [Op -> Run \cup {NoRun}]
    /\ opState \in [Op -> OpStates]
    /\ accepted \in [Op -> BOOLEAN]
    /\ grant \in [Op -> BOOLEAN]
    /\ cont \in [Op -> BOOLEAN]
    /\ ask \in [Op -> AskStates]
    /\ kids \in [Op -> SUBSET Run]
    /\ bound \in [Op -> BOOLEAN]
    /\ done \in [Op -> BOOLEAN]
    /\ proc \in [Proc -> {"new", "alive", "dead"}]
    /\ task \in [Proc -> [Run -> 0 .. MaxFence]]
    /\ probe \in [Proc -> Probe \cup {NoProbe}]
    /\ execBy \in [Op -> Proc \cup {NoProc}]
    /\ acted \in [Op -> BOOLEAN]
    /\ effects \in [Op -> Nat]

\* Two processes never work on one run, whatever leases, crashes and recoveries do: not a
\* task of each, nor a task of one and a call of the other still executing.
Working(p, r) == task[p][r] # 0 \/ \E o \in OpsOf(r) : execBy[o] = p
SingleExecutor ==
    \A r \in Run : \A p, q \in Proc : Working(p, r) /\ Working(q, r) => p = q

\* From its first claim until it ends, also while it is paused or in doubt, a run is the
\* only one its branch admits: no other run of the branch writes history in between.
BranchExclusive ==
    \A r \in Run : Unfinished(r) /\ fence[r] # 0 => owner[branch[r]] = r

\* However often workers die and runs resume, a call's effect happens at most once.
AtMostOnceEffect == \A o \in Effectful : effects[o] <= 1

\* A call that needs approval has an effect only after the user approved that very call.
ApprovalBeforeEffect == \A o \in Approval : effects[o] > 0 => ask[o] = "approved"

\* A run that is queued or running again has every resolution its last pause asked for:
\* resuming with fewer is an error of the runtime (incomplete_interrupt_barrier).
BarrierComplete ==
    \A r \in Run : status[r] \in {"queued", "running"} => required[r] \subseteq Ready(r, ask, done)

\* When a run has ended, its ledger leaves nothing in doubt that no user accepted.
LedgerClosed ==
    \A r \in Run : status[r] \in Terminal =>
        \A o \in OpsOf(r) :
            \/ opState[o] \in {"succeeded", "failed", "cancelled"}
            \/ opState[o] = "unknown" /\ accepted[o]

\* A run under review shows the user an operation that reconcile takes.
ReviewActionable ==
    \A r \in Run : status[r] = "needs_review" =>
        \E o \in OpsOf(r) : opState[o] = "unknown" /\ ~accepted[o]

\* A run completes only after everything it delegated has ended, and delegates no more.
CompletedSettled == \A r \in Run : status[r] = "completed" => ChildrenSettled(r)

\* A cancelled run's whole tree is cancelled or has ended; a child that is being created
\* meanwhile does not escape.  A run that was stopped by accepting an unresolved outcome is
\* stopped alone (reconcile).
CancelCoversTree ==
    \A r \in Run : cancelReq[r] /\ (\A o \in OpsOf(r) : ~accepted[o]) =>
        \A d \in Descendants(r) : cancelReq[d] \/ status[d] \in Terminal

\* Once cancelled, a run never runs or waits again: no answer, recovery or review brings
\* it back.
CancelSticks ==
    [][\A r \in Run : cancelReq[r] =>
        cancelReq'[r] /\ status'[r] \in {"cancelling", "cancelled"}]_vars

\* A cancelled run ends, if nothing in its tree is left for a user to reconcile.
CancelEnds ==
    \A r \in Run : status[r] = "cancelling" ~>
        \/ status[r] = "cancelled"
        \/ \E d \in Descendants(r) : \E o \in OpsOf(d) :
               opState[o] = "unknown" /\ ~accepted[o]

\* A parent that waits for children only is woken when they have ended.
WaitersWake ==
    \A r \in Run : (status[r] = "waiting_children" /\ ChildrenSettled(r))
        ~> status[r] # "waiting_children"

\* A run whose worker died does not stay with it.
LostRunMoves ==
    \A r \in Run : (status[r] \in {"running", "recovering"} /\ ~HolderAlive(r))
        ~> status[r] \notin {"running", "recovering"} \/ HolderAlive(r)

\* What a user sees of a run: a run that was claimed once stays active until it ends, however
\* often it pauses, is recovered, reviewed or queued again.
Phase(r) == IF ~Unfinished(r) THEN status[r] ELSE IF fence[r] = 0 THEN "queued" ELSE "active"

Promise == INSTANCE RunPromise WITH phase <- [r \in Run |-> Phase(r)], stopped <- cancelReq

\* The scheduler implements what it promises: every step of a worker, a user or a clock is a
\* step of RunPromise or changes nothing of it.
PromiseKept == Promise!Spec
=============================================================================
