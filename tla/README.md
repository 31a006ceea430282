# Mi Harness: a TLA+ model

Mi Harness runs language-model agents locally: an API process accepts tasks,
answers and cancellations, worker processes execute the tasks, and one SQLite
database holds everything that must survive either of them. This directory
models the parts of the program where order and failure decide what happens: the
run scheduler with its operation ledger, pauses, cancellation, recovery and
replay; what one turn of a run is made of (budget, steering, model selection,
context, remote calls, what the page shows of it); and what the host keeps around the runs (API commands,
model setup, authority, files, plugins, processes).

```
tlc -config SchedLedger.cfg MCScheduler.tla     # any run: PROJECT.json names module and .cfg
tlapm RunSchedulerProofs.tla                    # proofs: the modules named *Proofs
```

## 1. Inventory of the system

| Part | State | Operations | Interacts with | Hard about it | Correct when |
| --- | --- | --- | --- | --- | --- |
| Scheduler, `harness/scheduler/service.py` | tables `runs`, `run_attempts`, `branches`, `run_waits`, `review_resolutions` | submit, claim, settle, respond, expire, cancel, idle pass, delegate, wait, recover, reconcile, steer, fork | everything below, through one database | several processes; two-transaction recovery; trees of runs | one executor per run, one run per branch, cancels final, waits wake, doubt is settled by a user |
| Worker, `scheduler/worker.py` | its tasks, contexts, last heartbeat | tick, execute, drain | scheduler, runtime | dies at any point; is suspended past its lease | a lost run moves on from where it durably was |
| Store, `storage/store.py` | all tables | fenced writes, compare-and-set by revision | all | `BEGIN IMMEDIATE` serialises writers; the fence is what separates attempts | a superseded attempt writes nothing |
| Tool gateway, `tools/gateway.py` | `tool_executions`, `execution_grants`, `interactions` | execute, finish, resume protocol, reconcile | policy, built-ins, MCP, budget | effect and ledger are two steps | no effect twice, none without approval |
| MCP continuation, `mcp/continuation.py` | metadata of the operation, vault | suspend, responses | gateway | a call that is half done while the run is paused | continued under its own grant or put to review |
| Agent runtime, `runtime/engine.py` | LangGraph thread, `runtime_tool_waits` | start, resume, continue, fork, inspect | model and tool gateways, worker | two stores of progress (saver, business pointer) | replay repeats no effect and skips no step |
| Budget, `scheduler/budget.py` and `Store.reserve/settle` | accounts, reservations, permits | reserve, settle | model and tool gateways | death between use and settlement; unknown usage | limits kept, nothing leaks |
| Model gateway and selection | attempts, desired and effective profile | call, retry, select, bind, reject | runtime, budget | selection during a call | a call keeps its profile |
| Context, `context/service.py` | summaries, pins, heads | compose, compact | runtime, model | a summary is awaited before it is published | never publishes over a newer head |
| API, `server/*` | `api_commands`, sessions, events, preview frames | mutate, dispatch, event stream | scheduler, web | interrupted commands, cursors | a command is carried out once |
| Plugins, MCP configuration, skills | registry states, `mcp.json`, snapshots | import, drain, dispose; save, reload | runs that bound them | drain while bound; file edited outside | disposed only when unused; file and revision agree |
| Artifacts, backup | files and rows | write, reference, collect, back up | all | file before row | no row without its file |
| Supervisor, `platform/supervisor.py` | instance lock, child processes | start, run, stop | API, worker | worker death, drain | one instance; drain ends |
| Web state, `apps/web/src` | view of runs, cursor | apply event, snapshot, reconnect | event stream | gaps, duplicates, old snapshots | the view never goes back, and catches up |

`PROJECT.json` lists each part with what is modelled of it, and every hazard at
its line. What is left out, and why, is section 7.

How the modelled parts interact: a worker's **tick** expires questions,
refreshes waits, recovers lost runs, finishes idle cancellations and claims
queued runs. A claim starts an asyncio **task** that chooses a checkpoint and
lets the **runtime** go on. Before each model call the runtime takes in added
messages, settles the model to use, composes (and if need be compacts) the
context and reserves budget and a permit. Each tool call of the model passes the
**gateway**, which enters it in the ledger, may pause it on a user, on children or
on a review, looks at the policies a second time, takes the resource lock and
executes it, here or at an MCP server. When the graph stops, the task **settles**
the outcome and the attempt ends. Users and deadlines answer questions, ended
children resolve waits, and whoever resolves the last requirement of a pause
queues the run again. The **API** turns requests into those transactions, one per
idempotency key; the **supervisor** starts and drains both processes. All of it
meets in database transactions, files and the vault; no memory is shared between
processes, and inside one process control changes hands only at an `await`.

## 2. Modules

| Module | Models | Instance |
| --- | --- | --- |
| `RunPromise` | what the scheduler promises of a run and its tree, without workers, leases, pauses or recovery | implemented by `RunScheduler` |
| `RunScheduler` | scheduler, worker tick, gateway's ledger, one MCP round, the store's fencing | `MCScheduler`, `Sched*.cfg` |
| `CheckpointResume` | the worker's choice of checkpoint, runtime, replay against the ledger | itself, `Ckpt*.cfg` |
| `BudgetLedger` | accounts, reservations, permits, the model gateway's retries | `MCTurn` |
| `Steering` | messages added to a working run; input revisions in three places | `MCTurn` |
| `ModelSelection` | changing the model between and during calls | `MCTurn` |
| `ContextCompaction` | views, pins, summaries published by compare-and-set | `MCTurn`, `CtxSuperseded.cfg` |
| `McpCalls` | remote calls over several rounds, with timeouts and a vault | `MCTurn` |
| `McpConfigFile` | `mcp.json` written by web and editor, published by save, reload, watcher | `MCTurn` |
| `McpOAuth` | one browser authorization and its callback | `MCTurn` |
| `EventStream` | events, snapshots, stream and the page's reducer | `MCTurn` |
| `ApiCommands` | `mutate()`: commands, keys, locks, restarts | `MCHost` |
| `ModelSetup` | shared probes, receipts, publication of a profile | `MCHost` |
| `ToolAuthority` | policies, snapshots, plan mode, approval, the two looks | `MCHost` |
| `WorkspaceFiles` | read, write and patch of one file beside other programs | `MCHost` |
| `PluginLifecycle` | versions of a plugin in two registries | `MCHost` |
| `InstanceLifecycle` | supervisor, stop commands, kills, drain, backup | `MCHost` |
| `RunSchedulerProofs`, `RunTreeProofs`, `CheckpointResumeProofs`, `TurnProofs`, `ConnectionProofs`, `HostProofs`, `ToolProofs`, `InstanceLifecycleProofs` | theorems, section 5 | - |

`RunScheduler` is itself a composition: workers, gateway, users and clocks act on
one database. The smaller protocols touch the scheduler only through an outcome (a
call's answer, a run's end, a grant), which reaches them as a free choice, so their
modules share no variable. `MCTurn` and `MCHost` therefore check several of them in
one run: a variable `part` picks, in the initial state, which of them moves, and
the state spaces add up instead of multiplying. Nothing is lost by that, because
the parts have no variable in common.

### RunPromise and RunScheduler

**State.** `status` .. `review` are columns of `runs` (and the record
`review_resolutions`); `fence`, `holder`, `ended`, `lease` are the fencing token
and the current row of `run_attempts`; `owner` is `branches.active_run_id`;
`opRun` .. `cont` are `tool_executions` with their grants and MCP metadata; `ask`
is `interactions`; `kids`, `bound`, `done` are `run_waits`. `proc`, `task`,
`probe` and `execBy`, `acted` are what dies with a process: its tasks (each with
the fence it was claimed under), what `recover()` read before its transaction,
and the tools it is executing. `effects` is the world outside.

**Actions.** One action is one transaction. What the code does in two
transactions is two actions with everything possible in between: `recover()` is
`RecoverRead` and `RecoverCommit`; a tool call is `PrepareOp`, `AskUser`,
`StartOp`, `Act`, `FinishOp`; a task's outcome is one of the `Settle*` actions.
`Fenced`, `MayAct` and `MayRecord` are `assert_fence` for the identity a task was
claimed with. `RowFenced` is the same check for settlement, which the worker makes
with an identity rebuilt from the run's present row (`worker.py:213-220`).

**Abstracted.** Which calls the model makes, how tools end, and what policy says
are free choices. Times are the moments they decide (`LeaseExpire`, `ExpireAsk`);
heartbeats only postpone the first. Paths, arguments, fingerprints, events, the
outbox and forks are left out; revisions, budgets, steering and maintenance have
modules of their own. An MCP call asks at most one question here (`McpCalls` has
the rounds), and MCP calls need no approval. A call is bound to one run and one
position in the model's answer, so a new attempt that repeats it meets its ledger
row; calls made under a *new* message are new members of `Op`, which is why the
repetition `CkptStale` shows is not visible in this module.

**Refinement.** `RunPromise` has four variables. `RunScheduler` maps its eight
working statuses to `active`, keeps `parent` and `branch`, and takes
`cancel_requested` for `stopped`. Each of its steps is then a submission, a
delegation, a begin, a stop of a whole tree, a close, an answer, a failure, the
giving up of one run, or nothing at all: recovery, pauses, replay and reviews are
invisible. What the promise adds to the single invariants is *when*: nobody
delegates for a stopped run, and a stop reaches exactly the live runs below.

### CheckpointResume

One run over `Steps` model calls that each ask for one tool call, some of which
(`Asks`) wait for the user. `saver` is the LangGraph thread (external: resumes
at the checkpoint it is given, saves after every node), `pointer` is
`runs.checkpoint_ref`, `required` is the barrier of the last pause, and
operations are keyed by message, which a model call mints afresh
(`model_gateway/gateway.py:314`). A death is followed by recovery at once, since
leases and review are `RunScheduler`'s, and a call is one step with its ledger
row, which is what recovery makes of a file write it verifies by hash.

### The parts of a turn

- **BudgetLedger.** `reserved`, `consumed` and `resv` are the account and its rows, `call`
  is `ModelGateway._call` between awaits (ask, start, on the wire, settle), `tool`
  an operation and its reservation. Reserving checks every dimension at once; a
  permit counts while the process that took it lives. Usage may be unknown or above
  the estimate, a started event may fail to be written, a process may die with any
  of it open.
- **Steering.** `run`, `commands` are the rows, `ctx` the task's context, `thread` and
  `Blank`/`CheckpointOf` LangGraph's thread. The steps are `steer`, `before_model`,
  the acknowledgement by the next node, the settlement loop, a pause and its answer,
  a death. `stale` marks the divergence of `CkptStale`.
  An outcome of another input revision than the row's is not settled: the worker settles
  an error instead (`SettledAs`).
- **ModelSelection.** `control` and `command` are the selection's rows, `binding` the
  profile a logical call was bound to, `task` the loop in `awrap_model_call`. A candidate
  that cannot be prepared is handled in the code's three transactions, one action each:
  `RejectCandidate` (`reject`), `PrepareQuestion` (`prepare_interaction`) and
  `KeepsQuestion` (the `model_selection_waits` row, written without a look at the lease);
  then `GivesUp` if the call had this question already, else the run `Pauses`, which opens
  the question. Between any two of them the worker may die or lose its lease, and the user
  may select or cancel. `failed` remembers which candidates really failed.
- **ContextCompaction.** `pointer` is the branch's context pointer, `view` what
  `compose` and `compact` hold across awaits, `request` what was sent last. A turn is
  a user message with what answers it; token counts are numbers of turns. A summary of
  turns that are not all of this conversation is left aside (`Usable`).
- **McpCalls.** `exchange` is what a worker is doing for a call, `sentIn`, `heard`,
  `answeredIn` the network and the server (external: hears late, or never, and may act
  without answering), `secret` the vault, whose deletions may fail: a failure while the next form is
  saved or while the call completes is told as an unknown outcome (`CannotSuspend`, `EndsWithout`).
- **McpConfigFile, McpOAuth.** `file` is the text on disk, `loaded` what the database
  publishes, `journal` the save commands. `clobbered` remembers a text lost unseen,
  `late` the saves during whose last interval (second read to `os.replace`) the
  editor wrote. A flow is bound to the revision of its row.
- **EventStream.** `table` and `events` are the run's row and its numbered events, one
  transaction for both; `frames` the previews of a reply, which have no number.
  `page` is the reducer's projection, `link` the page's loop with the two cursors the
  server keeps for an open stream, `wire` what was sent and not handled, `reads` the
  snapshots under way (one of the loop, one beside it), whose rows and model selection
  are read at two moments. Tools, interactions, artifacts and children are reduced like
  messages and left out. `session` is what every request is authenticated with: once it
  ended, the loop's next request is refused with 401 and the loop is over (`LoopRefused`),
  an open stream is closed at a heartbeat with nothing left to send (`ServerCloses`), and a
  new login is a new page. The server also closes the stream before an event above 1 MiB
  (`TooLarge`); a batch above 1 MiB in all is one of the cuts of `Dropped`. The loop's other
  refusals (403, 404, 422) a page's own run and cursor do not meet.

### The host

- **ApiCommands.** Keys in `AsyncKey` await between work and answer, under a lock
  of the key; the others are one transaction. `worked` counts effects.
- **ModelSetup.** `flight`, `table` and `cache` are the shared probes, `sreq` the
  requests between awaits, `vault` credentials, `lost` those nobody refers to. `accept` says
  that the capabilities a client does without are exactly those the report misses.
  `VerificationReuse` is the setting of that name; the run has its default (TRUE), the
  theorem covers both values. `PublishFails` is every way a save fails after the checks.
- **ToolAuthority.** `saved` is the history of each layer's policy, `frozen` a run's
  snapshot, `op`, `ask`, `caller` the call between its looks. Permissions and effects of
  every built-in tool are those of its registration.
- **WorkspaceFiles.** Every look at the file is a step, as other programs do not take
  the resource lock. A content is the set of the edits in it. `dropped` holds edits a
  write removed unread, `raced` those saved between two looks nothing compares.
- **PluginLifecycle.** Rows are shared; `instances` is what each process has loaded.
  `HostPluginManager.recover` has no transaction of its own, so `boot` follows each starting
  process through it: it lists the records that serve (`RegistryRestarts`), loads them one by
  one (`Rehydrates`), reads the runs (`RunsRead`), lists the references (`RefsListed`), releases
  the stale ones (`StaleReleased`), looks for the reference of each run it read (`RefChecked`) and
  puts it back (`RefRestored`). The other process submits, delegates, cancels and ends runs
  meanwhile. `overlooked` remembers the runs bound between the two reads, `revived` those
  that ended while a recovery still counted them among the live ones.
- **InstanceLifecycle.** `record` is `instance.json`, `lock` its file lock, `alive` the
  processes. A kill of the supervisor frees the lock and leaves its children. The two
  children are spawned one after the other, whatever became of the first.

## 3. Runs

| Run | Question | Bounds |
| --- | --- | --- |
| `SchedTree` | Do cancels and completions respect the tree, and is every step one that `RunPromise` allows? | 3 runs (chain or two children), 1 worker, 2 claims each, child concurrency 1; 265,545 states |
| `SchedLive` | Does a cancelled run end, a waiting parent wake, a lost run move? | parent and child, 2 workers, one may die |
| `SchedLedger` | One executor, one run per branch, no doubt left behind, cancels final? | 2 runs on 1 branch, a command and a question, 2 mortal workers, live lease loss |
| `SchedResume` | No effect twice, none without approval? | approved write, MCP call with a question, read; 3 attempts |
| `SchedBarrier` | Is a mixed pause resumed exactly when complete? | question and wait (`any`) in one step, a child, one mortal worker |
| `CkptResume` | Is replay harmless, complete and always resumable? | 3 steps, 2 questions, 3 deaths, 22 checkpoints (more than any path saves) |
| `TurnCore` | The eight protocols of a turn: see below | 385,576 states |
| `HostCore` | The six protocols of the host: see below | 4,133,329 states |
| `SchedMcpCancel`, `SchedAcceptStall`, `CkptStale`, `CtxSuperseded` | counterexamples, section 6 | the smallest instance that shows each |

What `TurnCore` and `HostCore` check, with the bounds of each part:

| Part | Property | What would break it | Bounds |
| --- | --- | --- | --- |
| budget | `WithinLimit`, `ReservationsSound`, `CallEnds` | a reservation leaked by a live worker, settled twice, or made under a stale permit; a call that never gives up | 2 calls x 2 attempts, 2 tool operations (one pauses), 1 permit, usage below and above the estimate, 1 mortal process, 1 unwritten start |
| steering | `EveryInputAnswered`, `InputHeard` | a message admitted while the answer is settled, or acknowledged by a worker that died | 2 messages, 2 tool turns, 2 deaths |
| selection | `VerdictsTrue` | a verdict of one candidate written for the next; a death between the three writes of a failed one that leaves the run waiting for nothing | 2 profiles, 2 selections, 2 calls, 2 claims, 2 preparations |
| context | `NothingDropped`, `SummaryKeeps` | a summary published over newer pins or turns | 5 turns (one with an image), 2 pins, 2 pin edits, thresholds 2 and 3 |
| call | `McpOutcomeTrue` | a timeout or death told as a failure while the server may act | a read and an effect that elicits, 2 rounds, 1 death |
| config, oauth | `ConnectionsSound`, `FileTakesEffect` | two writers of one file; two callbacks with one code | 1 save, 2 edits, 1 death; 2 callbacks, 2 row changes, 1 death |
| stream | `ViewTrue`, `ViewCatchesUp` | an answer that arrives after newer events; a stream reopened at the wrong place; a loop that asks for ever without a session | 3 events (a message of either size), 1 end of the session, 1 silent revision, 1 preview frame, 2 items on the wire, 1 drop, 1 snapshot beside the loop's |
| commands | `CommandsExact` | a retry, a cancelled request or a restart between work and answer | 3 requests, 2 keys, 2 bodies, 1 restart |
| setup | `SetupSound` | a shared probe whose first user left, a reused report of the weaker suite, racing saves | 3 requests, 2 probes, 2 at a time, 2 saves, 1 death |
| authority | `ToolsSound` | a policy or target changed between approval and start; a child freer than its root | root and child, read and write, 2 saves, 1 target change |
| files | `ToolsSound` | an edit saved between read and write; a replaced file told as failed | a write and a patch, 1 other edit, 2 saves |
| plugins | `PluginSound` | drain while a submission binds, release in the other process, a recovery beside either | 2 versions, 2 runs, 2 restarts |
| instances | `InstancesSound`, `DrainedBeforeStop` | orphans of a killed supervisor, a stop that meets a new instance | 2 instances, 1 stop command, 2 kills, 1 artifact |

Why these bounds are enough to matter: two claims of a run are one loss and one
takeover, three allow a takeover of a takeover; two workers are needed for a stale
probe and a superseded task, and a third would only repeat one of them; three runs
are the smallest tree with depth two and the smallest with siblings. In the small
protocols the hazard is always one actor between another's two steps, which two
actors and one repetition show; where a retry can follow a retry (attempts,
rounds, selections, saves) there are two of them. Bounds on deaths and edits are the only
reason such a part stops. Every action and every disjunct of the next-state
relations is taken in some run. `CHECK_DEADLOCK FALSE` everywhere: a system whose runs
have all ended, or whose users say nothing, is at rest. `SchedLedger` permutes the two
workers, which have the same constants there; no liveness run uses symmetry.

`SchedLedger` has no MCP calls. With one, `ReviewActionable` fails: a run whose MCP call
waits for a form and that then ends with an error (its deadline, say) is put under review
with an operation that is still `running`, which reconcile refuses. So does `LedgerClosed`:
once the form is answered the run is `queued`, and a cancel ends a queued run at once
without a look at its operations (`scheduler/service.py:603`). Both are the gap that
`SchedMcpCancel` shows by way of a cancel that never ends.

## 4. Fairness

`LiveSpec` assumes what the worker's loop does and no more. `RefreshWaits` and
`FinishIdle` are parts of every tick of every worker; a process that may not die
starts (`StartProc`) and keeps ticking, so it claims what it can (`Claim`) and
commits the recovery it began (`RecoverCommit`). A recovery scan visits every run it
lists, one after the other, so a run that is recoverable again and again is read
(`SF` on `RecoverRead`: another probe of the same process may disable it
meanwhile). Model and tool calls carry timeouts, so a call ends (`FinishOp`) and a task
reports (`Settles`). A lease nobody renews ends (`LeaseExpire` for a dead holder). Users,
the language model, deaths and a live worker's loss of its lease have no fairness:
nothing makes a user answer or a model call a tool.

`TurnFairness` gives weak fairness to: the next step of a model call in a live worker
(`CallGoesOn`; the provider's request has a timeout, so it returns); the run's worker as a
whole (`Work` in Steering, where the number of deaths is bounded); a save or reload that
has begun, the watcher's poll, and the API's return after a death
(`McpConfigFile`); and what goes on by itself between page and server (`Follows` in
EventStream: the loop reconnects after each drop, with bounded delays; drops are bounded; the
server checks the session at every heartbeat). The
user's messages, the editor, refreshes and the answers have none. Each conjunct is guarded by `part`,
since a protocol that does not move in a behaviour owes it nothing.

## 5. Proofs

| Theorem (module) | Property | Argument |
| --- | --- | --- |
| `TypeCorrect` (RunSchedulerProofs) | `TypeOK` | inductive as it stands; one lemma per group of actions |
| `CancelIsFinal` (same) | `CancelSticks` | `CancelInv`: a run with `cancel_requested` is `cancelling` or `cancelled`; every step keeps a stopping run stopping |
| `EffectsAtMostOnce` (same) | `AtMostOnceEffect` | `OnceInv`: an external call whose ledger row is missing or `prepared`, or whose executor has not acted, has left no mark, and no executor holds a call that could be started again |
| `ApprovalFirst` (same) | `ApprovalBeforeEffect` | from the same invariant (`Consented`): a call that needs approval is held by an executor, or has had its effect, only if it was approved, and that answer never changes |
| `OneRunPerBranch` (same) | `BranchExclusive` | `BranchInv`: an unfinished claimed run owns its branch, a run not yet created has no fence; `ReleaseKeeps` shows that ending a set of runs frees only their own branches |
| `OneExecutorPerRun` (same) | `SingleExecutor` | `WorkInv`: a task belongs to the holder of the run's current attempt, which has not ended; only runs without a task are queued; a process a recovery has read as dead stays dead |
| `LedgerClosesWithRun`, `ReviewsCanBeSettled` (same; `McpOp = {}`) | `LedgerClosed`, `ReviewActionable` | `LedgerInv` on top of `WorkInv`: while a task holds its lease, a call the ledger has `running` is executing, so a settlement, which waits for the executors, finds none; accepted calls belong to cancelled runs; a recovery acts only on a lost lease |
| `SchedulerKeepsPromise` (RunTreeProofs) | `PromiseKept` | refinement, step by step under `RefineInv`: `TypeOK`, `CancelInv`, `BranchInv` and `AskedInv` (a run is `cancelling` only when told); `Descendants`, the walk of a cancel, is shown to be the abstract `Below` |
| `AnsweredTreesAreSettled` (same) | `CompletedSettled` | `AnsweredInv` is proved of `RunPromise` alone and carried over by the refinement |
| `CancelledTreesAreCovered` (same) | `CancelCoversTree` | `TreeInv`: a step that tells a run to stop is a `Stops` of `RunPromise`, which takes its whole tree, or a reconciliation, which leaves an accepted call behind; `CoverStays`: every other step adds children only below runs not told to stop |
| `BarrierBeforeWake` (same) | `BarrierComplete` | `BarrierInv` extends the property to `running` and `recovering`, the statuses recovery queues a run from, and says an unused call belongs to nobody; `Keeps` and `ReadyGrows`: resolutions are never taken back, so only a settlement into a pause can disturb it |
| `ResumeTypeCorrect` (CheckpointResumeProofs) | its `TypeOK` | inductive as it stands |
| `ReplayIsAnswered` (same) | `EffectOncePerMessage` | `LedgerCounts`: a message's effects are exactly what its ledger row says |
| `PauseStaysResumable` (same) | `PauseResumable` | `PauseInv`: settled pauses keep pointer, barrier and answer together, and a live task that paused stands at the thread's end |
| `RefusedOnlyBeforePause` (same) | - | from `PauseInv`: a resume is refused only while no pause was ever settled |
| `StepsAreExact` (same) | `StepsExact` | `StepsInv`: a tool request is known by the checkpoint that saved it, what a checkpoint's history tells of was carried out, and until a first settlement the thread is one line that goes forward |
| `SpendingWithinLimit` (TurnProofs) | `WithinLimit` | `LimitInv`: settling gives back at least what it books, since usage above the reservation is refused; reserving looks at every dimension |
| `ReservationsHold` (same) | `ReservationsSound` | `LedgerInv`: reserving and settling move the units of one row and no other; each open row has a live attempt or operation, or the reason it was left. `PermitInv`: a permit's holder never changes, so only a reservation adds a live permit |
| `SteeringHolds` (same) | `EveryInputAnswered` | `SteeringInv`: what waits to be acknowledged is in the conversation of its checkpoint, thread and pointer alike; the conversation has every consumed message unless a stale pointer was resumed; completion finds nothing pending |
| `SelectionHolds` (same) | `VerdictsTrue` | `SelectionInv`: a task past a failed preparation names a candidate that failed; a question the call waits for was prepared, one that is open was kept, and a claim replays what nobody answered, so wherever the worker died the pause opens a question; a bound call has the revision it was bound under |
| `ContextHolds`, `SummariesKeep` (same) | `NothingDropped`, `SummaryKeeps` | `ContextInv`: an open view has every turn of the history or a summary that covers it, and while it is open pins and pointer are those it read or have a newer revision, which the compare-and-set refuses |
| `CallsHold` (ConnectionProofs) | `McpOutcomeTrue` | `McpInv`: row, coroutine and server agree on the round a call is in; for a call with an effect, a request that left was answered, is under way or is given up as unknown, and none is sent before its turn |
| `ConfigHolds`, `OAuthHolds` (same), `ConnectionsStaySound` (TurnProofs) | `ConnectionsSound` | `ConfigInv`: a save past its second look holds the lock, and the file is what it saw or was edited since; `OAuthInv`: no code is sent before the flow is claimed, and one delivery claims it |
| `StreamHolds` (same) | `ViewTrue` | `StreamInv`: what is on the wire continues the page without a hole up to what the server has sent, the rows of a snapshot are those of its number, and its model selection is no older |
| `TurnTypesHold` (TurnProofs) | `TurnTypeOK` | `TurnInv`, the conjunction of the eight invariants: a step of one part leaves the variables of the others alone |
| `CommandsAreExact` (HostProofs) | `CommandsExact` | `CommandInv`: a request at work owns the key's row and lock, alone; a row tells whether the work took effect unless somebody is between work and answer |
| `SetupHolds`, `SetupStaysSound` (same) | `SetupSound` | `SetupInv`: a probe counts exactly the requests waiting for it, a probe, a reused report and its request are of one fingerprint, a default was asked of the whole suite, and the vault is what profiles refer to with what a death left |
| `PluginsSound` (same) | `PluginSound` | `PluginInv`: what a recovery has read differs from the rows only by runs in `overlooked` or `revived`, which each step of it and each step beside it keeps; `InUse` shows that a version with a referenced run is never unused |
| `HostTypesHold` (same) | `HostTypeOK` | `HostInv`, as `TurnInv` |
| `AuthorityHolds` (ToolProofs), `ToolsStaySound` (HostProofs) | `ToolsSound` | `AuthorityInv`: what a call was allowed at its second look stays true of that moment, since saved policies are a history and a snapshot is never changed; a run's snapshot lies within its root's |
| `FilesHold` (ToolProofs) | parts of `ToolsSound` | `FilesInv`: what the text a call goes by lacks of the file, as last compared, was saved between two looks; where a call is says whether it replaced the file |
| `InstancesAreSound` (InstanceLifecycleProofs) | `InstancesSound` | `OwnerInv`: the holder of the instance lock is the recorded supervisor, and a live child without one is in the record, so a start finds it; `CopyInv`: rows are copied before objects, and an object is in place before its row |
| `StopsAreDrained` (same) | `DrainedBeforeStop` | `DrainInv`: an acknowledgement that says drained stays true, since nobody ends maintenance while that worker lives |

Proof modules extend the modules they are about: `RunTreeProofs` builds on
`RunSchedulerProofs`, `TurnProofs` on `MCTurn` and `ConnectionProofs`, `HostProofs` on
`MCHost`, `ToolProofs` and `InstanceLifecycleProofs`. Theorems about one protocol are stated
of its own specification. `TurnSpec` and `HostSpec` let one part move at a time;
`TurnSteps` and `HostSteps` reduce each of their steps to a step of that part, so the
conjunction of the parts' invariants is inductive for the composition.

Every theorem holds for every value of the constants under the named assumptions of the
modules. They say that bounds are numbers, that sets of kinds are disjoint or not empty, and
that approval concerns calls with effects. Four are less obvious:

- `ConfigAssumption`: the markers of who holds the file's lock are not names of saves.
- `FilesAssumption`: the calls on one file are finitely many (the file's stamp counts their replacements).
- `SetupAssumption`: there is a configuration to probe.
- `BudgetAssumption`: keys of attempts and of operations differ, as the prefixes `model:`
  and `tool:` make them (`tools/gateway.py`, `scheduler/budget.py`).

The properties themselves are not inductive: `AtMostOnceEffect`, for instance, does not say
that a call found `prepared` has left no mark yet; the strengthening ties each ledger state to
what may have happened outside.

How the proofs shaped the model:

- `CancelCoversTree` speaks of runs whose own doubts nobody accepted. Accepting an
  unresolved outcome cancels that run alone (`scheduler/service.py:875`), which the proof met
  and the bounded run had not; it is the same gap as `SchedAcceptStall`.
- `LedgerAgrees`, a part of `ReservationsSound`, compares the account with the *number of units*
  its rows hold (`Promised`, `Spent`: pairs of a row and a count up to its amount), not with a
  fold of the amounts. The two are the same number, but facts about a fold over a set
  of any size need induction over data, and about cardinalities they are library theorems.
- In `ToolAuthority` a task names the root of its tree, as the row does
  (`scheduler/service.py:261`, `678`), where a walk up the parents would need recursion.
- `LedgerClosed` and `ReviewActionable` are proved, and hold, only without MCP calls: their
  theorems assume `McpOp = {}` (section 3 says how an MCP question breaks them).

Only model-checked, because TLAPS has no means for liveness under fairness here: `CancelEnds`,
`WaitersWake`, `LostRunMoves`, `CallEnds`, `InputHeard`, `FileTakesEffect`,
`ViewCatchesUp`. Every other property of the passing runs has a theorem.

## 6. What was met

**Where the code disagrees with what it says.** Each is quoted with its lines in
`PROJECT.json`.

- **`SchedMcpCancel`.** A run cancelled while an MCP server's question is open never
  leaves `cancelling`: its operation stays `running`, which the idle pass counts as
  unresolved and reconcile refuses.
- **`SchedAcceptStall`.** Accepting an unresolved outcome stops the run but not its
  descendants. With one worker slot, a queued child waits for the slot its cancelling
  parent holds, and the parent waits for the child.
- **`CkptStale`.** After a first pause the business pointer is set, and a worker that
  dies in a later step resumes there instead of at the saver's newest checkpoint. The
  model is asked again under a new message, and work already done is done again.
- **`CtxSuperseded`.** The context pointer keeps the input revision of a steered run
  after that run ended; the next run of the branch starts from a smaller one and its
  composes are refused as superseded.

**What the properties had to allow for.** The exceptions written into some properties
are behaviours of the code, found when a stronger form failed:

- *Budget*: a reservation stays open for ever after a death, an unwritten start, or
  usage above the estimate (`left` in `ReservationsSound`).
- *Steering*: `EveryInputAnswered` excludes runs resumed from a pointer older than a
  message consumed since (`stale`), the divergence of `CkptStale` once more.
- *Model setup*: a request that joins a probe just being cancelled is cancelled with it,
  and its API command stays pending until a restart; a finished probe's cleanup may
  remove a newer probe's table entry; a profile is registered in memory before a
  compare-and-set that may roll back.
- *Authority*: a policy saved between the second look and the grant's transaction is
  not noticed (`op.checked` is the moment of that look); a denied or expired approval no
  longer blocks once policy stopped asking; plan mode lists tools (`artifact_read`,
  `artifact_preview`, `memory_search`, `skill_activate`, `skill_read`) whose capability
  it removes, so they are offered and always refused; a call whose path capability was
  revoked fails the whole run.
- *Files*: `read_file` hashes the file in a second look, after the text; two saves that
  restore the old content go unnoticed by a patch; a failed artifact after `os.replace`
  records a failed write of a replaced file; a kill leaves the temporary file.
- *MCP*: a later round whose discovery fails before sending is recorded failed although
  earlier rounds were sent (their answers were seen); a crash between vault and
  transaction leaves a secret nobody refers to; a save's load error stays shown when the
  file changes back; an edit in the interval between the second read and `os.replace` is
  lost; an OAuth flow interrupted by a crash stays `exchanging`, and the row is marked
  whatever it is by then.
- *Web*: the model selection of a snapshot is read after its rows, so it may run ahead
  and go back when older events are applied (`ViewTrue` says "no older"); a snapshot in the
  middle of a reply, or a reconnect, drops preview frames that are not sent again, so a
  preview may have a hole until the reply is committed; a failed first snapshot ends the
  page's loop for good, as the end of the session does later; an event above 1 MiB is never
  sent, so the stream is closed and reopened before it again and again until the user
  fetches a snapshot (`Barred` in `ViewCatchesUp`).
- *Selection*: a worker that dies after `reject` and before the next two writes leaves a
  selection rejected that the run goes on with: the next attempt prepares the same
  candidate again, and if that succeeds binds it and tells it as applied.
- *Plugins*: a draining owner makes submissions refused even if an older version is
  ready, and the API keeps a version loaded that the worker disposed. A recovery reads the
  runs at `plugins/integration.py:107` and the references at 109: a run bound in between
  loses its reference, so its version may be drained and disposed under it
  (`overlooked`), and a run that ends before 120 gets its reference back, which keeps the
  version until the next start (`revived`). Either may make a later start fail with
  "active run plugin lock cannot be restored". `PluginSound` excludes exactly these runs,
  and only them.
- *Instances*: a supervisor killed before its first full record leaves children nobody
  finds (`unrecorded`); `stop()` reads `instance.json` twice and may end the worker of a
  newer instance undrained (the last exception of `DrainedBeforeStop`); a late
  maintenance request for an old instance leaves the new one in maintenance.

## 7. Not modelled, and plan

Left out because there is no order to get wrong: path and destination rules of the policy
engine, provider transports and streaming, token estimates, schemas, rendering, metrics,
price tables, packaging, evaluations, bundled skills (immutable content read by hash).
Left out as rare and of one platform: `write_instance` gives up after two seconds of denied
replaces on Windows (`supervisor.py:57-65`) and the old record stands until the next loop.
Left out because nothing can happen: `confirm_not_executed` demands evidence that no code
writes (`tools/gateway.py:462-471`), so it only refuses.
Left out as sequential, with writers stopped: verification and restore of backups,
artifact collection, import and export. Memories and sessions are single compare-and-set edits.
External, modelled as the code uses them: LangGraph's saver, MCP servers, providers, the
operating system's locks and processes.

What remains worth doing, in this order:

1. **A history set back** in EventStream: after a restore from an older backup the
   cursor of an open page is ahead of the server, which refuses it and answers a snapshot
   the reducer drops as old.
2. **Branch forks** of the scheduler and the runtime, which copy a checkpoint while the
   source branch is idle, and **collection of artifacts** beside `put_stream`.
3. **Composition of Steering with CheckpointResume**, which would show the stale pointer
   and a consumed message in one behaviour.
