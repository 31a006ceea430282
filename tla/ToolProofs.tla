------------------------------ MODULE ToolProofs ------------------------------
(***************************************************************************)
(* The authority a tool is called with and the files tools write, for any number*)
(* of runs, policies, calls, edits and workers' deaths.                    *)
(***************************************************************************)
EXTENDS ToolAuthority, WorkspaceFiles, FiniteSetTheorems, TLAPS

------------------------------------------------------------------------------
(* Authority *)

\* The grant a run was submitted with.
FrozenRow == [allow : SUBSET Permission, approve : SUBSET Effect, plan : BOOLEAN,
             tools : SUBSET ToolId]
\* A run, its root and its grant.
TaskRow == [status : {"none", "active", "cancelling", "ended"}, root : TaskRun \cup {NoTaskRun},
            frozen : FrozenRow]
\* A row of tool_executions.
OpRow == [state : {"none", "prepared", "running", "succeeded", "failed", "unknown", "cancelled"},
          tool : ToolId \cup {"none"}, print : Nat, checked : Revision]
\* An approval that was asked for.
AskRow == [status : {"none", "open", "approved", "denied", "expired", "cancelled"},
           bound : Revision, print : Nat, late : BOOLEAN]
\* The coroutine of a call in ToolGateway.execute.
CallerRow == [at : {"none", "prepared", "bound", "checked", "running"}, print : Nat,
              bound : Revision, checked : Revision]

\* The rows of PolicyEngine's store, of tool_executions and of the calls keep their columns,
\* and no layer of the policies is ever empty.
AuthorityShapes ==
    /\ saved \in [Layer -> Seq(Policy)] /\ \A l \in Layer : Len(saved[l]) >= 1
    /\ task \in [TaskRun -> TaskRow] /\ target \in Nat
    /\ op \in [TaskRun -> OpRow] /\ ask \in [TaskRun -> AskRow]
    /\ caller \in [TaskRun -> CallerRow]

\* A revision that names a policy of every layer.
Named(revision) == revision \in Revision /\ \A l \in Layer : revision[l] \in 1 .. Len(saved[l])

\* A run holds no more than the root of its tree was submitted with, and is asked for no less.
UnderRoot(r) ==
    task[r].status /= "none" =>
        /\ task[r].root \in TaskRun /\ task[task[r].root].status /= "none"
        /\ task[r].frozen.allow \subseteq task[task[r].root].frozen.allow
        /\ task[r].frozen.approve = task[task[r].root].frozen.approve
        /\ task[r].frozen.plan = task[task[r].root].frozen.plan

\* A call belongs to a run and to a ledger entry that waits for it; an entry's tool is of the
\* run's mode; an approval is for the target of the entry.
CallTrue(r) ==
    /\ task[r].status = "none" => op[r].state = "none"
    /\ op[r].state = "none" => op[r] = NoOp /\ ask[r] = NoAsk /\ caller[r].at = "none"
    /\ caller[r].at \in {"prepared", "bound", "checked"} => op[r].state = "prepared"
    /\ op[r].state = "running" <=> caller[r].at = "running"
    /\ op[r].state /= "none" => op[r].tool \in ToolId /\ InMode(task[r].frozen.plan, op[r].tool)
    /\ ask[r] /= NoAsk => Named(ask[r].bound) /\ ask[r].print = op[r].print

\* The approval a policy asks for was given for this target at this revision.
Approved(r, revision) ==
    NeedsApproval(EffectiveAt(r, revision), op[r].tool) =>
        ask[r].status = "approved" /\ ask[r].bound = revision /\ ask[r].print = op[r].print

\* What the first look bound, and what the second look found, hold until the tool starts.
LooksTrue(r) ==
    /\ caller[r].at \in {"bound", "checked"} =>
          Named(caller[r].bound) /\ Approved(r, caller[r].bound)
    /\ caller[r].at = "checked" =>
          /\ caller[r].checked = caller[r].bound
          /\ ~Denies(EffectiveAt(r, caller[r].checked), op[r].tool)
    /\ Started(r) =>
          /\ Named(op[r].checked) /\ Approved(r, op[r].checked)
          /\ ~Denies(EffectiveAt(r, op[r].checked), op[r].tool)

\* The inductive invariant of authority.
AuthorityInv ==
    /\ AuthorityShapes
    /\ \A r \in TaskRun : UnderRoot(r) /\ CallTrue(r) /\ LooksTrue(r)

------------------------------------------------------------------------------
\* execute()'s two looks and the frozen policy give what the runs check.
LEMMA AuthorityPromise ==
    ASSUME AuthorityInv
    PROVE  AuthorityTypeOK /\ AuthorizedStart /\ WithinRoot
<1> USE DEF AuthorityInv
<1>1. AuthorityTypeOK
  <2>1. \A r \in TaskRun : op[r] \in OpRow /\ ask[r] \in AskRow /\ caller[r] \in CallerRow
    BY DEF AuthorityShapes
  <2> QED BY <2>1 DEF AuthorityShapes, AuthorityTypeOK, CallTrue, OpRow, AskRow, CallerRow, TaskRow,
                      FrozenRow
<1>2. AuthorizedStart
  BY DEF AuthorizedStart, LooksTrue, Approved
<1>3. WithinRoot
  <2> SUFFICES ASSUME NEW r \in TaskRun, Started(r)
               PROVE  /\ ToolSpec(op[r].tool).needs \in task[task[r].root].frozen.allow
                      /\ InMode(task[task[r].root].frozen.plan, op[r].tool)
                      /\ ToolSpec(op[r].tool).effect \in task[task[r].root].frozen.approve =>
                            ask[r].status = "approved"
    BY DEF WithinRoot
  <2>1. op[r].state /= "none" /\ task[r].status /= "none"
    BY DEF CallTrue, Started, NoOp
  <2>2. UnderRoot(r) /\ InMode(task[r].frozen.plan, op[r].tool)
    BY <2>1 DEF CallTrue
  <2>3. /\ ~Denies(EffectiveAt(r, op[r].checked), op[r].tool)
        /\ Approved(r, op[r].checked)
    BY DEF LooksTrue
  <2>4. /\ EffectiveAt(r, op[r].checked).allow \subseteq task[r].frozen.allow
        /\ task[r].frozen.approve \subseteq EffectiveAt(r, op[r].checked).approve
    BY DEF EffectiveAt
  <2>5. ToolSpec(op[r].tool).needs \in EffectiveAt(r, op[r].checked).allow
    BY <2>3 DEF Denies
  <2>6. ASSUME ToolSpec(op[r].tool).effect \in task[task[r].root].frozen.approve
        PROVE  ask[r].status = "approved"
    <3>1. ToolSpec(op[r].tool).effect \in EffectiveAt(r, op[r].checked).approve
      BY <2>1, <2>2, <2>4, <2>6 DEF UnderRoot
    <3> QED BY <2>3, <3>1 DEF Approved, NeedsApproval
  <2> QED BY <2>1, <2>2, <2>4, <2>5, <2>6 DEF UnderRoot
<1> QED BY <1>1, <1>2, <1>3

\* The initial rows: no run, no call, and the default policy in every layer.
LEMMA AuthorityStarts == AuthorityInit => AuthorityInv
<1> SUFFICES ASSUME AuthorityInit PROVE AuthorityInv
  OBVIOUS
<1>1. Default \in Policy
  BY DEF Default, Policy, Effect
<1>2. AuthorityShapes
  <2>1. <<Default>> \in Seq(Policy) /\ Len(<<Default>>) = 1
    BY <1>1
  <2>2. NoTask \in TaskRow /\ NoOp \in OpRow /\ NoAsk \in AskRow /\ NoCaller \in CallerRow
    BY DEF NoTask, NoOp, NoAsk, NoCaller, TaskRow, OpRow, AskRow, CallerRow, NoSnapshot, FrozenRow,
           Unset, Revision
  <2> QED BY <2>1, <2>2 DEF AuthorityInit, AuthorityShapes
<1>3. \A r \in TaskRun : UnderRoot(r) /\ CallTrue(r) /\ LooksTrue(r)
  <2> TAKE r \in TaskRun
  <2>1. task[r] = NoTask /\ op[r] = NoOp /\ ask[r] = NoAsk /\ caller[r] = NoCaller
    BY DEF AuthorityInit
  <2>2. op[r].state = "none" /\ op[r].checked = Unset /\ caller[r].at = "none" /\ task[r].status = "none"
    BY <2>1 DEF NoTask, NoOp, NoCaller
  <2> QED BY <2>1, <2>2 DEF UnderRoot, CallTrue, LooksTrue, Started
<1> QED BY <1>2, <1>3 DEF AuthorityInv

\* What a step keeps of every run: that it was submitted, its snapshot and its root.
TasksStay ==
    \A q \in TaskRun : /\ task'[q].frozen = task[q].frozen /\ task'[q].root = task[q].root
                       /\ task'[q].status = "none" <=> task[q].status = "none"

\* The policies of a revision that was named stay what they were: save_config appends.
SavedGrow ==
    \A l \in Layer : /\ Len(saved'[l]) >= Len(saved[l])
                     /\ \A i \in 1 .. Len(saved[l]) : saved'[l][i] = saved[l][i]

\* for_agent(): what a named revision gives a run does not change.
LEMMA EffectiveStays ==
    ASSUME AuthorityInv, SavedGrow, NEW r \in TaskRun, NEW revision, Named(revision),
           task'[r].frozen = task[r].frozen, AuthorityShapes'
    PROVE  Named(revision)' /\ EffectiveAt(r, revision)' = EffectiveAt(r, revision)
<1>1. \A l \in Layer : revision[l] \in 1 .. Len(saved[l]) /\ saved'[l][revision[l]] = saved[l][revision[l]]
  BY DEF Named, SavedGrow
<1>2. Named(revision)'
  <2>1. \A l \in Layer : Len(saved[l]) \in Nat /\ Len(saved'[l]) \in Nat
    BY DEF AuthorityInv, AuthorityShapes
  <2> QED BY <1>1, <2>1 DEF Named, SavedGrow
<1>3. AllowedAt(revision)' = AllowedAt(revision) /\ AskedAt(revision)' = AskedAt(revision)
  <2>1. {saved'[l][revision[l]].approve : l \in Layer} = {saved[l][revision[l]].approve : l \in Layer}
    BY <1>1
  <2> QED BY <1>1, <2>1 DEF AllowedAt, AskedAt
<1> QED BY <1>2, <1>3 DEF EffectiveAt

\* A run whose call no step touches keeps its rows true.
LEMMA Untouched ==
    ASSUME AuthorityInv, SavedGrow, AuthorityShapes', NEW q \in TaskRun,
           task'[q].frozen = task[q].frozen,
           task'[q].status = "none" <=> task[q].status = "none",
           op'[q] = op[q], ask'[q] = ask[q], caller'[q] = caller[q]
    PROVE  CallTrue(q)' /\ LooksTrue(q)'
<1>1. \A revision : Named(revision) =>
         Named(revision)' /\ EffectiveAt(q, revision)' = EffectiveAt(q, revision)
  BY EffectiveStays
<1>2. CallTrue(q) /\ LooksTrue(q)
  BY DEF AuthorityInv
<1>3. CallTrue(q)'
  BY <1>1, <1>2 DEF CallTrue
<1>4. \A revision : Named(revision) /\ Approved(q, revision) => Approved(q, revision)'
  BY <1>1 DEF Approved
<1>5. LooksTrue(q)'
  <2>1. Named(caller[q].bound) => /\ Named(caller[q].bound)'
                                  /\ EffectiveAt(q, caller[q].bound)' = EffectiveAt(q, caller[q].bound)
    BY <1>1
  <2> QED BY <1>1, <1>2, <1>4 DEF LooksTrue, Started
<1> QED BY <1>3, <1>5

\* A step of one run's call is checked at that run alone.
LEMMA OneCall ==
    ASSUME AuthorityInv, saved' = saved, TasksStay, AuthorityShapes', NEW r \in TaskRun,
           \A q \in TaskRun \ {r} : op'[q] = op[q] /\ ask'[q] = ask[q] /\ caller'[q] = caller[q],
           CallTrue(r)', LooksTrue(r)'
    PROVE  AuthorityInv'
<1>1. SavedGrow
  BY DEF SavedGrow, AuthorityInv, AuthorityShapes
<1>2. \A q \in TaskRun : UnderRoot(q)'
  BY DEF UnderRoot, TasksStay, AuthorityInv
<1>3. \A q \in TaskRun \ {r} : CallTrue(q)' /\ LooksTrue(q)'
  BY <1>1, Untouched DEF TasksStay
<1> QED BY <1>2, <1>3 DEF AuthorityInv

\* The policies in force name a policy of every layer.
LEMMA CurrentNamed == AuthorityInv => Named(CurrentRevision)
  BY DEF AuthorityInv, AuthorityShapes, Named, CurrentRevision, Revision

\* A step of one run's call that leaves its snapshot alone reads the same policies.
LEMMA EffectiveSame ==
    ASSUME saved' = saved, NEW r, task'[r].frozen = task[r].frozen, NEW revision
    PROVE  /\ EffectiveAt(r, revision)' = EffectiveAt(r, revision)
           /\ Named(revision)' <=> Named(revision)
  BY DEF EffectiveAt, AllowedAt, AskedAt, Named

\* An exception's clean-up: the prepared operation and the open approval end with the run.
LEMMA RaiseKeeps ==
    ASSUME AuthorityInv, NEW r \in TaskRun, caller[r].at /= "running", task[r].status /= "none",
           Raise(r), UNCHANGED <<saved, target>>
    PROVE  AuthorityInv'
<1>0. /\ op[r] \in OpRow /\ ask[r] \in AskRow /\ task[r] \in TaskRow /\ AuthorityShapes
      /\ CallTrue(r) /\ LooksTrue(r)
  BY DEF AuthorityInv, AuthorityShapes
<1> DEFINE o == [op[r] EXCEPT !.state = IF @ = "prepared" THEN "cancelled" ELSE @]
           a == [ask[r] EXCEPT !.status = IF @ = "open" THEN "cancelled" ELSE @]
           t == [task[r] EXCEPT !.status = "ended"]
<1>1. op' = [op EXCEPT ![r] = o] /\ ask' = [ask EXCEPT ![r] = a] /\ task' = [task EXCEPT ![r] = t]
  BY DEF Raise
<1>2. caller' = [caller EXCEPT ![r] = NoCaller]
  BY DEF Raise, Return
<1>3. o \in OpRow /\ a \in AskRow /\ t \in TaskRow /\ NoCaller \in CallerRow
  BY <1>0 DEF OpRow, AskRow, TaskRow, CallerRow, NoCaller, Unset, Revision
<1>4. AuthorityShapes'
  BY <1>0, <1>1, <1>2, <1>3 DEF AuthorityShapes
<1>5. t.frozen = task[r].frozen /\ t.root = task[r].root /\ t.status = "ended"
  BY <1>0 DEF TaskRow
<1>6. TasksStay
  BY <1>0, <1>1, <1>5 DEF TasksStay, AuthorityShapes
<1>7. /\ o.tool = op[r].tool /\ o.print = op[r].print /\ o.checked = op[r].checked
      /\ o.state = IF op[r].state = "prepared" THEN "cancelled" ELSE op[r].state
  BY <1>0 DEF OpRow
<1>8. /\ a.bound = ask[r].bound /\ a.print = ask[r].print
      /\ a.status = IF ask[r].status = "open" THEN "cancelled" ELSE ask[r].status
      /\ ask[r] = NoAsk => a = NoAsk
  BY <1>0 DEF AskRow, NoAsk
<1>9. op'[r] = o /\ ask'[r] = a /\ caller'[r] = NoCaller /\ task'[r] = t
  BY <1>0, <1>1, <1>2 DEF AuthorityShapes
<1> HIDE DEF o, a, t
<1>10. NoCaller.at = "none"
  BY DEF NoCaller
<1>11. \A revision : /\ EffectiveAt(r, revision)' = EffectiveAt(r, revision)
                     /\ Named(revision)' <=> Named(revision)
  BY <1>5, <1>9, EffectiveSame
<1>12. CallTrue(r)'
  <2>1. op[r].state /= "running"
    BY <1>0 DEF CallTrue
  <2>2. op[r].state = "none" => o = op[r]
    BY <1>0 DEF o, OpRow
  <2>3. a /= NoAsk => Named(ask[r].bound) /\ ask[r].print = op[r].print
    BY <1>0, <1>8 DEF CallTrue
  <2>4. o.state /= "none" => op[r].tool \in ToolId /\ InMode(t.frozen.plan, op[r].tool)
    BY <1>0, <1>5, <1>7 DEF CallTrue
  <2>5. o.state = "none" => o = NoOp /\ a = NoAsk
    BY <1>0, <1>7, <1>8, <2>2 DEF CallTrue
  <2> QED BY <1>5, <1>7, <1>8, <1>9, <1>10, <1>11, <2>1, <2>3, <2>4, <2>5 DEF CallTrue
<1>13. LooksTrue(r)'
  <2>1. \A revision : Approved(r, revision) => Approved(r, revision)'
    BY <1>7, <1>8, <1>9, <1>11 DEF Approved
  <2> QED BY <1>0, <1>7, <1>9, <1>10, <1>11, <2>1 DEF LooksTrue, Started
<1>14. \A q \in TaskRun \ {r} : op'[q] = op[q] /\ ask'[q] = ask[q] /\ caller'[q] = caller[q]
  BY <1>0, <1>1, <1>2 DEF AuthorityShapes
<1> QED BY <1>4, <1>6, <1>12, <1>13, <1>14, OneCall

\* A call that ends with its answer: the operation reaches an end and the caller returns.
LEMMA CallEnds ==
    ASSUME AuthorityInv, NEW r \in TaskRun, op[r].state /= "none",
           NEW state \in {"succeeded", "failed", "unknown", "prepared", "cancelled"},
           op' = [op EXCEPT ![r].state = state], Return(r),
           saved' = saved, task' = task, ask' = ask, target' \in Nat
    PROVE  AuthorityInv'
<1>0. op[r] \in OpRow /\ AuthorityShapes /\ CallTrue(r) /\ LooksTrue(r)
  BY DEF AuthorityInv, AuthorityShapes
<1> DEFINE o == [op[r] EXCEPT !.state = state]
<1>1. op' = [op EXCEPT ![r] = o] /\ caller' = [caller EXCEPT ![r] = NoCaller]
  BY DEF Return
<1>2. /\ o \in OpRow /\ o.state = state
      /\ o.tool = op[r].tool /\ o.print = op[r].print /\ o.checked = op[r].checked
  BY <1>0 DEF OpRow
<1>3. NoCaller \in CallerRow /\ NoCaller.at = "none"
  BY DEF CallerRow, NoCaller, Unset, Revision
<1>4. AuthorityShapes'
  BY <1>0, <1>1, <1>2, <1>3 DEF AuthorityShapes
<1>5. op'[r] = o /\ caller'[r] = NoCaller
  BY <1>0, <1>1 DEF AuthorityShapes
<1> HIDE DEF o
<1>6. \A revision : /\ EffectiveAt(r, revision)' = EffectiveAt(r, revision)
                    /\ Named(revision)' <=> Named(revision)
  BY EffectiveSame
<1>7. CallTrue(r)'
  BY <1>0, <1>2, <1>3, <1>5, <1>6 DEF CallTrue
<1>8. LooksTrue(r)'
  <2>1. \A revision : Approved(r, revision) => Approved(r, revision)'
    BY <1>2, <1>5, <1>6 DEF Approved
  <2> QED BY <1>0, <1>2, <1>3, <1>5, <1>6, <2>1 DEF LooksTrue, Started
<1>9. TasksStay
  BY DEF TasksStay
<1>10. \A q \in TaskRun \ {r} : op'[q] = op[q] /\ ask'[q] = ask[q] /\ caller'[q] = caller[q]
  BY <1>0, <1>1 DEF AuthorityShapes
<1> QED BY <1>4, <1>7, <1>8, <1>9, <1>10, OneCall

\* The caller moves on, its operation and approval as they were.
LEMMA CallerMoves ==
    ASSUME AuthorityInv, NEW r \in TaskRun, NEW next \in CallerRow,
           caller' = [caller EXCEPT ![r] = next], UNCHANGED <<saved, task, target, op, ask>>,
           next.at \in {"prepared", "bound", "checked"} => op[r].state = "prepared",
           op[r].state = "running" <=> next.at = "running",
           op[r].state = "none" => next.at = "none",
           next.at \in {"bound", "checked"} => Named(next.bound) /\ Approved(r, next.bound),
           next.at = "checked" => /\ next.checked = next.bound
                                  /\ ~Denies(EffectiveAt(r, next.checked), op[r].tool)
    PROVE  AuthorityInv'
<1>0. AuthorityShapes /\ CallTrue(r) /\ LooksTrue(r)
  BY DEF AuthorityInv
<1>1. AuthorityShapes' /\ caller'[r] = next
  BY <1>0 DEF AuthorityShapes
<1>2. \A revision : /\ EffectiveAt(r, revision)' = EffectiveAt(r, revision)
                    /\ Named(revision)' <=> Named(revision)
  BY EffectiveSame
<1>3. CallTrue(r)'
  BY <1>0, <1>1, <1>2 DEF CallTrue
<1>4. LooksTrue(r)'
  <2>1. \A revision : Approved(r, revision) => Approved(r, revision)'
    BY <1>2 DEF Approved
  <2> QED BY <1>0, <1>1, <1>2, <2>1 DEF LooksTrue, Started
<1>5. TasksStay
  BY DEF TasksStay
<1>6. \A q \in TaskRun \ {r} : op'[q] = op[q] /\ ask'[q] = ask[q] /\ caller'[q] = caller[q]
  BY <1>0 DEF AuthorityShapes
<1> QED BY <1>1, <1>3, <1>4, <1>5, <1>6, OneCall

\* The rows a caller can be given.
LEMMA CallerRows ==
    ASSUME AuthorityInv, NEW r \in TaskRun
    PROVE  /\ [NoCaller EXCEPT !.at = "prepared", !.print = target] \in CallerRow
           /\ \A b \in Revision : [caller[r] EXCEPT !.at = "bound", !.bound = b] \in CallerRow
           /\ \A c \in Revision : [caller[r] EXCEPT !.at = "checked", !.checked = c] \in CallerRow
           /\ [caller[r] EXCEPT !.at = "running"] \in CallerRow
           /\ NoCaller \in CallerRow
<1>1. caller[r] \in CallerRow /\ target \in Nat
  BY DEF AuthorityInv, AuthorityShapes
<1>2. NoCaller \in CallerRow
  BY DEF CallerRow, NoCaller, Unset, Revision
<1> QED BY <1>1, <1>2 DEF CallerRow

\* execute(): a call is written to the ledger, or found there again.
LEMMA PrepareKeeps ==
    ASSUME AuthorityInv, NEW r \in TaskRun, NEW tool \in CalledTool, PrepareCall(r, tool)
    PROVE  AuthorityInv'
<1> DEFINE o == [NoOp EXCEPT !.state = "prepared", !.tool = tool, !.print = target]
           n == [NoCaller EXCEPT !.at = "prepared", !.print = target]
<1>0. AuthorityShapes /\ CallTrue(r) /\ LooksTrue(r) /\ tool \in ToolId
  BY AuthorityAssumption DEF AuthorityInv
<1>1. op' = [op EXCEPT ![r] = o] /\ caller' = [caller EXCEPT ![r] = n]
  BY DEF PrepareCall
<1>2. /\ task[r].status = "active" /\ caller[r] = NoCaller /\ op[r].state = "none"
      /\ tool \in task[r].frozen.tools /\ InMode(task[r].frozen.plan, tool)
      /\ UNCHANGED <<saved, task, target, ask>>
  BY DEF PrepareCall
<1>3. o \in OpRow /\ o.state = "prepared" /\ o.tool = tool /\ o.checked = Unset
  BY <1>0 DEF OpRow, NoOp, Unset, Revision, AuthorityShapes
<1>4. n \in CallerRow /\ n.at = "prepared"
  BY CallerRows DEF NoCaller
<1>5. AuthorityShapes'
  BY <1>0, <1>1, <1>2, <1>3, <1>4 DEF AuthorityShapes
<1>6. op'[r] = o /\ caller'[r] = n
  BY <1>0, <1>1 DEF AuthorityShapes
<1> HIDE DEF o, n
<1>7. CallTrue(r)' /\ LooksTrue(r)'
  <2>1. ask[r] = NoAsk
    BY <1>0, <1>2 DEF CallTrue
  <2> QED BY <1>0, <1>2, <1>3, <1>4, <1>6, <2>1 DEF CallTrue, LooksTrue, Started
<1>8. TasksStay
  BY <1>2 DEF TasksStay
<1>9. \A q \in TaskRun \ {r} : op'[q] = op[q] /\ ask'[q] = ask[q] /\ caller'[q] = caller[q]
  BY <1>0, <1>1, <1>2 DEF AuthorityShapes
<1> QED BY <1>2, <1>5, <1>7, <1>8, <1>9, OneCall

\* A call with the id of an earlier one is answered from its row.
LEMMA RepeatKeeps ==
    ASSUME AuthorityInv, NEW r \in TaskRun, RepeatCall(r)
    PROVE  AuthorityInv'
<1> DEFINE n == [NoCaller EXCEPT !.at = "prepared", !.print = target]
<1>1. n \in CallerRow /\ n.at = "prepared"
  BY CallerRows DEF NoCaller
<1>2. /\ caller' = [caller EXCEPT ![r] = n] /\ UNCHANGED <<saved, task, target, op, ask>>
      /\ op[r].state = "prepared"
  BY DEF RepeatCall
<1> HIDE DEF n
<1> QED BY <1>1, <1>2, CallerMoves

\* execute(): the run waits for the user's approval of this target under these policies.
LEMMA AskKeeps ==
    ASSUME AuthorityInv, NEW r \in TaskRun, CallAsks(r)
    PROVE  AuthorityInv'
<1> DEFINE a == [NoAsk EXCEPT !.status = "open", !.bound = CurrentRevision, !.print = caller[r].print]
<1>0. AuthorityShapes /\ CallTrue(r) /\ LooksTrue(r) /\ Named(CurrentRevision)
  BY CurrentNamed DEF AuthorityInv
<1>1. ask' = [ask EXCEPT ![r] = a] /\ caller' = [caller EXCEPT ![r] = NoCaller]
  BY DEF CallAsks, Return
<1>2. /\ caller[r].at = "prepared" /\ caller[r].print = op[r].print /\ ask[r] = NoAsk
      /\ UNCHANGED <<saved, task, target, op>> /\ op[r].state = "prepared"
  BY <1>0 DEF CallAsks, Decided, At, CallTrue
<1>3. a \in AskRow /\ a.bound = CurrentRevision /\ a.print = op[r].print
  BY <1>0, <1>2 DEF AuthorityShapes, AskRow, NoAsk, Named, Revision, CallerRow
<1>4. NoCaller \in CallerRow /\ NoCaller.at = "none"
  BY CallerRows DEF NoCaller
<1>5. AuthorityShapes'
  BY <1>0, <1>1, <1>2, <1>3, <1>4 DEF AuthorityShapes
<1>6. ask'[r] = a /\ caller'[r] = NoCaller
  BY <1>0, <1>1 DEF AuthorityShapes
<1> HIDE DEF a
<1>7. \A revision : /\ EffectiveAt(r, revision)' = EffectiveAt(r, revision)
                    /\ Named(revision)' <=> Named(revision)
  BY <1>2, EffectiveSame
<1>8. CallTrue(r)'
  BY <1>0, <1>2, <1>3, <1>4, <1>6, <1>7 DEF CallTrue
<1>9. LooksTrue(r)'
  <2>1. ASSUME Started(r), NEW policy, policy = EffectiveAt(r, op[r].checked)
        PROVE  ~NeedsApproval(policy, op[r].tool)
    BY <1>0, <1>2, <2>1 DEF LooksTrue, Approved, NoAsk
  <2>2. Started(r) => ~NeedsApproval(EffectiveAt(r, op[r].checked), op[r].tool)
    BY <2>1
  <2>3. Started(r) => Approved(r, op[r].checked)'
    BY <1>2, <1>7, <2>2 DEF Approved
  <2> QED BY <1>0, <1>2, <1>4, <1>6, <1>7, <2>3 DEF LooksTrue, Started
<1>10. TasksStay
  BY <1>2 DEF TasksStay
<1>11. \A q \in TaskRun \ {r} : op'[q] = op[q] /\ ask'[q] = ask[q] /\ caller'[q] = caller[q]
  BY <1>0, <1>1, <1>2 DEF AuthorityShapes
<1> QED BY <1>2, <1>5, <1>8, <1>9, <1>10, <1>11, OneCall

\* execute(): the binding is the approval's, or this moment's where none is needed.
LEMMA BoundKeeps ==
    ASSUME AuthorityInv, NEW r \in TaskRun, CallBinds(r)
    PROVE  AuthorityInv'
<1> DEFINE n(b) == [caller[r] EXCEPT !.at = "bound", !.bound = b]
<1>0. /\ AuthorityShapes /\ CallTrue(r) /\ LooksTrue(r) /\ Named(CurrentRevision)
      /\ caller[r] \in CallerRow /\ ask[r] \in AskRow
  BY CurrentNamed DEF AuthorityInv, AuthorityShapes
<1>1. /\ caller[r].at = "prepared" /\ op[r].state = "prepared"
      /\ UNCHANGED <<saved, task, target, op, ask>>
  BY <1>0 DEF CallBinds, Decided, At, CallTrue
<1>2. PICK b \in Revision : /\ caller' = [caller EXCEPT ![r] = n(b)]
                            /\ Named(b) /\ Approved(r, b)
  <2>1. CASE NeedsApproval(Effective(r), op[r].tool)
    <3>1. ask[r].status = "approved" /\ caller' = [caller EXCEPT ![r].at = "bound", ![r].bound = ask[r].bound]
      BY <2>1 DEF CallBinds
    <3>2. caller' = [caller EXCEPT ![r] = n(ask[r].bound)]
      BY <1>0, <3>1 DEF AuthorityShapes, CallerRow
    <3>3. ask[r] /= NoAsk
      BY <3>1 DEF NoAsk
    <3>4. Named(ask[r].bound) /\ ask[r].print = op[r].print
      BY <1>0, <3>3 DEF CallTrue
    <3>5. ask[r].bound \in Revision /\ Approved(r, ask[r].bound)
      BY <1>0, <3>1, <3>4 DEF Approved, AskRow
    <3> QED BY <3>2, <3>4, <3>5
  <2>2. CASE ~NeedsApproval(Effective(r), op[r].tool)
    <3>1. caller' = [caller EXCEPT ![r].at = "bound", ![r].bound = CurrentRevision]
      BY <2>2 DEF CallBinds
    <3>2. caller' = [caller EXCEPT ![r] = n(CurrentRevision)]
      BY <1>0, <3>1 DEF AuthorityShapes, CallerRow
    <3>3. CurrentRevision \in Revision /\ Approved(r, CurrentRevision)
      BY <1>0, <2>2 DEF Approved, Effective, Named
    <3> QED BY <1>0, <3>2, <3>3
  <2> QED BY <2>1, <2>2
<1>3. n(b) \in CallerRow /\ n(b).at = "bound" /\ n(b).bound = b
  BY <1>0, <1>2, CallerRows DEF CallerRow
<1> HIDE DEF n
<1> QED BY <1>1, <1>2, <1>3, CallerMoves

\* execute(), under the locks of the target: the second look finds what was bound.
LEMMA CheckKeeps ==
    ASSUME AuthorityInv, NEW r \in TaskRun, CallChecked(r)
    PROVE  AuthorityInv'
<1> DEFINE n == [caller[r] EXCEPT !.at = "checked", !.checked = CurrentRevision]
<1>0. /\ AuthorityShapes /\ CallTrue(r) /\ LooksTrue(r) /\ Named(CurrentRevision)
      /\ caller[r] \in CallerRow
  BY CurrentNamed DEF AuthorityInv, AuthorityShapes
<1>1. /\ caller[r].at = "bound" /\ op[r].state = "prepared" /\ CurrentRevision = caller[r].bound
      /\ ~Denies(EffectiveAt(r, CurrentRevision), op[r].tool)
      /\ UNCHANGED <<saved, task, target, op, ask>>
  BY <1>0 DEF CallChecked, At, CallTrue, StillBound, Effective
<1>2. n \in CallerRow /\ n.at = "checked" /\ n.checked = CurrentRevision /\ n.bound = caller[r].bound
  BY <1>0, CallerRows DEF CallerRow, Named
<1>3. caller' = [caller EXCEPT ![r] = n]
  <2>1. caller' = [caller EXCEPT ![r].at = "checked", ![r].checked = CurrentRevision]
    BY DEF CallChecked
  <2> QED BY <1>0, <2>1 DEF AuthorityShapes, CallerRow
<1> HIDE DEF n
<1>4. Named(n.bound) /\ Approved(r, n.bound)
  BY <1>0, <1>1, <1>2 DEF LooksTrue
<1> QED BY <1>1, <1>2, <1>3, <1>4, CallerMoves

\* consume_grant and the running mark, in one transaction.
LEMMA StartKeeps ==
    ASSUME AuthorityInv, NEW r \in TaskRun, CallStartsTool(r)
    PROVE  AuthorityInv'
<1> DEFINE o == [op[r] EXCEPT !.state = "running", !.checked = caller[r].checked]
           n == [caller[r] EXCEPT !.at = "running"]
<1>0. /\ AuthorityShapes /\ CallTrue(r) /\ LooksTrue(r)
      /\ caller[r] \in CallerRow /\ op[r] \in OpRow
  BY DEF AuthorityInv, AuthorityShapes
<1>1. caller[r].at = "checked" /\ op[r].state = "prepared" /\ UNCHANGED <<saved, task, target, ask>>
  BY <1>0 DEF CallStartsTool, At, CallTrue
<1>2. /\ o \in OpRow /\ o.state = "running" /\ o.checked = caller[r].checked
      /\ o.tool = op[r].tool /\ o.print = op[r].print
      /\ n \in CallerRow /\ n.at = "running"
  BY <1>0 DEF OpRow, CallerRow
<1>3. op' = [op EXCEPT ![r] = o] /\ caller' = [caller EXCEPT ![r] = n]
  <2>1. /\ op' = [op EXCEPT ![r].state = "running", ![r].checked = caller[r].checked]
        /\ caller' = [caller EXCEPT ![r].at = "running"]
    BY DEF CallStartsTool
  <2> QED BY <1>0, <2>1 DEF AuthorityShapes, CallerRow, OpRow
<1> HIDE DEF o, n
<1>4. AuthorityShapes' /\ op'[r] = o /\ caller'[r] = n
  BY <1>0, <1>1, <1>2, <1>3 DEF AuthorityShapes
<1>5. \A revision : /\ EffectiveAt(r, revision)' = EffectiveAt(r, revision)
                    /\ Named(revision)' <=> Named(revision)
  BY <1>1, EffectiveSame
<1>6. CallTrue(r)'
  BY <1>0, <1>1, <1>2, <1>4, <1>5 DEF CallTrue
<1>7. LooksTrue(r)'
  <2>1. /\ Named(caller[r].checked) /\ Approved(r, caller[r].checked)
        /\ ~Denies(EffectiveAt(r, caller[r].checked), op[r].tool)
    BY <1>0, <1>1 DEF LooksTrue
  <2>2. PICK c : c = caller[r].checked
    OBVIOUS
  <2>3. Named(c)' /\ Approved(r, c)' /\ ~Denies(EffectiveAt(r, c)', op[r].tool)
    BY <1>1, <1>2, <1>4, <1>5, <2>1, <2>2 DEF Approved
  <2>4. op'[r].checked = c /\ op'[r].tool = op[r].tool /\ caller'[r].at = "running"
    BY <1>2, <1>4, <2>2
  <2> QED BY <2>3, <2>4 DEF LooksTrue
<1>8. TasksStay
  BY <1>1 DEF TasksStay
<1>9. \A q \in TaskRun \ {r} : op'[q] = op[q] /\ ask'[q] = ask[q] /\ caller'[q] = caller[q]
  BY <1>0, <1>1, <1>3 DEF AuthorityShapes
<1> QED BY <1>1, <1>4, <1>6, <1>7, <1>8, <1>9, OneCall

\* The executor acts, or refuses to.
LEMMA ActKeeps ==
    ASSUME AuthorityInv, NEW r \in TaskRun, ToolActs(r)
    PROVE  AuthorityInv'
<1>1. op[r].state /= "none" /\ target \in Nat
  <2>1. caller[r].at = "running" /\ CallTrue(r)
    BY DEF ToolActs, AuthorityInv
  <2> QED BY <2>1 DEF CallTrue, AuthorityInv, AuthorityShapes
<1>2. target' \in Nat /\ UNCHANGED <<saved, task, ask>> /\ Return(r)
  BY <1>1 DEF ToolActs
<1>3. PICK state \in {"succeeded", "failed", "unknown"} : op' = [op EXCEPT ![r].state = state]
  BY DEF ToolActs, EndOp
<1> QED BY <1>1, <1>2, <1>3, CallEnds

\* recover(): a running operation of a dead worker is left to a review.
LEMMA DieKeeps ==
    ASSUME AuthorityInv, NEW r \in TaskRun, CallerDies(r)
    PROVE  AuthorityInv'
<1>0. AuthorityShapes /\ CallTrue(r) /\ op[r] \in OpRow /\ NoCaller \in CallerRow
  BY CallerRows DEF AuthorityInv, AuthorityShapes
<1>1. /\ op' = [op EXCEPT ![r].state = IF @ = "running" THEN "unknown" ELSE @]
      /\ Return(r) /\ UNCHANGED <<saved, task, target, ask>>
  BY DEF CallerDies
<1>2. CASE op[r].state = "running"
  <2>1. op' = [op EXCEPT ![r].state = "unknown"] /\ target' \in Nat
    BY <1>0, <1>1, <1>2 DEF AuthorityShapes
  <2> QED BY <1>1, <1>2, <2>1, CallEnds
<1>3. CASE op[r].state /= "running"
  <2>1. op' = op
    BY <1>0, <1>1, <1>3 DEF AuthorityShapes, OpRow
  <2> QED BY <1>0, <1>1, <1>3, <2>1, CallerMoves DEF Return, NoCaller
<1> QED BY <1>2, <1>3

\* Scheduler.respond, _expire: an answer is given once, and once given it stays.
LEMMA AskMoves ==
    ASSUME AuthorityInv, NEW r \in TaskRun, NEW a \in AskRow, ask' = [ask EXCEPT ![r] = a],
           UNCHANGED <<saved, task, target, op, caller>>, ask[r] /= NoAsk,
           a.bound = ask[r].bound, a.print = ask[r].print,
           ask[r].status = "approved" => a.status = "approved"
    PROVE  AuthorityInv'
<1>0. AuthorityShapes /\ CallTrue(r) /\ LooksTrue(r)
  BY DEF AuthorityInv
<1>1. AuthorityShapes' /\ ask'[r] = a
  BY <1>0 DEF AuthorityShapes
<1>2. \A revision : /\ EffectiveAt(r, revision)' = EffectiveAt(r, revision)
                    /\ Named(revision)' <=> Named(revision)
  BY EffectiveSame
<1>3. CallTrue(r)'
  BY <1>0, <1>1, <1>2 DEF CallTrue
<1>4. LooksTrue(r)'
  <2>1. \A revision : Approved(r, revision) => Approved(r, revision)'
    BY <1>1, <1>2 DEF Approved
  <2> QED BY <1>0, <1>1, <1>2, <2>1 DEF LooksTrue, Started
<1>5. TasksStay
  BY DEF TasksStay
<1>6. \A q \in TaskRun \ {r} : op'[q] = op[q] /\ ask'[q] = ask[q] /\ caller'[q] = caller[q]
  BY <1>0 DEF AuthorityShapes
<1> QED BY <1>1, <1>3, <1>4, <1>5, <1>6, OneCall

\* A user answers, or the time to answer runs out.
LEMMA AnswerKeeps ==
    ASSUME AuthorityInv, NEW r \in TaskRun, Answer(r) \/ AskExpires(r)
    PROVE  AuthorityInv'
<1>0. ask \in [TaskRun -> AskRow] /\ ask[r] \in AskRow
  BY DEF AuthorityInv, AuthorityShapes
<1>1. UNCHANGED <<saved, task, target, op, caller>> /\ ask[r] /= NoAsk
  BY DEF Answer, AskExpires, NoAsk
<1>2. CASE Answer(r)
  <2>1. PICK status \in {"approved", "denied"} : ask' = [ask EXCEPT ![r].status = status]
    BY <1>2 DEF Answer
  <2>2. /\ ask' = [ask EXCEPT ![r] = [ask[r] EXCEPT !.status = status]]
        /\ [ask[r] EXCEPT !.status = status] \in AskRow
        /\ ask[r].status = "open"
    BY <1>0, <1>2, <2>1 DEF AskRow, Answer
  <2> QED BY <1>0, <1>1, <2>2, AskMoves DEF AskRow
<1>3. CASE AskExpires(r)
  <2> DEFINE a == [ask[r] EXCEPT !.late = TRUE, !.status = IF @ = "open" THEN "expired" ELSE @]
  <2>1. ask' = [ask EXCEPT ![r].late = TRUE, ![r].status = IF @ = "open" THEN "expired" ELSE @]
    BY <1>3 DEF AskExpires
  <2>2. ask' = [ask EXCEPT ![r] = a] /\ a \in AskRow
    BY <1>0, <2>1 DEF AskRow
  <2>3. /\ a.bound = ask[r].bound /\ a.print = ask[r].print
        /\ ask[r].status = "approved" => a.status = "approved"
    BY <1>0 DEF AskRow
  <2> HIDE DEF a
  <2> QED BY <1>1, <2>2, <2>3, AskMoves
<1> QED BY <1>2, <1>3

\* Scheduler.cancel: a run whose call is under way is only told.
LEMMA CancelKeeps ==
    ASSUME AuthorityInv, NEW r \in TaskRun, CancelTask(r)
    PROVE  AuthorityInv'
<1>0. task \in [TaskRun -> TaskRow] /\ task[r] \in TaskRow /\ task[r].status = "active"
  BY DEF AuthorityInv, AuthorityShapes, CancelTask
<1>1. CASE caller[r] = NoCaller
  BY <1>0, <1>1, RaiseKeeps DEF CancelTask, NoCaller
<1>2. CASE caller[r] /= NoCaller
  <2>1. task' = [task EXCEPT ![r].status = "cancelling"] /\ UNCHANGED <<op, ask, caller, saved, target>>
    BY <1>2 DEF CancelTask
  <2>2. task' = [task EXCEPT ![r] = [task[r] EXCEPT !.status = "cancelling"]]
    BY <1>0, <2>1
  <2> DEFINE t == [task[r] EXCEPT !.status = "cancelling"]
  <2>t. /\ t \in TaskRow /\ t.frozen = task[r].frozen /\ t.root = task[r].root
        /\ t.status = "cancelling" /\ task' = [task EXCEPT ![r] = t]
    BY <1>0, <2>2 DEF TaskRow
  <2> HIDE DEF t
  <2>3. TasksStay /\ AuthorityShapes'
    <3>1. TasksStay
      BY <1>0, <2>t DEF TasksStay
    <3>2. AuthorityShapes'
      BY <1>0, <2>1, <2>t DEF AuthorityInv, AuthorityShapes
    <3> QED BY <3>1, <3>2
  <2>4. SavedGrow
    BY <2>1 DEF SavedGrow, AuthorityInv, AuthorityShapes
  <2>5. CallTrue(r)' /\ LooksTrue(r)'
    BY <2>1, <2>3, <2>4, Untouched DEF TasksStay
  <2> QED BY <2>1, <2>3, <2>5, OneCall
<1> QED BY <1>1, <1>2

\* execute() as a whole.
LEMMA GatewayKeeps ==
    ASSUME AuthorityInv, NEW r \in TaskRun, GatewayStep(r)
    PROVE  AuthorityInv'
<1>0. CallTrue(r) /\ AuthorityShapes
  BY DEF AuthorityInv
<1>1. ASSUME NEW tool \in CalledTool, PrepareCall(r, tool) PROVE AuthorityInv'
  BY <1>1, PrepareKeeps
<1>2. CASE CallPathDenied(r)
  BY <1>0, <1>2, RaiseKeeps DEF CallPathDenied, NoCaller
<1>3. CASE CallDenied(r) \/ CallNotApproved(r) \/ CallUnbound(r)
  <2>1. /\ op[r].state /= "none" /\ EndOp(r, "failed") /\ Return(r)
        /\ UNCHANGED <<saved, task, target, ask>> /\ target \in Nat
    BY <1>0, <1>3 DEF CallDenied, CallNotApproved, CallUnbound, Decided, At, CallTrue, AuthorityShapes
  <2> QED BY <2>1, CallEnds DEF EndOp
<1>4. CASE CallStale(r)
  BY <1>0, <1>4, RaiseKeeps DEF CallStale, At
<1> QED BY <1>1, <1>2, <1>3, <1>4, RepeatKeeps, AskKeeps, BoundKeeps, CheckKeeps, StartKeeps, ActKeeps,
           DieKeeps DEF GatewayStep

\* A run is submitted, or delegated to, only where none was; its own root stays above it.
LEMMA NewTaskKeeps ==
    ASSUME AuthorityInv, NEW c \in TaskRun, task[c].status = "none",
           NEW frozen \in FrozenRow, NEW root \in TaskRun,
           task' = [task EXCEPT ![c] = [status |-> "active", root |-> root, frozen |-> frozen]],
           UNCHANGED <<saved, target, op, ask, caller>>,
           \/ root = c
           \/ /\ task[root].status /= "none"
              /\ frozen.allow \subseteq task[root].frozen.allow
              /\ frozen.approve = task[root].frozen.approve /\ frozen.plan = task[root].frozen.plan
    PROVE  AuthorityInv'
<1> DEFINE t == [status |-> "active", root |-> root, frozen |-> frozen]
<1>0. AuthorityShapes /\ CallTrue(c) /\ SavedGrow
  BY DEF AuthorityInv, AuthorityShapes, SavedGrow
<1>1. t \in TaskRow /\ t.status = "active" /\ t.root = root /\ t.frozen = frozen
  BY DEF TaskRow
<1>2. task'[c] = t /\ \A q \in TaskRun \ {c} : task'[q] = task[q]
  BY <1>0 DEF AuthorityShapes
<1>3. AuthorityShapes'
  BY <1>0, <1>1 DEF AuthorityShapes
<1> HIDE DEF t
<1>4. ASSUME NEW q \in TaskRun PROVE UnderRoot(q)'
  <2>1. CASE q = c
    BY <1>1, <1>2, <2>1 DEF UnderRoot
  <2>2. CASE q /= c
    BY <1>2, <2>2 DEF UnderRoot, AuthorityInv
  <2> QED BY <2>1, <2>2
<1>5. CallTrue(c)' /\ LooksTrue(c)'
  <2>1. /\ op[c] = NoOp /\ ask[c] = NoAsk /\ caller[c].at = "none"
    BY <1>0 DEF CallTrue
  <2> QED BY <2>1 DEF CallTrue, LooksTrue, Started, NoOp
<1>6. ASSUME NEW q \in TaskRun \ {c} PROVE CallTrue(q)' /\ LooksTrue(q)'
  BY <1>0, <1>2, <1>3, <1>6, Untouched
<1> QED BY <1>3, <1>4, <1>5, <1>6 DEF AuthorityInv

\* A root run freezes what its session allows.
LEMMA SubmitKeeps ==
    ASSUME AuthorityInv, NEW r \in TaskRun, NEW plan \in BOOLEAN, SubmitTask(r, plan)
    PROVE  AuthorityInv'
<1> DEFINE f == [allow |-> AllowedAt(CurrentRevision) \cap LegacyBound.allow,
                 approve |-> AskedAt(CurrentRevision) \cup LegacyBound.approve,
                 plan |-> plan, tools |-> {t \in LegacyBound.tools : InMode(plan, t)}]
<1>1. AskedAt(CurrentRevision) \subseteq Effect
  <2>1. \A l \in Layer : saved[l][CurrentRevision[l]] \in Policy
    BY CurrentNamed DEF AuthorityInv, AuthorityShapes, Named
  <2>2. \A l \in Layer : saved[l][CurrentRevision[l]].approve \subseteq Effect
    BY <2>1 DEF Policy
  <2> QED BY <2>2 DEF AskedAt
<1>2. f \in FrozenRow
  BY <1>1, AuthorityAssumption DEF FrozenRow, AllowedAt
<1>3. task[r].status = "none"
  BY DEF SubmitTask, NoTask
<1>4. /\ task' = [task EXCEPT ![r] = [status |-> "active", root |-> r, frozen |-> f]]
      /\ UNCHANGED <<saved, target, op, ask, caller>>
  BY DEF SubmitTask
<1> HIDE DEF f
<1> QED BY <1>2, <1>3, <1>4, NewTaskKeeps

\* Scheduler.delegate: what the child asks for, the parent has now; so the root's snapshot has it.
LEMMA GrantKeeps ==
    ASSUME AuthorityInv, NEW r \in TaskRun, NEW c \in TaskRun, GrantChild(r, c)
    PROVE  AuthorityInv'
<1>1. PICK removed \in SUBSET Toggled :
         task' = [task EXCEPT ![c] =
            [status |-> "active", root |-> task[r].root,
             frozen |-> [task[r].frozen EXCEPT
                !.allow = ((Effective(r).allow \cap Capability) \ removed) \cup (@ \cap {Trust})]]]
  BY DEF GrantChild
<1> DEFINE f == [task[r].frozen EXCEPT
                    !.allow = ((Effective(r).allow \cap Capability) \ removed) \cup (@ \cap {Trust})]
<1>2. /\ task[r].frozen \in FrozenRow /\ task[r].status /= "none" /\ task[c].status = "none" /\ UnderRoot(r)
      /\ UNCHANGED <<saved, target, op, ask, caller>>
  BY DEF GrantChild, NoTask, AuthorityInv, AuthorityShapes, TaskRow
<1>3. Effective(r).allow \subseteq task[r].frozen.allow
  BY DEF Effective, EffectiveAt
<1>4. /\ f \in FrozenRow /\ f.allow \subseteq task[r].frozen.allow
      /\ f.approve = task[r].frozen.approve /\ f.plan = task[r].frozen.plan
  BY <1>2, <1>3 DEF FrozenRow
<1>5. task' = [task EXCEPT ![c] = [status |-> "active", root |-> task[r].root, frozen |-> f]]
  BY <1>1
<1> HIDE DEF f
<1>6. PICK root \in TaskRun : root = task[r].root
  BY <1>2 DEF UnderRoot
<1>7. /\ task[root].status /= "none" /\ f.allow \subseteq task[root].frozen.allow
      /\ f.approve = task[root].frozen.approve /\ f.plan = task[root].frozen.plan
  BY <1>2, <1>4, <1>6 DEF UnderRoot
<1> QED BY <1>2, <1>4, <1>5, <1>6, <1>7, NewTaskKeeps

\* save_config("policies"): a revision is added, and those that calls are bound to stay.
LEMMA SaveKeeps ==
    ASSUME AuthorityInv, NEW l \in Layer, SavePolicy(l)
    PROVE  AuthorityInv'
<1>0. AuthorityShapes
  BY DEF AuthorityInv
<1>1. PICK new \in Policy : saved' = [saved EXCEPT ![l] = Append(@, new)]
  <2>1. PICK removed \in SUBSET Toggled, added \in SUBSET Asked :
           saved' = [saved EXCEPT ![l] = Append(@, [allow |-> Permission \ removed,
                                                    approve |-> Default.approve \cup added])]
    BY DEF SavePolicy
  <2>2. [allow |-> Permission \ removed, approve |-> Default.approve \cup added] \in Policy
    BY AuthorityAssumption DEF Policy, Default, Effect
  <2> QED BY <2>1, <2>2
<1>2. UNCHANGED <<task, target, op, ask, caller>>
  BY DEF SavePolicy
<1>3. saved[l] \in Seq(Policy) /\ saved \in [Layer -> Seq(Policy)]
  BY <1>0 DEF AuthorityShapes
<1>4. /\ Append(saved[l], new) \in Seq(Policy) /\ Len(Append(saved[l], new)) = Len(saved[l]) + 1
      /\ Len(saved[l]) \in Nat
      /\ \A i \in 1 .. Len(saved[l]) : Append(saved[l], new)[i] = saved[l][i]
  BY <1>3
<1>5. SavedGrow
  <2>1. \A k \in Layer : Len(saved[k]) \in Nat
    BY <1>3
  <2> QED BY <1>1, <1>3, <1>4, <2>1 DEF SavedGrow
<1>6. AuthorityShapes'
  <2>1. saved' \in [Layer -> Seq(Policy)]
    BY <1>1, <1>3, <1>4
  <2>2. \A k \in Layer : Len(saved'[k]) >= 1
    <3> TAKE k \in Layer
    <3>1. Len(saved[k]) \in Nat /\ Len(saved'[k]) \in Nat /\ Len(saved[k]) >= 1
      BY <1>0, <1>3, <2>1 DEF AuthorityShapes
    <3> QED BY <1>5, <3>1 DEF SavedGrow
  <2> QED BY <1>0, <1>2, <2>1, <2>2 DEF AuthorityShapes
<1>7. \A q \in TaskRun : UnderRoot(q)'
  BY <1>2 DEF UnderRoot, AuthorityInv
<1>8. \A q \in TaskRun : CallTrue(q)' /\ LooksTrue(q)'
  BY <1>2, <1>5, <1>6, Untouched
<1> QED BY <1>6, <1>7, <1>8 DEF AuthorityInv

\* Another program changes the target, or nothing happens.
LEMMA TargetKeeps ==
    ASSUME AuthorityInv, target' \in Nat, UNCHANGED <<saved, task, op, ask, caller>>
    PROVE  AuthorityInv'
<1>1. SavedGrow /\ AuthorityShapes'
  BY DEF SavedGrow, AuthorityInv, AuthorityShapes
<1>2. \A q \in TaskRun : UnderRoot(q)'
  BY DEF UnderRoot, AuthorityInv
<1>3. \A q \in TaskRun : CallTrue(q)' /\ LooksTrue(q)'
  BY <1>1, Untouched
<1> QED BY <1>1, <1>2, <1>3 DEF AuthorityInv

\* Every step of PolicyEngine, Scheduler.delegate and ToolGateway.execute.
LEMMA AuthorityKept == AuthorityInv /\ [AuthorityNext]_tvars => AuthorityInv'
<1> SUFFICES ASSUME AuthorityInv, [AuthorityNext]_tvars PROVE AuthorityInv'
  OBVIOUS
<1>1. CASE UNCHANGED tvars
  BY <1>1, TargetKeeps DEF tvars, AuthorityInv, AuthorityShapes
<1>2. CASE TargetChanges
  BY <1>2, TargetKeeps DEF TargetChanges, AuthorityInv, AuthorityShapes
<1>3. ASSUME NEW r \in TaskRun,
             \/ \E plan \in BOOLEAN : SubmitTask(r, plan)
             \/ \E c \in TaskRun : GrantChild(r, c)
             \/ GatewayStep(r) \/ Answer(r) \/ AskExpires(r) \/ CancelTask(r)
      PROVE AuthorityInv'
  BY <1>3, SubmitKeeps, GrantKeeps, GatewayKeeps, AnswerKeeps, CancelKeeps
<1> QED BY <1>1, <1>2, <1>3, SaveKeeps DEF AuthorityNext

\* PolicyEngine.effective, Scheduler.delegate, ToolGateway.execute: for every set of runs, tools,
\* layers and bounds, a tool starts only as the policies bound to it and the user allowed, and
\* never beyond the snapshot of the root of its tree.
THEOREM AuthorityHolds == AuthoritySpec => [](AuthorityTypeOK /\ AuthorizedStart /\ WithinRoot)
<1>1. AuthoritySpec => []AuthorityInv
  BY AuthorityStarts, AuthorityKept, PTL DEF AuthoritySpec
<1> QED BY <1>1, AuthorityPromise, PTL

------------------------------------------------------------------------------
(* Files *)

\* Where a call of a file tool is, its row, and what its worker has read.
Point == {"none", "prepared", "started", "patched", "opened", "hashed", "intended",
          "checked", "saving", "dead", "over"}
CallState == {"none", "prepared", "running", "succeeded", "failed", "unknown", "cancelled"}
SeenRow == [at : {"none", "text", "read"}, text : SUBSET EditId, hash : SUBSET EditId]
CallRow == [at : Point, state : CallState, print : Nat, text : SUBSET EditId,
            before : SUBSET EditId, intent : BOOLEAN, artifact : BOOLEAN]

\* Before the replacement, between it and the result, and after.
Early == {"none", "prepared", "started", "patched", "opened", "hashed", "intended", "checked"}
\* A call whose row is running.
Working == {"started", "patched", "opened", "hashed", "intended", "checked", "saving", "dead"}

\* The file, the calls and their rows keep their shapes; every replacement has a stamp of its own.
FilesShapes ==
    /\ file \subseteq EditId /\ seen \in [WriteCall -> SeenRow] /\ call \in [WriteCall -> CallRow]
    /\ resourceLock \in WriteCall \cup {NoCall} /\ replaced \subseteq WriteCall
    /\ dropped \in [WriteCall -> SUBSET EditId] /\ raced \in [WriteCall -> SUBSET EditId]
    /\ otherSaves \in 0 .. MaxFileSaves /\ stamp = otherSaves + Cardinality(replaced)

\* An edit of a call is in the file, or in what anybody read of it, once the call replaced it.
EditsReal ==
    /\ file \cap WriteCall \subseteq replaced
    /\ \A c \in WriteCall : (seen[c].text \cup call[c].text) \cap WriteCall \subseteq replaced

\* What the text a call goes by lacks of the file, as last compared, was saved between two looks.
LooksCovered(c) ==
    /\ seen[c].at = "text" => file \ seen[c].text \subseteq raced[c]
    /\ seen[c].at = "read" => seen[c].hash \ seen[c].text \subseteq raced[c]
    /\ call[c].at = "opened" => call[c].text = seen[c].text
    /\ call[c].at /= "none" => seen[c].at = "read"
    /\ call[c].at \in {"hashed", "intended"} => call[c].before \ call[c].text \subseteq raced[c]
    /\ call[c].at \in {"patched", "checked"} => file \ call[c].text \subseteq raced[c]
    /\ dropped[c] \subseteq raced[c]

\* Where a call is says whether it replaced the file and what the ledger has of it.
PointTrue(c) ==
    /\ call[c].at \in Early => c \notin replaced
    /\ call[c].at = "saving" => c \in replaced
    /\ call[c].at \in Working <=> call[c].state = "running"
    /\ call[c].state = "succeeded" => c \in replaced
    /\ call[c].state \in {"failed", "cancelled"} => c \notin replaced \/ ~call[c].artifact

\* The inductive invariant of the files.
FilesInv ==
    /\ FilesShapes /\ EditsReal
    /\ \A c \in WriteCall : LooksCovered(c) /\ PointTrue(c)

\* The invariant makes no edit lost and every outcome true.
LEMMA FilesPromise == FilesInv => FilesTypeOK /\ NoEditLost /\ WriteOutcomeTrue
<1> SUFFICES ASSUME FilesInv PROVE FilesTypeOK /\ NoEditLost /\ WriteOutcomeTrue
  OBVIOUS
<1>1. stamp \in 0 .. MaxFileSaves + Cardinality(WriteCall)
  <2>1. Cardinality(replaced) \in Nat /\ Cardinality(WriteCall) \in Nat
        /\ Cardinality(replaced) <= Cardinality(WriteCall)
    BY FilesAssumption, FS_Subset, FS_CardinalityType DEF FilesInv, FilesShapes
  <2> QED
    BY <2>1, FilesAssumption DEF FilesInv, FilesShapes
<1>2. FilesTypeOK
  BY <1>1 DEF FilesTypeOK, FilesInv, FilesShapes, SeenRow, CallRow, Point, CallState
<1>3. NoEditLost /\ WriteOutcomeTrue
  BY DEF NoEditLost, WriteOutcomeTrue, FilesInv, LooksCovered, PointTrue
<1> QED
  BY <1>2, <1>3

\* An untouched file and no call.
LEMMA FilesStart == FilesInit => FilesInv
<1> SUFFICES ASSUME FilesInit PROVE FilesInv
  OBVIOUS
<1>1. NotRead \in SeenRow /\ NotCalled \in CallRow
  BY DEF NotRead, NotCalled, SeenRow, CallRow, Point, CallState
<1>2. FilesShapes
  BY <1>1, FS_EmptySet, FilesAssumption DEF FilesInit, FilesShapes
<1>3. EditsReal /\ \A c \in WriteCall : LooksCovered(c) /\ PointTrue(c)
  BY DEF FilesInit, EditsReal, LooksCovered, PointTrue, NotRead, NotCalled, Early, Working
<1> QED
  BY <1>2, <1>3 DEF FilesInv

\* A step of one call that leaves the file alone.
LEMMA CallStep ==
    ASSUME FilesInv, NEW c \in WriteCall, UNCHANGED <<file, stamp, replaced, dropped, raced, otherSaves>>,
           NEW s \in SeenRow, NEW o \in CallRow,
           seen' = [seen EXCEPT ![c] = s], call' = [call EXCEPT ![c] = o],
           resourceLock' \in WriteCall \cup {NoCall},
           (s.text \cup o.text) \cap WriteCall \subseteq replaced,
           LooksCovered(c)', PointTrue(c)'
    PROVE  FilesInv'
<1>1. /\ seen' \in [WriteCall -> SeenRow] /\ call' \in [WriteCall -> CallRow]
      /\ seen'[c] = s /\ call'[c] = o
      /\ \A d \in WriteCall : d /= c => seen'[d] = seen[d] /\ call'[d] = call[d]
  BY DEF FilesInv, FilesShapes
<1>2. FilesShapes'
  BY <1>1 DEF FilesInv, FilesShapes
<1>3. EditsReal'
  <2>1. ASSUME NEW d \in WriteCall  PROVE (seen'[d].text \cup call'[d].text) \cap WriteCall \subseteq replaced
    BY <1>1 DEF FilesInv, EditsReal
  <2> QED
    BY <2>1 DEF FilesInv, EditsReal
<1>4. ASSUME NEW d \in WriteCall  PROVE LooksCovered(d)' /\ PointTrue(d)'
  <2>1. CASE d = c
    BY <2>1
  <2>2. CASE d /= c
    BY <1>1, <2>2 DEF FilesInv, LooksCovered, PointTrue
  <2> QED
    BY <2>1, <2>2
<1> QED
  BY <1>2, <1>3, <1>4 DEF FilesInv

\* Looks, refusals and results.
LEMMA LooksKeep ==
    ASSUME FilesInv, NEW c \in WriteCall,
           \/ ReadText(c) \/ ReadHash(c) \/ Prepare(c) \/ LockBusy(c) \/ BindingChanged(c) \/ Starts(c)
           \/ PatchFails(c) \/ PatchReads(c) \/ Conflicts(c) \/ FirstLook(c) \/ RecordsIntent(c)
           \/ SecondLook(c) \/ Finishes(c) \/ WriterDies(c) \/ Recovers(c)
    PROVE  FilesInv'
<1>1. /\ file \subseteq EditId /\ seen \in [WriteCall -> SeenRow] /\ call \in [WriteCall -> CallRow]
      /\ seen[c] \in SeenRow /\ call[c] \in CallRow /\ stamp \in Nat
      /\ resourceLock \in WriteCall \cup {NoCall}
      /\ file \cap WriteCall \subseteq replaced
      /\ (seen[c].text \cup call[c].text) \cap WriteCall \subseteq replaced
      /\ LooksCovered(c) /\ PointTrue(c)
  <2>1. stamp \in Nat
    BY FilesPromise, FS_CardinalityType, FilesAssumption DEF FilesTypeOK
  <2> QED
    BY <2>1 DEF FilesInv, FilesShapes, EditsReal
<1>2. UNCHANGED <<file, stamp, replaced, dropped, raced, otherSaves>>
  BY DEF ReadText, ReadHash, Prepare, LockBusy, BindingChanged, Starts, PatchFails, PatchReads,
         Conflicts, FirstLook, RecordsIntent, SecondLook, Finishes, WriterDies, Recovers
<1>3. resourceLock' \in WriteCall \cup {NoCall}
  BY <1>1 DEF ReadText, ReadHash, Prepare, LockBusy, BindingChanged, Starts, PatchFails, PatchReads,
         Conflicts, FirstLook, RecordsIntent, SecondLook, Finishes, WriterDies, Recovers, Unlocks
<1>4. \E s \in SeenRow, o \in CallRow :
         /\ seen' = [seen EXCEPT ![c] = s] /\ call' = [call EXCEPT ![c] = o]
         /\ (s.text \cup o.text) \cap WriteCall \subseteq replaced
  <2>1. CASE ReadText(c)
    <3> DEFINE s == [at |-> "text", text |-> file, hash |-> {}]
    <3>1. seen' = [seen EXCEPT ![c] = s] /\ call' = [call EXCEPT ![c] = call[c]] /\ s \in SeenRow
      BY <1>1, <2>1 DEF ReadText, SeenRow
    <3> QED
      BY <1>1, <3>1
  <2>2. CASE ReadHash(c)
    <3> DEFINE s == [seen[c] EXCEPT !.at = "read", !.hash = file]
    <3>1. seen' = [seen EXCEPT ![c] = s] /\ call' = [call EXCEPT ![c] = call[c]] /\ s \in SeenRow /\ s.text = seen[c].text
      BY <1>1, <2>2 DEF ReadHash, SeenRow
    <3> QED
      BY <1>1, <3>1
  <2>3. CASE PatchReads(c)
    <3> DEFINE o == [call[c] EXCEPT !.at = "patched", !.text = file]
    <3>1. seen' = [seen EXCEPT ![c] = seen[c]] /\ call' = [call EXCEPT ![c] = o] /\ o \in CallRow /\ o.text = file
      BY <1>1, <2>3 DEF PatchReads, CallRow, Point
    <3> QED
      BY <1>1, <3>1
  <2>4. CASE Starts(c)
    <3> DEFINE o == [call[c] EXCEPT !.at = IF c \in PatchCall THEN "started" ELSE "opened",
                                    !.state = "running", !.text = seen[c].text]
    <3>1. seen' = [seen EXCEPT ![c] = seen[c]] /\ call' = [call EXCEPT ![c] = o] /\ o \in CallRow
          /\ o.text = seen[c].text
      BY <1>1, <2>4 DEF Starts, CallRow, SeenRow, Point, CallState
    <3> QED
      BY <1>1, <3>1
  <2>5. CASE ~ReadText(c) /\ ~ReadHash(c) /\ ~PatchReads(c) /\ ~Starts(c)
    <3>1. \E o \in CallRow : call' = [call EXCEPT ![c] = o] /\ o.text = call[c].text
      <4>1. CASE Prepare(c)
        <5> DEFINE o == [call[c] EXCEPT !.at = "prepared", !.state = "prepared", !.print = stamp]
        <5>1. o \in CallRow /\ o.text = call[c].text /\ call' = [call EXCEPT ![c] = o]
          BY <1>1, <4>1 DEF Prepare, CallRow, Point, CallState
        <5> QED
          BY <5>1
      <4>2. CASE LockBusy(c)
        <5> DEFINE o == [call[c] EXCEPT !.at = "over", !.state = "cancelled"]
        <5>1. o \in CallRow /\ o.text = call[c].text /\ call' = [call EXCEPT ![c] = o]
          BY <1>1, <4>2 DEF LockBusy, CallRow, Point, CallState
        <5> QED
          BY <5>1
      <4>3. CASE BindingChanged(c) \/ PatchFails(c) \/ Conflicts(c)
        <5> DEFINE o == [call[c] EXCEPT !.at = "over", !.state = "failed"]
        <5>1. o \in CallRow /\ o.text = call[c].text /\ call' = [call EXCEPT ![c] = o]
          BY <1>1, <4>3 DEF BindingChanged, PatchFails, Conflicts, Fails, CallRow, Point, CallState
        <5> QED
          BY <5>1
      <4>4. CASE FirstLook(c)
        <5> DEFINE o == [call[c] EXCEPT !.at = "hashed", !.before = file]
        <5>1. o \in CallRow /\ o.text = call[c].text /\ call' = [call EXCEPT ![c] = o]
          BY <1>1, <4>4 DEF FirstLook, CallRow, Point
        <5> QED
          BY <5>1
      <4>5. CASE RecordsIntent(c)
        <5> DEFINE o == [call[c] EXCEPT !.at = "intended", !.intent = TRUE]
        <5>1. o \in CallRow /\ o.text = call[c].text /\ call' = [call EXCEPT ![c] = o]
          BY <1>1, <4>5 DEF RecordsIntent, CallRow, Point
        <5> QED
          BY <5>1
      <4>6. CASE SecondLook(c)
        <5> DEFINE o == [call[c] EXCEPT !.at = "checked"]
        <5>1. o \in CallRow /\ o.text = call[c].text /\ call' = [call EXCEPT ![c] = o]
          BY <1>1, <4>6 DEF SecondLook, CallRow, Point
        <5> QED
          BY <5>1
      <4>7. CASE WriterDies(c)
        <5> DEFINE o == [call[c] EXCEPT !.at = "dead"]
        <5>1. o \in CallRow /\ o.text = call[c].text /\ call' = [call EXCEPT ![c] = o]
          BY <1>1, <4>7 DEF WriterDies, CallRow, Point
        <5> QED
          BY <5>1
      <4>8. ASSUME Finishes(c) \/ Recovers(c)
            PROVE  \E o \in CallRow : call' = [call EXCEPT ![c] = o] /\ o.text = call[c].text
        <5>1. \E state \in CallState, artifact \in BOOLEAN :
                 call' = [call EXCEPT ![c] = [call[c] EXCEPT !.at = "over", !.state = state, !.artifact = artifact]]
          <6>1. call[c].artifact \in BOOLEAN /\ {"succeeded", "failed", "unknown"} \subseteq CallState
            BY <1>1 DEF CallRow, CallState
          <6> DEFINE Outcome(state, artifact) ==
                        [call[c] EXCEPT !.at = "over", !.state = state, !.artifact = artifact]
          <6>2. ASSUME NEW state \in CallState, call' = [call EXCEPT ![c].at = "over", ![c].state = state]
                PROVE  call' = [call EXCEPT ![c] = Outcome(state, call[c].artifact)]
            BY <1>1, <6>2 DEF CallRow
          <6>3. ASSUME call' = [call EXCEPT ![c].at = "over", ![c].state = "failed", ![c].artifact = FALSE]
                PROVE  call' = [call EXCEPT ![c] = Outcome("failed", FALSE)]
            BY <1>1, <6>3 DEF CallRow
          <6>4. \/ \E state \in CallState : call' = [call EXCEPT ![c].at = "over", ![c].state = state]
                \/ call' = [call EXCEPT ![c].at = "over", ![c].state = "failed", ![c].artifact = FALSE]
            BY <4>8, <6>1 DEF Finishes, Recovers
          <6> HIDE DEF Outcome
          <6>5. \E state \in CallState, artifact \in BOOLEAN : call' = [call EXCEPT ![c] = Outcome(state, artifact)]
            BY <6>1, <6>2, <6>3, <6>4
          <6> QED
            BY <6>5 DEF Outcome
        <5>2. PICK state \in CallState, artifact \in BOOLEAN :
                 call' = [call EXCEPT ![c] = [call[c] EXCEPT !.at = "over", !.state = state, !.artifact = artifact]]
          BY <5>1
        <5> DEFINE o == [call[c] EXCEPT !.at = "over", !.state = state, !.artifact = artifact]
        <5>3. o \in CallRow /\ o.text = call[c].text
          BY <1>1 DEF CallRow, Point
        <5> QED
          BY <5>2, <5>3
      <4> QED
        BY <2>5, <4>1, <4>2, <4>3, <4>4, <4>5, <4>6, <4>7, <4>8
    <3>2. seen' = [seen EXCEPT ![c] = seen[c]]
      BY <1>1, <2>5 DEF Prepare, LockBusy, BindingChanged, PatchFails, Conflicts, FirstLook,
                        RecordsIntent, SecondLook, Finishes, WriterDies, Recovers
    <3> QED
      BY <1>1, <3>1, <3>2
  <2> QED
    BY <2>1, <2>2, <2>3, <2>4, <2>5
<1>5. LooksCovered(c)'
  <2> USE <1>1, <1>2
  <2>1. CASE ReadText(c) \/ ReadHash(c)
    BY <2>1 DEF LooksCovered, ReadText, ReadHash, SeenRow
  <2>2. CASE Prepare(c) \/ LockBusy(c) \/ Starts(c)
    BY <2>2 DEF LooksCovered, Prepare, LockBusy, Starts, WriterAt, SeenRow, CallRow
  <2>3. CASE BindingChanged(c) \/ PatchFails(c) \/ Conflicts(c)
    <3>1. /\ call' = [call EXCEPT ![c] = Fails(c)] /\ seen' = seen /\ call[c].at /= "none"
      BY <2>3 DEF BindingChanged, PatchFails, Conflicts, WriterAt
    <3>2. call'[c].at = "over"
      BY <3>1 DEF Fails, CallRow
    <3> QED
      BY <3>1, <3>2 DEF LooksCovered
  <2>8. CASE PatchReads(c)
    BY <2>8 DEF LooksCovered, PatchReads, WriterAt, CallRow
  <2>4. CASE FirstLook(c)
    BY <2>4 DEF LooksCovered, FirstLook, WriterAt, CallRow
  <2>5. CASE RecordsIntent(c) \/ SecondLook(c)
    BY <2>5 DEF LooksCovered, RecordsIntent, SecondLook, WriterAt, CallRow
  <2>6. CASE Finishes(c)
    BY <2>6 DEF LooksCovered, Finishes, WriterAt, CallRow
  <2>7. CASE WriterDies(c) \/ Recovers(c)
    <3>1. call[c].at /= "none"
      BY <2>7 DEF PointTrue, WriterDies, Recovers, WriterAt, Working
    <3> QED
      BY <2>7, <3>1 DEF LooksCovered, WriterDies, Recovers, WriterAt, CallRow
  <2> QED
    BY <2>1, <2>2, <2>3, <2>4, <2>5, <2>6, <2>7, <2>8
<1>6. PointTrue(c)'
  <2> USE <1>1, <1>2 DEF PointTrue, Early, Working, CallRow
  <2>1. CASE ReadText(c) \/ ReadHash(c)
    BY <2>1 DEF ReadText, ReadHash
  <2>2. CASE Prepare(c) \/ LockBusy(c) \/ Starts(c)
    BY <2>2 DEF Prepare, LockBusy, Starts, WriterAt
  <2>3. CASE BindingChanged(c) \/ PatchFails(c) \/ Conflicts(c)
    <3>1. /\ call' = [call EXCEPT ![c] = Fails(c)] /\ call[c].at \in Early
      BY <2>3 DEF BindingChanged, PatchFails, Conflicts, WriterAt
    <3>2. call'[c].at = "over" /\ call'[c].state = "failed"
      BY <3>1 DEF Fails
    <3> QED
      BY <3>1, <3>2
  <2>8. CASE PatchReads(c)
    BY <2>8 DEF PatchReads, WriterAt
  <2>4. CASE FirstLook(c) \/ RecordsIntent(c) \/ SecondLook(c)
    BY <2>4 DEF FirstLook, RecordsIntent, SecondLook, WriterAt
  <2>5. CASE Finishes(c)
    BY <2>5 DEF Finishes, WriterAt
  <2>6. CASE WriterDies(c)
    BY <2>6 DEF WriterDies
  <2>7. CASE Recovers(c)
    <3>1. file = After(c) => c \in replaced
      BY DEF After
    <3> QED
      BY <2>7, <3>1 DEF Recovers, WriterAt
  <2> QED
    BY <2>1, <2>2, <2>3, <2>4, <2>5, <2>6, <2>7, <2>8
<1> QED
  BY <1>2, <1>3, <1>4, <1>5, <1>6, CallStep

\* The file changes: what a look lacks of it is added to what raced with that look.
LEMMA SavesKeep == FilesInv /\ OtherSaves => FilesInv'
<1> SUFFICES ASSUME FilesInv, OtherSaves PROVE FilesInv'
  OBVIOUS
<1>1. PICK e \in OtherEdit : file' = IF e \in file THEN file \ {e} ELSE file \cup {e}
  BY DEF OtherSaves
<1>2. /\ stamp' = stamp + 1 /\ otherSaves' = otherSaves + 1 /\ otherSaves < MaxFileSaves
      /\ raced' = [c \in WriteCall |->
                    IF c \in BetweenLooks THEN raced[c] \cup (file' \ file) ELSE raced[c]]
      /\ UNCHANGED <<seen, call, resourceLock, replaced, dropped>>
  BY DEF OtherSaves
<1>3. file' \subseteq EditId /\ file' \cap WriteCall = file \cap WriteCall
  BY <1>1, FilesAssumption DEF FilesInv, FilesShapes, EditId
<1>4. FilesShapes'
  <2>1. raced' \in [WriteCall -> SUBSET EditId]
    BY <1>2, <1>3 DEF FilesInv, FilesShapes
  <2>2. Cardinality(replaced) \in Nat
    BY FilesAssumption, FS_Subset, FS_CardinalityType DEF FilesInv, FilesShapes
  <2> QED
    BY <1>2, <1>3, <2>1, <2>2, FilesAssumption DEF FilesInv, FilesShapes
<1>5. EditsReal'
  BY <1>2, <1>3 DEF FilesInv, EditsReal
<1>6. ASSUME NEW c \in WriteCall  PROVE LooksCovered(c)' /\ PointTrue(c)'
  <2>1. LooksCovered(c) /\ PointTrue(c)
    BY DEF FilesInv
  <2>2. raced'[c] = (IF c \in BetweenLooks THEN raced[c] \cup (file' \ file) ELSE raced[c])
    BY <1>2
  <2>3. (seen[c].at = "text" \/ call[c].at \in {"patched", "checked"}) => c \in BetweenLooks
    BY DEF BetweenLooks
  <2> QED
    BY <1>2, <2>1, <2>2, <2>3 DEF LooksCovered, PointTrue
<1> QED
  BY <1>4, <1>5, <1>6 DEF FilesInv

\* os.replace: the file becomes what the call wrote, and only an edit saved after its check is lost.
LEMMA ReplaceKeeps == ASSUME FilesInv, NEW c \in WriteCall, Replaces(c) PROVE FilesInv'
<1>1. /\ call[c].at = "checked" /\ file' = After(c) /\ stamp' = stamp + 1
      /\ replaced' = replaced \cup {c} /\ dropped' = [dropped EXCEPT ![c] = file \ After(c)]
      /\ raced' = [d \in WriteCall |-> IF d /= c /\ d \in BetweenLooks
                                     THEN raced[d] \cup (After(c) \ file) ELSE raced[d]]
      /\ call' = [call EXCEPT ![c] = [call[c] EXCEPT !.at = "saving"]]
      /\ UNCHANGED <<seen, resourceLock, otherSaves>>
  BY DEF Replaces, WriterAt
<1>2. /\ call[c] \in CallRow /\ call \in [WriteCall -> CallRow] /\ seen \in [WriteCall -> SeenRow]
      /\ LooksCovered(c) /\ PointTrue(c) /\ dropped \in [WriteCall -> SUBSET EditId]
      /\ call[c].text \subseteq EditId
  BY DEF FilesInv, FilesShapes, CallRow
<1>3. [call[c] EXCEPT !.at = "saving"] \in CallRow /\ [call[c] EXCEPT !.at = "saving"].text = call[c].text
      /\ [call[c] EXCEPT !.at = "saving"].at = "saving" /\ [call[c] EXCEPT !.at = "saving"].state = call[c].state
  BY <1>2 DEF CallRow, Point
<1>4. /\ call' \in [WriteCall -> CallRow] /\ call'[c].at = "saving" /\ call'[c].text = call[c].text
      /\ call'[c].state = call[c].state
      /\ \A d \in WriteCall : d /= c => call'[d] = call[d] /\ dropped'[d] = dropped[d]
  BY <1>1, <1>2, <1>3
<1>5. After(c) \subseteq EditId /\ file \subseteq EditId /\ c \in EditId
  BY <1>2 DEF After, EditId, FilesInv, FilesShapes
<1>6. FilesShapes'
  <2>1. c \notin replaced /\ IsFiniteSet(replaced)
    BY <1>1, <1>2, FilesAssumption, FS_Subset DEF PointTrue, Early, FilesInv, FilesShapes
  <2>2. Cardinality(replaced') = Cardinality(replaced) + 1 /\ Cardinality(replaced) \in Nat
    BY <1>1, <2>1, FS_AddElement, FS_CardinalityType
  <2>3. stamp' = otherSaves' + Cardinality(replaced')
    BY <1>1, <2>2 DEF FilesInv, FilesShapes
  <2>4. raced' \in [WriteCall -> SUBSET EditId]
    BY <1>1, <1>5 DEF FilesInv, FilesShapes
  <2>5. dropped' \in [WriteCall -> SUBSET EditId]
    BY <1>1, <1>2, <1>5
  <2> QED
    BY <1>1, <1>4, <1>5, <2>3, <2>4, <2>5 DEF FilesInv, FilesShapes
<1>7. EditsReal'
  <2>1. \A d \in WriteCall : (seen[d].text \cup call[d].text) \cap WriteCall \subseteq replaced
    BY DEF FilesInv, EditsReal
  <2>2. file' \cap WriteCall \subseteq replaced'
    BY <1>1, <2>1 DEF After
  <2>3. ASSUME NEW d \in WriteCall  PROVE (seen'[d].text \cup call'[d].text) \cap WriteCall \subseteq replaced'
    <3>1. call'[d].text = call[d].text
      BY <1>4
    <3> QED
      BY <1>1, <2>1, <3>1
  <2> QED
    BY <2>2, <2>3 DEF EditsReal
<1>8. ASSUME NEW d \in WriteCall  PROVE LooksCovered(d)' /\ PointTrue(d)'
  <2>1. LooksCovered(d) /\ PointTrue(d)
    BY DEF FilesInv
  <2>2. CASE d = c
    <3>1. raced'[c] = raced[c] /\ dropped'[c] = file \ After(c) /\ file \ After(c) \subseteq raced[c]
          /\ seen[c].at = "read"
      BY <1>1, <1>2 DEF LooksCovered, After
    <3>2. LooksCovered(c)'
      BY <1>1, <1>2, <1>4, <3>1 DEF LooksCovered
    <3>3. PointTrue(c)'
      BY <1>1, <1>2, <1>4 DEF PointTrue, Early, Working
    <3> QED
      BY <2>2, <3>2, <3>3
  <2>3. CASE d /= c
    <3>1. raced'[d] = (IF d \in BetweenLooks THEN raced[d] \cup (file' \ file) ELSE raced[d])
      BY <1>1, <2>3
    <3>2. (seen[d].at = "text" \/ call[d].at \in {"patched", "checked"}) => d \in BetweenLooks
      BY DEF BetweenLooks
    <3>3. LooksCovered(d)'
      BY <1>1, <1>4, <2>1, <2>3, <3>1, <3>2 DEF LooksCovered
    <3>4. PointTrue(d)'
      BY <1>1, <1>4, <2>1, <2>3 DEF PointTrue
    <3> QED
      BY <3>3, <3>4
  <2> QED
    BY <2>2, <2>3
<1> QED
  BY <1>6, <1>7, <1>8 DEF FilesInv

\* Every step of calls, other editors, deaths and recovery keeps it.
LEMMA FilesKept == FilesInv /\ [FilesNext]_fvars => FilesInv'
<1> SUFFICES ASSUME FilesInv, [FilesNext]_fvars PROVE FilesInv'
  OBVIOUS
<1>1. CASE UNCHANGED fvars
  BY <1>1 DEF fvars, FilesInv, FilesShapes, EditsReal, LooksCovered, PointTrue, BetweenLooks
<1>2. CASE OtherSaves
  BY <1>2, SavesKeep
<1>3. ASSUME NEW c \in WriteCall, Replaces(c)  PROVE FilesInv'
  BY <1>3, ReplaceKeeps
<1>4. CASE \E c \in WriteCall :
           \/ ReadText(c) \/ ReadHash(c) \/ Prepare(c) \/ LockBusy(c) \/ BindingChanged(c) \/ Starts(c)
           \/ PatchFails(c) \/ PatchReads(c) \/ Conflicts(c) \/ FirstLook(c) \/ RecordsIntent(c)
           \/ SecondLook(c) \/ Finishes(c) \/ WriterDies(c) \/ Recovers(c)
  BY <1>4, LooksKeep
<1> QED
  BY <1>1, <1>2, <1>3, <1>4 DEF FilesNext

\* BuiltinTools.write: no write takes an edit away that was saved before its check, and what the
\* ledger tells of a write is what became of the file.
THEOREM FilesHold == FilesSpec => [](FilesTypeOK /\ NoEditLost /\ WriteOutcomeTrue)
BY FilesStart, FilesKept, FilesPromise, PTL DEF FilesSpec
===============================================================================
