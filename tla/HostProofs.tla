------------------------------ MODULE HostProofs ------------------------------
(***************************************************************************)
(* What the host keeps around the runs, proved for any number of requests, *)
(* restarts, probes, saves, plugins and runs: the commands of its HTTP interface,*)
(* the plugin versions runs hold and the setup of a model; and, with tools and*)
(* instances, all of them in one composed specification.                   *)
(***************************************************************************)
EXTENDS MCHost, ToolProofs, InstanceLifecycleProofs, WellFoundedInduction

------------------------------------------------------------------------------
(* Commands *)

\* A row of the commands table.
RowType == [state : {"none", "pending", "ok", "failed"}, body : Body, by : Nat]
\* A request and where its handler is.
RequestType == [key : ApiKey, body : Body, at : {"new", "waiting", "working", "worked", "over"},
                answer : Outcome \cup {"none"}]

\* A request whose command has been begun and not been answered.
AtWork(q) == q.at \in {"working", "worked"}

\* A request at work holds the lock of its key and the pending row this process wrote for it,
\* and n, the times the work took effect, is what it did.
Owns(q, row, n, locks) ==
    /\ q.key \in AsyncKey \cap locks
    /\ row.state = "pending" /\ row.by = server
    /\ n = IF q.at = "worked" THEN 1 ELSE 0

\* A row tells whether the work took effect, except while it is pending.
RowTrue(row, n) ==
    /\ n \in {0, 1} /\ row.by <= server
    /\ row.state = "none" => n = 0
    /\ row.state = "ok" => n = 1

\* What a request was told is what the row of its key says now.
AnswerTrue(q, row) ==
    /\ q.answer = "ok" => row.state = "ok"
    /\ q.answer = "interrupted" => row.state = "pending" /\ row.by < server
    /\ q.answer = "failed" /\ q.key \in AsyncKey => row.state = "failed"

\* Requests at work on one key.
Alone(r, o) == AtWork(req[r]) /\ AtWork(req[o]) /\ req[r].key = req[o].key => r = o

\* What makes CommandsExact inductive.
CommandInv ==
    /\ ApiTypeOK
    /\ \A r \in Request :
          /\ AtWork(req[r]) => Owns(req[r], apiRows[req[r].key], worked[req[r].key], locked)
          /\ AnswerTrue(req[r], apiRows[req[r].key])
    /\ \A r, o \in Request : Alone(r, o)
    /\ \A k \in ApiKey : RowTrue(apiRows[k], worked[k])

\* It says what both parts of CommandsExact do.
LEMMA InvExact == CommandInv => CommandsExact
<1> SUFFICES ASSUME CommandInv  PROVE OncePerKey /\ AnswersTrue
  BY DEF CommandsExact
<1> USE DEF CommandInv, ApiTypeOK
<1>1. OncePerKey
  BY DEF OncePerKey, RowTrue
<1>2. ASSUME NEW r \in Request, NEW o \in Request, req[r].answer = "interrupted", req[o].key = req[r].key
      PROVE  ~AtWork(req[o])
  BY <1>2 DEF AnswerTrue, Owns
<1>3. AnswersTrue
  BY <1>2 DEF AnswersTrue, AnswerTrue, RowTrue, AtWork
<1> QED
  BY <1>1, <1>3

\* One request becomes q, and the row of its key becomes row.  If the row changes, no other
\* request is at work on the key, and what others were told of it stays true.
LEMMA OneRequest ==
    ASSUME CommandInv, NEW r \in Request, NEW q \in RequestType, NEW row \in RowType, NEW n \in Nat,
           req' = [req EXCEPT ![r] = q], apiRows' = [apiRows EXCEPT ![q.key] = row],
           worked' = [worked EXCEPT ![q.key] = n], UNCHANGED <<server, apiPaused>>,
           locked' \subseteq AsyncKey, locked \ {q.key} \subseteq locked',
           \/ \A o \in Request \ {r} : AtWork(req[o]) => req[o].key /= q.key
           \/ row = apiRows[q.key] /\ n = worked[q.key] /\ ~AtWork(q) /\ locked' = locked,
           \A o \in Request \ {r} : req[o].key = q.key => AnswerTrue(req[o], row),
           AtWork(q) => Owns(q, row, n, locked'), AnswerTrue(q, row), RowTrue(row, n)
    PROVE  CommandInv'
<1> USE DEF CommandInv
<1>1. ApiTypeOK'
  BY DEF ApiTypeOK, RowType, RequestType
<1>2. ASSUME NEW o \in Request
      PROVE  /\ (AtWork(req[o]) => Owns(req[o], apiRows[req[o].key], worked[req[o].key], locked))'
             /\ AnswerTrue(req[o], apiRows[req[o].key])'
  <2>1. CASE o = r
    BY <2>1 DEF ApiTypeOK, AtWork, Owns, AnswerTrue, RequestType
  <2>2. CASE o /= r
    <3>1. req'[o] = req[o]
      BY <2>2
    <3>2. CASE req[o].key = q.key
      BY <2>2, <3>1, <3>2 DEF ApiTypeOK, AtWork, Owns, AnswerTrue, RequestType
    <3>3. CASE req[o].key /= q.key
      BY <2>2, <3>1, <3>3 DEF ApiTypeOK, AtWork, Owns, AnswerTrue, RequestType
    <3> QED
      BY <3>2, <3>3
  <2> QED
    BY <2>1, <2>2
<1>3. ASSUME NEW u \in Request, NEW o \in Request  PROVE Alone(u, o)'
  BY DEF ApiTypeOK, Alone, AtWork
<1>4. ASSUME NEW k \in ApiKey  PROVE RowTrue(apiRows[k], worked[k])'
  BY DEF ApiTypeOK, RowTrue, RequestType
<1> QED
  BY <1>1, <1>2, <1>3, <1>4

\* A request that changes no row, and is not at work.
LEMMA OnlyAnswers ==
    ASSUME CommandInv, NEW r \in Request, NEW q \in RequestType, ~AtWork(q),
           req' = [req EXCEPT ![r] = q], UNCHANGED <<apiRows, locked, worked, server, apiPaused>>,
           AnswerTrue(q, apiRows[q.key])
    PROVE  CommandInv'
<1>1. apiRows[q.key] \in RowType /\ worked[q.key] \in Nat /\ q.key \in ApiKey
  BY DEF CommandInv, ApiTypeOK, RowType, RequestType
<1>2. /\ apiRows' = [apiRows EXCEPT ![q.key] = apiRows[q.key]]
      /\ worked' = [worked EXCEPT ![q.key] = worked[q.key]]
  BY DEF CommandInv, ApiTypeOK
<1>3. locked' \subseteq AsyncKey
  BY DEF CommandInv, ApiTypeOK
<1>4. RowTrue(apiRows[q.key], worked[q.key])
  BY <1>1 DEF CommandInv
<1>5. \A o \in Request \ {r} : req[o].key = q.key => AnswerTrue(req[o], apiRows[q.key])
  BY DEF CommandInv
<1> QED
  BY <1>1, <1>2, <1>3, <1>4, <1>5, OneRequest

\* Requests arrive, and are answered from what the row says.
LEMMA AnswersKeep ==
    ASSUME CommandInv, NEW r \in Request,
           \/ \E k \in ApiKey, b \in Body : Sent(r, k, b)
           \/ AnsweredFromRow(r) \/ RefusedInMaintenance(r)
    PROVE  CommandInv'
<1> DEFINE k == req[r].key
           Told(answer) == [req[r] EXCEPT !.at = "over", !.answer = answer]
<1>0. /\ k \in ApiKey /\ req[r] \in RequestType /\ apiRows[k] \in RowType
      /\ \A answer \in Outcome : Told(answer) \in RequestType /\ ~AtWork(Told(answer))
      /\ \A answer : Reply(r, answer) => req' = [req EXCEPT ![r] = Told(answer)]
      /\ \A answer : Told(answer).key = k /\ Told(answer).answer = answer
  BY DEF CommandInv, ApiTypeOK, RowType, RequestType, Reply, AtWork
<1>1. ASSUME NEW c \in ApiKey, NEW b \in Body, Sent(r, c, b)  PROVE CommandInv'
  <2> DEFINE q == [key |-> c, body |-> b, at |-> "waiting", answer |-> "none"]
  <2>1. q \in RequestType /\ ~AtWork(q) /\ AnswerTrue(q, apiRows[q.key])
    BY DEF RequestType, AtWork, AnswerTrue
  <2> QED
    BY <1>1, <2>1, OnlyAnswers DEF Sent
<1>2. CASE AnsweredFromRow(r)
  <2>1. Saved(r) \in Outcome
    BY <1>0, <1>2 DEF AnsweredFromRow, Saved, Row, RowType, Outcome
  <2>2. AnswerTrue(Told(Saved(r)), apiRows[k])
    <3>1. /\ Saved(r) = "ok" => apiRows[k].state = "ok"
          /\ Saved(r) = "interrupted" => apiRows[k].state = "pending" /\ apiRows[k].by /= server
          /\ Saved(r) = "failed" => apiRows[k].state = "failed"
      BY <1>0, <1>2 DEF AnsweredFromRow, Saved, Row, RowType
    <3>2. apiRows[k].by <= server /\ apiRows[k].by \in Nat /\ server \in Nat
      <4>1. server \in Nat
        BY ApiAssumption DEF CommandInv, ApiTypeOK
      <4>2. apiRows[k].by \in Nat
        BY <1>0 DEF RowType
      <4>3. RowTrue(apiRows[k], worked[k])
        BY <1>0 DEF CommandInv
      <4> QED
        BY <4>1, <4>2, <4>3 DEF RowTrue
    <3> HIDE DEF Told
    <3> QED
      BY <1>0, <3>1, <3>2 DEF AnswerTrue
  <2> QED
    BY <1>0, <1>2, <2>1, <2>2, OnlyAnswers DEF AnsweredFromRow
<1>3. CASE RefusedInMaintenance(r)
  <2>1. AnswerTrue(Told("refused"), apiRows[k]) /\ "refused" \in Outcome
    <3> HIDE DEF Told
    <3> QED
      BY <1>0 DEF AnswerTrue, Outcome
  <2> QED
    BY <1>0, <1>3, <2>1, OnlyAnswers DEF RefusedInMaintenance
<1> QED
  BY <1>1, <1>2, <1>3

\* A command of one transaction, or the beginning of one that awaits, finds no row: nobody is
\* at work on its key, and nobody was told anything about it.
LEMMA BeginningKeeps ==
    ASSUME CommandInv, NEW r \in Request, RunsInTransaction(r) \/ BeginsAwaiting(r)
    PROVE  CommandInv'
<1> DEFINE k == req[r].key
           Row0(state) == [state |-> state, body |-> req[r].body, by |-> server]
           ok == [req[r] EXCEPT !.at = "over", !.answer = "ok"]
           failed == [req[r] EXCEPT !.at = "over", !.answer = "failed"]
           working == [req[r] EXCEPT !.at = "working"]
<1>1. /\ k \in ApiKey /\ apiRows[k].state = "none" /\ req[r].at = "waiting" /\ k \notin locked
      /\ req[r] \in RequestType /\ server \in Nat /\ worked[k] = 0 /\ locked \subseteq AsyncKey
  BY DEF CommandInv, ApiTypeOK, RowTrue, RequestType, RunsInTransaction, BeginsAwaiting, Fresh, Entering, Row
<1>2. \A o \in Request : req[o].key = k =>
          /\ ~AtWork(req[o]) /\ req[o].answer \notin {"ok", "interrupted"}
          /\ req[o].answer = "failed" => k \notin AsyncKey
  BY <1>1 DEF CommandInv, Owns, AnswerTrue
<1>3. \A state \in {"ok", "pending"} : Row0(state) \in RowType
  BY <1>1 DEF RowType, RequestType
<1>4. \A o \in Request, state \in {"ok", "pending"} : req[o].key = k => AnswerTrue(req[o], Row0(state))
  BY <1>2 DEF AnswerTrue
<1>5. CASE RunsInTransaction(r)
  <2>1. k \notin AsyncKey /\ UNCHANGED <<locked, server, apiPaused>>
    BY <1>5 DEF RunsInTransaction
  <2>2. CASE Put(r, "ok") /\ worked' = [worked EXCEPT ![k] = @ + 1] /\ Reply(r, "ok")
    <3>1. /\ ok \in RequestType /\ ok.key = k /\ ~AtWork(ok) /\ AnswerTrue(ok, Row0("ok"))
          /\ req' = [req EXCEPT ![r] = ok] /\ apiRows' = [apiRows EXCEPT ![k] = Row0("ok")]
          /\ RowTrue(Row0("ok"), 1) /\ worked' = [worked EXCEPT ![k] = 1]
      BY <1>1, <2>2 DEF RequestType, AtWork, Outcome, AnswerTrue, RowTrue, Put, Reply, CommandInv, ApiTypeOK
    <3> HIDE DEF ok, Row0, k
    <3>2. \A o \in Request \ {r} : AtWork(req[o]) => req[o].key /= ok.key
      BY <1>2, <3>1
    <3>3. \A o \in Request \ {r} : req[o].key = ok.key => AnswerTrue(req[o], Row0("ok"))
      BY <1>4, <3>1
    <3> QED
      BY <1>1, <1>3, <2>1, <3>1, <3>2, <3>3, OneRequest
  <2>3. CASE Reply(r, "failed") /\ UNCHANGED <<apiRows, worked>>
    <3>1. /\ failed \in RequestType /\ failed.key = k /\ ~AtWork(failed)
          /\ AnswerTrue(failed, apiRows[failed.key]) /\ req' = [req EXCEPT ![r] = failed]
      BY <1>1, <2>1, <2>3 DEF RequestType, AtWork, Outcome, AnswerTrue, Reply
    <3> QED
      BY <2>1, <2>3, <3>1, OnlyAnswers
  <2> QED
    BY <1>5, <2>2, <2>3 DEF RunsInTransaction
<1>6. CASE BeginsAwaiting(r)
  <2>1. /\ k \in AsyncKey /\ locked' = locked \cup {k} /\ UNCHANGED <<worked, server, apiPaused>>
        /\ apiRows' = [apiRows EXCEPT ![k] = Row0("pending")] /\ req' = [req EXCEPT ![r] = working]
    BY <1>6 DEF BeginsAwaiting, Put
  <2>2. /\ working \in RequestType /\ working.key = k /\ RowTrue(Row0("pending"), 0)
        /\ AnswerTrue(working, Row0("pending")) /\ worked' = [worked EXCEPT ![k] = 0]
        /\ Owns(working, Row0("pending"), 0, locked')
    BY <1>1, <1>4, <2>1 DEF RequestType, Owns, AnswerTrue, RowTrue, CommandInv, ApiTypeOK
  <2>3. locked' \subseteq AsyncKey /\ locked \ {working.key} \subseteq locked' /\ Row0("pending") \in RowType
    BY <1>1, <1>3, <2>1
  <2> HIDE DEF working, Row0, k
  <2>4. \A o \in Request \ {r} : AtWork(req[o]) => req[o].key /= working.key
    BY <1>2, <2>2
  <2>5. \A o \in Request \ {r} : req[o].key = working.key => AnswerTrue(req[o], Row0("pending"))
    BY <1>4, <2>2
  <2> QED
    BY <2>1, <2>2, <2>3, <2>4, <2>5, OneRequest
<1> QED
  BY <1>5, <1>6

\* The awaited work takes effect, is answered, or is cut; the row was this request's own.
LEMMA WorkKeeps ==
    ASSUME CommandInv, NEW r \in Request, TakesEffect(r) \/ Completes(r) \/ RequestCancelled(r)
    PROVE  CommandInv'
<1> DEFINE k == req[r].key
           row == apiRows[k]
           Row0(state) == [state |-> state, body |-> req[r].body, by |-> server]
           Over(answer) == [req[r] EXCEPT !.at = "over", !.answer = answer]
           effected == [req[r] EXCEPT !.at = "worked"]
<1>1. /\ AtWork(req[r]) /\ req[r] \in RequestType /\ row \in RowType /\ k \in ApiKey
      /\ k \in AsyncKey \cap locked /\ row.state = "pending" /\ row.by = server /\ server \in Nat
      /\ worked[k] = (IF req[r].at = "worked" THEN 1 ELSE 0)
  BY DEF CommandInv, ApiTypeOK, RequestType, RowType, AtWork, Owns, TakesEffect, Completes, RequestCancelled
<1>2. \A o \in Request \ {r} : AtWork(req[o]) => req[o].key /= k
  BY <1>1 DEF CommandInv, Alone
<1>3. \A o \in Request : req[o].key = k => req[o].answer \notin {"ok", "interrupted", "failed"}
  BY <1>1 DEF CommandInv, AnswerTrue, RowTrue
<1>4. \A o \in Request, state \in {"ok", "failed", "pending"} :
          req[o].key = k => AnswerTrue(req[o], Row0(state)) /\ AnswerTrue(req[o], row)
  BY <1>3 DEF AnswerTrue
<1>5. locked \subseteq AsyncKey
  BY DEF CommandInv, ApiTypeOK
<1>6. CASE TakesEffect(r)
  <2>1. /\ req' = [req EXCEPT ![r] = effected] /\ worked' = [worked EXCEPT ![k] = 1]
        /\ apiRows' = [apiRows EXCEPT ![k] = row] /\ UNCHANGED <<locked, server, apiPaused>>
    <3>1. req' = [req EXCEPT ![r] = effected] /\ UNCHANGED <<apiRows, locked, server, apiPaused>>
      BY <1>6 DEF TakesEffect
    <3>2. worked' = [worked EXCEPT ![k] = 1]
      <4>1. worked[k] = 0
        BY <1>1, <1>6 DEF TakesEffect
      <4>2. worked' = [worked EXCEPT ![k] = worked[k] + 1]
        BY <1>6 DEF TakesEffect
      <4> QED
        BY <4>1, <4>2
    <3>3. apiRows = [apiRows EXCEPT ![k] = row]
      BY DEF CommandInv, ApiTypeOK
    <3> QED
      BY <3>1, <3>2, <3>3
  <2>2. /\ effected \in RequestType /\ effected.key = k /\ AnswerTrue(effected, row)
        /\ Owns(effected, row, 1, locked') /\ RowTrue(row, 1)
    BY <1>1, <1>4, <2>1 DEF RequestType, Owns, AnswerTrue, RowTrue
  <2> HIDE DEF effected, row, k
  <2>3. \A o \in Request \ {r} : req[o].key = effected.key => AnswerTrue(req[o], row)
    BY <1>4, <2>2
  <2>4. \A o \in Request \ {r} : AtWork(req[o]) => req[o].key /= effected.key
    BY <1>2, <2>2
  <2> QED
    BY <1>1, <1>5, <2>1, <2>2, <2>3, <2>4, OneRequest
<1>7. CASE Completes(r)
  <2>1. PICK answer \in {"ok", "failed"} :
          /\ answer = "ok" => req[r].at = "worked"
          /\ apiRows' = [apiRows EXCEPT ![k] = Row0(answer)] /\ req' = [req EXCEPT ![r] = Over(answer)]
    BY <1>7 DEF Completes, Put, Reply
  <2>2. /\ locked' = locked \ {k} /\ UNCHANGED <<worked, server, apiPaused>>
        /\ worked' = [worked EXCEPT ![k] = worked[k]] /\ worked[k] \in Nat
    BY <1>1, <1>7 DEF Completes, Unlock, CommandInv, ApiTypeOK
  <2>3. /\ Over(answer) \in RequestType /\ Over(answer).key = k /\ ~AtWork(Over(answer))
        /\ AnswerTrue(Over(answer), Row0(answer)) /\ RowTrue(Row0(answer), worked[k])
        /\ Row0(answer) \in RowType
    <3>1. Over(answer) \in RequestType /\ Over(answer).key = k /\ ~AtWork(Over(answer))
      BY <1>1 DEF RequestType, AtWork, Outcome
    <3>2. AnswerTrue(Over(answer), Row0(answer))
      BY <1>1 DEF RequestType, AnswerTrue
    <3>3. RowTrue(Row0(answer), worked[k])
      BY <1>1, <2>1 DEF RowTrue
    <3>4. Row0(answer) \in RowType
      BY <1>1 DEF RequestType, RowType
    <3> QED
      BY <3>1, <3>2, <3>3, <3>4
  <2> HIDE DEF Over, Row0, row, k
  <2>4. \A o \in Request \ {r} : req[o].key = Over(answer).key => AnswerTrue(req[o], Row0(answer))
    BY <1>4, <2>3
  <2>5. \A o \in Request \ {r} : AtWork(req[o]) => req[o].key /= Over(answer).key
    BY <1>2, <2>3
  <2>6. locked' \subseteq AsyncKey /\ locked \ {k} \subseteq locked'
    BY <1>5, <2>2
  <2> QED
    BY <2>1, <2>2, <2>3, <2>4, <2>5, <2>6, OneRequest
<1>8. CASE RequestCancelled(r)
  <2>1. /\ req' = [req EXCEPT ![r] = Over("cut")] /\ locked' = locked \ {k}
        /\ UNCHANGED <<apiRows, worked, server, apiPaused>>
        /\ apiRows' = [apiRows EXCEPT ![k] = row] /\ worked' = [worked EXCEPT ![k] = worked[k]]
        /\ worked[k] \in Nat
    BY <1>1, <1>8 DEF RequestCancelled, Reply, Unlock, CommandInv, ApiTypeOK
  <2>2. /\ Over("cut") \in RequestType /\ Over("cut").key = k /\ ~AtWork(Over("cut"))
        /\ AnswerTrue(Over("cut"), row) /\ RowTrue(row, worked[k])
    BY <1>1 DEF RequestType, AtWork, AnswerTrue, Outcome, CommandInv
  <2> HIDE DEF Over, row, k
  <2>3. \A o \in Request \ {r} : req[o].key = Over("cut").key => AnswerTrue(req[o], row)
    BY <1>4, <2>2
  <2>4. \A o \in Request \ {r} : AtWork(req[o]) => req[o].key /= Over("cut").key
    BY <1>2, <2>2
  <2>5. locked' \subseteq AsyncKey /\ locked \ {k} \subseteq locked'
    BY <1>5, <2>1
  <2> QED
    BY <1>1, <2>1, <2>2, <2>3, <2>4, <2>5, OneRequest
<1> QED
  BY <1>6, <1>7, <1>8

\* A restart leaves nobody at work, and makes every pending row one of a process that died.
LEMMA ServerKeeps ==
    ASSUME CommandInv, ServerRestarts \/ MaintenanceSwitched  PROVE CommandInv'
<1>1. CASE ServerRestarts
  <2>1. /\ server \in 1 .. MaxRestarts + 1 /\ server' = server + 1 /\ server <= MaxRestarts
        /\ UNCHANGED <<apiRows, worked, apiPaused>> /\ locked' = {}
    BY <1>1 DEF ServerRestarts, CommandInv, ApiTypeOK
  <2>2. ASSUME NEW r \in Request
        PROVE  /\ req'[r] \in RequestType /\ ~AtWork(req'[r]) /\ req'[r].key = req[r].key
               /\ req'[r].answer \in {req[r].answer, "cut"}
    BY <1>1 DEF ServerRestarts, CommandInv, ApiTypeOK, RequestType, AtWork, Outcome
  <2>3. ApiTypeOK'
    <3>1. req' \in [Request -> RequestType]
      BY <1>1, <2>2 DEF ServerRestarts
    <3>2. server' \in 1 .. MaxRestarts + 1
      BY <2>1, ApiAssumption
    <3> QED
      BY <2>1, <3>1, <3>2 DEF CommandInv, ApiTypeOK, RequestType
  <2>4. ASSUME NEW r \in Request
        PROVE  AnswerTrue(req[r], apiRows[req[r].key])'
    <3>1. apiRows[req[r].key] \in RowType
      BY DEF CommandInv, ApiTypeOK, RowType
    <3> QED
      BY <2>1, <2>2, <3>1 DEF CommandInv, AnswerTrue, RowType
  <2>5. ASSUME NEW k \in ApiKey  PROVE RowTrue(apiRows[k], worked[k])'
    <3>1. apiRows[k] \in RowType
      BY DEF CommandInv, ApiTypeOK, RowType
    <3> QED
      BY <2>1, <3>1 DEF CommandInv, RowTrue, RowType
  <2> QED
    BY <2>2, <2>3, <2>4, <2>5 DEF CommandInv, Alone, AtWork
<1>2. CASE MaintenanceSwitched
  BY <1>2 DEF MaintenanceSwitched, CommandInv, ApiTypeOK, Owns, AnswerTrue, RowTrue, Alone, AtWork
<1> QED
  BY <1>1, <1>2

\* A new server with no requests.
LEMMA ApiStarts == ASSUME ApiInit  PROVE CommandInv
<1>1. NewRequest \in RequestType /\ NewRequest.at = "new" /\ NewRequest.answer = "none"
  BY ApiAssumption DEF NewRequest, RequestType
<1>2. NoRow \in RowType /\ NoRow.state = "none" /\ NoRow.by = 0
  BY ApiAssumption DEF NoRow, RowType
<1>3. ApiTypeOK
  <2>1. apiRows \in [ApiKey -> RowType] /\ req \in [Request -> RequestType]
    BY <1>1, <1>2 DEF ApiInit
  <2>2. server \in 1 .. MaxRestarts + 1 /\ worked \in [ApiKey -> Nat]
    BY ApiAssumption DEF ApiInit
  <2> QED
    BY <2>1, <2>2 DEF ApiInit, ApiTypeOK, RequestType, RowType
<1> QED
  BY <1>1, <1>2, <1>3 DEF ApiInit, CommandInv, Alone, AtWork, AnswerTrue, RowTrue

\* Every step of clients, workers and restarts keeps the rows and the answers true.
LEMMA ApiKept == CommandInv /\ [ApiNext]_avars => CommandInv'
<1>1. ASSUME CommandInv, UNCHANGED avars  PROVE CommandInv'
  BY <1>1 DEF CommandInv, ApiTypeOK, Owns, AnswerTrue, RowTrue, Alone, AtWork, avars
<1> QED
  BY <1>1, AnswersKeep, BeginningKeeps, WorkKeeps, ServerKeeps DEF ApiNext

\* app.mutate and Services.mutate: retried, cancelled or cut by a restart, in any number and any
\* order, a command takes effect at most once and every answer about it is true.
THEOREM CommandsAreExact == ApiSpec => []CommandsExact
<1>1. ApiInit => CommandInv
  BY ApiStarts
<1> QED
  BY <1>1, ApiKept, InvExact, PTL DEF ApiSpec

------------------------------------------------------------------------------
(* Plugins *)

\* A set of versions has a newest one.
LEMMA NewestIn ==
    ASSUME NEW S \in SUBSET Version  PROVE Newest(S) \in S \cup {NoVersion} /\ (S /= {} => Newest(S) \in S)
<1>1. CASE S = {}
  BY <1>1 DEF Newest
<1>2. CASE S /= {}
  <2> DEFINE T == {MaxVersion - v : v \in S}
  <2>1. T \subseteq Nat /\ T /= {}
    <3>1. ASSUME NEW v \in S  PROVE MaxVersion - v \in Nat
      BY PluginAssumption DEF Version
    <3> QED
      BY <1>2, <3>1
  <2>2. PICK n \in T : \A m \in T : n <= m
    <3> DEFINE less == {pair \in Nat \X Nat : pair[1] < pair[2]}
    <3>1. \A m, n \in Nat : m < n => <<m, n>> \in less
      OBVIOUS
    <3>2. IsWellFoundedOn(less, Nat)
      BY NatLessThanWellFounded, Zenon DEF OpToRel
    <3> HIDE DEF less, T
    <3>3. \E n \in T : \A m \in T : <<m, n>> \notin less
      BY <2>1, <3>2, WFMin
    <3>4. PICK n \in T : \A m \in T : <<m, n>> \notin less
      BY <3>3
    <3>5. ASSUME NEW m \in T  PROVE n <= m
      <4>1. m \in Nat /\ n \in Nat /\ ~ (m < n)
        BY <2>1, <3>1, <3>4
      <4> QED
        BY <4>1
    <3> QED
      BY <3>5
  <2>3. PICK v \in S : n = MaxVersion - v
    BY <2>2
  <2>4. \A w \in S : w <= v
    BY <2>2, <2>3, PluginAssumption DEF Version
  <2> QED
    BY <1>2, <2>4 DEF Newest
<1> QED
  BY <1>1, <1>2

\* No version is the one that stands for none.
LEMMA NoneIsNoVersion == NoVersion \notin Version
  BY PluginAssumption DEF Version, NoVersion

\* A version is disposed only with no run left, which is what a live run's reference prevents.
LEMMA InUse ==
    ASSUME NEW v, NEW r \in PluginRun, NEW held, NEW draining, <<v, r>> \in held
    PROVE  ~Unused(v, draining, held)
  BY DEF Unused

\* A live run no recovery overlooked has its version and its reference.
Held ==
    \A r \in PluginRun \ overlooked : pluginRun[r].at = "live" =>
        status[pluginRun[r].version] \in Serving /\ <<pluginRun[r].version, r>> \in refs

\* The rows that contribute are those of the versions that serve, and the name is with one of them.
NameServed ==
    /\ contributed = {v \in Version : status[v] \in Serving}
    /\ owner \in contributed \cup {NoVersion} /\ (owner = NoVersion => contributed = {})

\* A draining version still has a user.
DrainingUsed == \A v \in Version : status[v] = "draining" => \E r \in PluginRun : <<v, r>> \in refs

\* A reference is to the version of its run, which is live or ended behind the back of a recovery.
RefsTrue ==
    /\ \A pair \in refs : pair[1] = pluginRun[pair[2]].version
    /\ \A pair \in refs : pluginRun[pair[2]].at = "live" \/ pair[2] \in revived
    /\ \A r \in revived : pluginRun[r].at = "ended"
    /\ \A r \in PluginRun : pluginRun[r].at /= "none" => pluginRun[r].version \in Version

\* What a recovery goes by: the runs it takes for live are, or ended behind its back; those it does
\* not know of were bound behind its back or have ended; and it fails only with such a run.
Knows(b) ==
    /\ \A r \in b.live \cup b.put : pluginRun[r].at = "live" \/ r \in revived
    /\ b.at = "listing" => \A r \in PluginRun : pluginRun[r].at = "live" => r \in b.live \cup overlooked
    /\ \A r \in b.stale : pluginRun[r].at = "ended" \/ (pluginRun[r].at = "live" /\ r \in overlooked)
    /\ b.at = "failed" => overlooked \cup revived /= {}

\* What makes PluginSound inductive: what the references and the recoveries under way go by.
PluginInv ==
    /\ PluginTypeOK /\ Held /\ NameServed /\ DrainingUsed /\ RefsTrue
    /\ \A p \in Registry : Knows(boot[p])

\* The invariant makes every part of the promise true.
LEMMA PluginInvSound == PluginInv => PluginSound
  BY DEF PluginInv, Held, NameServed, DrainingUsed, RefsTrue, Knows, PluginSound

\* Loading: the version serves, and its row with it.
LEMMA LoadKeeps == ASSUME PluginInv, NEW v \in Version, Load(v)  PROVE PluginInv'
<1> USE DEF PluginInv
<1>1. status'[v] \in Serving /\ \A w \in Version \ {v} : status'[w] = status[w]
  BY DEF Load, Serving, PluginTypeOK
<1>2. PluginTypeOK'
  BY DEF Load, Registered, Registry, Version, NoVersion, PluginTypeOK
<1>3. NameServed'
  BY <1>1 DEF Load, Registered, Version, NoVersion, NameServed, PluginTypeOK
<1>4. Held'
  BY <1>1 DEF Load, Held, PluginTypeOK, RefsTrue
<1>5. DrainingUsed'
  BY DEF Load, DrainingUsed, PluginTypeOK
<1>6. RefsTrue'
  BY DEF Load, RefsTrue
<1>7. \A p \in Registry : Knows(boot[p])'
  BY DEF Load, Knows
<1> QED
  BY <1>2, <1>3, <1>4, <1>5, <1>6, <1>7

\* Disposing a version takes its row, and the name goes to one that still serves.
LEMMA NamePasses ==
    ASSUME PluginTypeOK, NameServed, NEW p \in Registry, NEW v \in Version,
           status' \in [Version -> {"none", "ready", "draining", "disposed"}],
           \A w \in Version \ {v} : status'[w] = status[w],
           status'[v] = "disposed" \/ (status'[v] \in Serving <=> status[v] \in Serving),
           Disposes(p, v)
    PROVE  /\ NameServed' /\ contributed' \subseteq Version /\ owner' \in Version \cup {NoVersion}
           /\ instances' \in [Registry -> SUBSET Version]
<1> USE DEF PluginTypeOK, NameServed
<1>1. CASE status'[v] = "disposed" /\ status[v] /= "disposed"
  <2>1. Unregistered(v) /\ instances' = [instances EXCEPT ![p] = @ \ {v}]
    BY <1>1 DEF Disposes
  <2>2. contributed' = {w \in Version : status'[w] \in Serving}
    BY <1>1, <2>1 DEF Unregistered, Serving
  <2>3. owner' \in contributed' \cup {NoVersion} /\ (owner' = NoVersion => contributed' = {})
    BY <2>1, NewestIn, NoneIsNoVersion DEF Unregistered
  <2> QED
    BY <2>1, <2>2, <2>3
<1>2. CASE ~(status'[v] = "disposed" /\ status[v] /= "disposed")
  <2>1. UNCHANGED <<contributed, owner, instances>>
    BY <1>2 DEF Disposes
  <2>2. \A w \in Version : status'[w] \in Serving <=> status[w] \in Serving
    BY <1>2 DEF Serving
  <2> QED
    BY <2>1, <2>2
<1> QED
  BY <1>1, <1>2

\* Draining: a version with users stays.
LEMMA DrainKeeps == ASSUME PluginInv, NEW v \in Version, Drain(v)  PROVE PluginInv'
<1> USE DEF PluginInv
<1>1. /\ status' = [status EXCEPT ![v] = IF Unused(v, TRUE, refs) THEN "disposed" ELSE "draining"]
      /\ status[v] \in Serving /\ Disposes("api", v) /\ "api" \in Registry
      /\ UNCHANGED <<refs, boot, pluginRun, overlooked, revived, pluginRestarts>>
  BY DEF Drain, Registry
<1>2. /\ status' \in [Version -> {"none", "ready", "draining", "disposed"}]
      /\ \A w \in Version \ {v} : status'[w] = status[w]
      /\ status'[v] = "disposed" \/ (status'[v] \in Serving <=> status[v] \in Serving)
  BY <1>1 DEF PluginTypeOK, Serving
<1>3. /\ NameServed' /\ contributed' \subseteq Version /\ owner' \in Version \cup {NoVersion}
      /\ instances' \in [Registry -> SUBSET Version]
  BY <1>1, <1>2, NamePasses
<1>4. PluginTypeOK'
  BY <1>1, <1>2, <1>3 DEF PluginTypeOK
<1>5. Held'
  <2>1. ASSUME NEW r \in PluginRun \ overlooked, pluginRun[r].at = "live"
        PROVE  status'[pluginRun[r].version] \in Serving
    <3>1. pluginRun[r].version \in Version /\ <<pluginRun[r].version, r>> \in refs
      BY <2>1 DEF Held, RefsTrue
    <3>2. CASE pluginRun[r].version = v
      BY <1>1, <3>1, <3>2, InUse DEF PluginTypeOK, Serving
    <3>3. CASE pluginRun[r].version /= v
      BY <1>2, <2>1, <3>1, <3>3 DEF Held
    <3> QED
      BY <3>2, <3>3
  <2> QED
    BY <1>1, <2>1 DEF Held
<1>6. DrainingUsed'
  BY <1>1, <1>2 DEF DrainingUsed, Unused, PluginTypeOK
<1>7. RefsTrue' /\ \A p \in Registry : Knows(boot[p])'
  BY <1>1 DEF RefsTrue, Knows
<1> QED
  BY <1>3, <1>4, <1>5, <1>6, <1>7

\* Composing reads the name's version and writes nothing.
LEMMA SnapshotComposes == ASSUME PluginInv, NEW r \in PluginRun, Snapshot(r)  PROVE PluginInv'
<1> USE DEF PluginInv
<1>1. /\ pluginRun' = [pluginRun EXCEPT ![r] = [at |-> "composed", version |-> owner]]
      /\ pluginRun[r].at = "none" /\ owner \in Version
      /\ UNCHANGED <<status, refs, contributed, owner, instances, boot, overlooked, revived, pluginRestarts>>
  BY DEF Snapshot, PluginTypeOK
<1>2. pluginRun'[r].at = "composed" /\ pluginRun'[r].version = owner
      /\ \A o \in PluginRun \ {r} : pluginRun'[o] = pluginRun[o]
  BY <1>1 DEF PluginTypeOK
<1>3. PluginTypeOK'
  BY <1>1 DEF PluginTypeOK
<1>4. Held' /\ NameServed' /\ DrainingUsed'
  BY <1>1, <1>2 DEF Held, NameServed, DrainingUsed
<1>5. RefsTrue'
  <2>1. \A pair \in refs : pair[2] \in PluginRun \ {r}
    BY <1>1 DEF RefsTrue, PluginTypeOK
  <2>2. r \notin revived /\ revived \subseteq PluginRun
    BY <1>1 DEF RefsTrue, PluginTypeOK
  <2> QED
    BY <1>1, <1>2, <2>1, <2>2 DEF RefsTrue
<1>6. ASSUME NEW p \in Registry  PROVE Knows(boot[p])'
  <2>1. boot[p].live \subseteq PluginRun /\ boot[p].put \subseteq PluginRun /\ boot[p].stale \subseteq PluginRun
    BY DEF PluginTypeOK
  <2>2. r \notin revived
    BY <1>1 DEF RefsTrue
  <2>3. r \notin boot[p].live \cup boot[p].put \cup boot[p].stale
    BY <1>1, <2>2 DEF Knows
  <2> QED
    BY <1>1, <1>2, <2>1, <2>3 DEF Knows
<1> QED
  BY <1>3, <1>4, <1>5, <1>6

\* Binding: a run refers to its version in the transaction that makes it live.
LEMMA BindingKeeps ==
    ASSUME PluginInv, NEW r \in PluginRun, NEW v \in Version, Bound(r, v), status[v] = "ready",
           pluginRun[r].at \in {"none", "composed"},
           UNCHANGED <<status, contributed, owner, instances, boot, revived, pluginRestarts>>
    PROVE  PluginInv'
<1> USE DEF PluginInv
<1>1. /\ pluginRun' = [pluginRun EXCEPT ![r] = [at |-> "live", version |-> v]]
      /\ refs' = refs \cup {<<v, r>>}
      /\ overlooked' = IF \E p \in Registry : boot[p].at = "listing" THEN overlooked \cup {r} ELSE overlooked
  BY DEF Bound
<1>2. pluginRun'[r].at = "live" /\ pluginRun'[r].version = v
      /\ \A o \in PluginRun \ {r} : pluginRun'[o] = pluginRun[o]
  BY <1>1 DEF PluginTypeOK
<1>3. PluginTypeOK'
  BY <1>1 DEF PluginTypeOK
<1>4. Held'
  BY <1>1, <1>2 DEF Held, Serving
<1>5. NameServed' /\ DrainingUsed'
  BY <1>1 DEF NameServed, DrainingUsed
<1>6. r \notin revived
  BY DEF RefsTrue
<1>7. RefsTrue'
  <2>1. \A pair \in refs : pair[2] \in PluginRun \ {r}
    BY <1>6 DEF RefsTrue, PluginTypeOK
  <2>2. revived \subseteq PluginRun \ {r}
    BY <1>6 DEF PluginTypeOK
  <2>3. \A pair \in refs' : pair \in refs \/ pair = <<v, r>>
    BY <1>1
  <2>4. \A pair \in refs' : pair[1] = pluginRun'[pair[2]].version
    BY <1>2, <2>1, <2>3 DEF RefsTrue
  <2>5. \A pair \in refs' : pluginRun'[pair[2]].at = "live" \/ pair[2] \in revived'
    BY <1>2, <2>1, <2>3 DEF RefsTrue
  <2>6. \A o \in PluginRun : pluginRun'[o].at /= "none" => pluginRun'[o].version \in Version
    BY <1>2 DEF RefsTrue
  <2> QED
    BY <1>2, <2>2, <2>4, <2>5, <2>6 DEF RefsTrue
<1>8. ASSUME NEW p \in Registry  PROVE Knows(boot[p])'
  <2>1. boot[p].live \subseteq PluginRun /\ boot[p].put \subseteq PluginRun /\ boot[p].stale \subseteq PluginRun
    BY DEF PluginTypeOK
  <2>2. r \notin boot[p].live \cup boot[p].put \cup boot[p].stale
    BY <1>6 DEF Knows
  <2>3. overlooked \subseteq overlooked' /\ (boot[p].at = "listing" => r \in overlooked')
    BY <1>1
  <2> QED
    BY <1>1, <1>2, <2>1, <2>2, <2>3 DEF Knows
<1> QED
  BY <1>3, <1>4, <1>5, <1>7, <1>8

\* A submission and a delegation bind only a version that is ready.
LEMMA BindKeeps ==
    ASSUME PluginInv, NEW r \in PluginRun, Binds(r) \/ \E child \in PluginRun : Delegated(r, child)
    PROVE  PluginInv'
<1>1. pluginRun[r].at /= "none" => pluginRun[r].version \in Version
  BY DEF PluginInv, RefsTrue
<1>2. CASE Binds(r) /\ status[pluginRun[r].version] = "ready"
  BY <1>1, <1>2, BindingKeeps DEF Binds
<1>3. CASE Binds(r) /\ status[pluginRun[r].version] /= "ready"
  <2> USE DEF PluginInv
  <2>1. /\ pluginRun' = [pluginRun EXCEPT ![r].at = "ended"] /\ pluginRun[r].at = "composed"
        /\ UNCHANGED <<status, refs, contributed, owner, instances, boot, overlooked, revived, pluginRestarts>>
    BY <1>3 DEF Binds
  <2>2. /\ pluginRun'[r].at = "ended" /\ pluginRun'[r].version = pluginRun[r].version
        /\ \A o \in PluginRun \ {r} : pluginRun'[o] = pluginRun[o]
    BY <2>1 DEF PluginTypeOK
  <2>3. PluginTypeOK'
    BY <2>1 DEF PluginTypeOK
  <2>4. Held' /\ NameServed' /\ DrainingUsed'
    BY <2>1, <2>2 DEF Held, NameServed, DrainingUsed
  <2>5. RefsTrue'
    <3>1. \A pair \in refs : pair[2] \in PluginRun \ {r}
      BY <2>1 DEF RefsTrue, PluginTypeOK
    <3>2. revived \subseteq PluginRun \ {r}
      BY <2>1 DEF RefsTrue, PluginTypeOK
    <3> QED
      BY <1>1, <2>1, <2>2, <3>1, <3>2 DEF RefsTrue
  <2>6. ASSUME NEW p \in Registry  PROVE Knows(boot[p])'
    <3>1. boot[p].live \subseteq PluginRun /\ boot[p].put \subseteq PluginRun /\ boot[p].stale \subseteq PluginRun
      BY DEF PluginTypeOK
    <3>2. r \notin boot[p].live \cup boot[p].put \cup boot[p].stale
      BY <2>1 DEF Knows, RefsTrue
    <3> QED
      BY <2>1, <2>2, <3>1, <3>2 DEF Knows
  <2> QED
    BY <2>3, <2>4, <2>5, <2>6
<1>4. ASSUME NEW child \in PluginRun, Delegated(r, child)  PROVE PluginInv'
  BY <1>1, <1>4, BindingKeeps DEF Delegated
<1> QED
  BY <1>2, <1>3, <1>4 DEF Binds

\* Giving a reference back disposes its version only when no other run refers to it.
LEMMA ReleasedKeeps ==
    ASSUME PluginInv, NEW p \in Registry, NEW r \in PluginRun, Released(p, r),
           pluginRun[r].at /= "none"
    PROVE  /\ refs' \subseteq refs /\ <<pluginRun[r].version, r>> \notin refs'
           /\ \A pair \in refs : pair[2] /= r => pair \in refs' /\ status'[pair[1]] = status[pair[1]]
           /\ status' \in [Version -> {"none", "ready", "draining", "disposed"}]
           /\ contributed' \subseteq Version /\ owner' \in Version \cup {NoVersion}
           /\ instances' \in [Registry -> SUBSET Version]
           /\ NameServed' /\ DrainingUsed'
<1> USE DEF PluginInv
<1> DEFINE v == pluginRun[r].version
           held == refs \ {<<v, r>>}
<1>1. v \in Version
  BY DEF RefsTrue
<1>2. CASE <<v, r>> \notin refs
  <2>1. UNCHANGED <<refs, status, contributed, owner, instances>>
    BY <1>2 DEF Released
  <2> QED
    BY <1>2, <2>1 DEF PluginTypeOK, NameServed, DrainingUsed
<1>3. CASE <<v, r>> \in refs
  <2>1. /\ refs' = held /\ Disposes(p, v)
        /\ status' = [status EXCEPT ![v] = IF Unused(v, @ = "draining", held) THEN "disposed" ELSE @]
    BY <1>3 DEF Released
  <2>2. /\ status' \in [Version -> {"none", "ready", "draining", "disposed"}]
        /\ \A w \in Version \ {v} : status'[w] = status[w]
        /\ status'[v] = "disposed" \/ status'[v] = status[v]
    BY <1>1, <2>1 DEF PluginTypeOK
  <2>3. /\ NameServed' /\ contributed' \subseteq Version /\ owner' \in Version \cup {NoVersion}
        /\ instances' \in [Registry -> SUBSET Version]
    BY <1>1, <2>1, <2>2, NamePasses
  <2>4. ASSUME NEW pair \in refs, pair[2] /= r  PROVE pair \in refs' /\ status'[pair[1]] = status[pair[1]]
    <3>1. /\ pair \in held /\ pair[1] \in Version /\ pair[2] \in PluginRun /\ pair = <<pair[1], pair[2]>>
      BY <2>4 DEF PluginTypeOK
    <3>2. CASE pair[1] = v
      <4>1. \A draining : ~Unused(v, draining, held)
        BY <3>1, <3>2, InUse
      <4> QED
        BY <1>1, <2>1, <3>1, <3>2, <4>1 DEF PluginTypeOK
    <3>3. CASE pair[1] /= v
      BY <2>1, <2>2, <3>1, <3>3
    <3> QED
      BY <3>2, <3>3
  <2>5. ASSUME NEW w \in Version, status'[w] = "draining"  PROVE \E x \in PluginRun : <<w, x>> \in refs'
    <3>1. CASE w = v
      <4>1. status[v] = "draining" /\ ~Unused(v, TRUE, held)
        BY <1>1, <2>1, <2>5, <3>1 DEF PluginTypeOK
      <4> QED
        BY <2>1, <3>1, <4>1 DEF Unused
    <3>2. CASE w /= v
      <4>1. PICK x \in PluginRun : <<w, x>> \in refs
        BY <2>2, <2>5, <3>2 DEF DrainingUsed
      <4>2. <<w, x>> /= <<v, r>>
        BY <3>2
      <4> QED
        BY <2>1, <4>1, <4>2
    <3> QED
      BY <3>1, <3>2
  <2> QED
    BY <2>1, <2>2, <2>3, <2>4, <2>5 DEF DrainingUsed
<1> QED
  BY <1>2, <1>3

\* The end of a run gives its reference back; a recovery that counts it is on record.
LEMMA ReleaseKeeps ==
    ASSUME PluginInv, NEW p \in Registry, NEW r \in PluginRun, RunReleased(p, r)  PROVE PluginInv'
<1> USE DEF PluginInv
<1>1. /\ pluginRun' = [pluginRun EXCEPT ![r].at = "ended"] /\ pluginRun[r].at = "live" /\ Released(p, r)
      /\ revived' = IF \E q \in Registry : r \in boot[q].live \cup boot[q].put THEN revived \cup {r} ELSE revived
      /\ UNCHANGED <<boot, overlooked, pluginRestarts>>
  BY DEF RunReleased
<1>2. /\ refs' \subseteq refs /\ <<pluginRun[r].version, r>> \notin refs'
      /\ \A pair \in refs : pair[2] /= r => pair \in refs' /\ status'[pair[1]] = status[pair[1]]
      /\ status' \in [Version -> {"none", "ready", "draining", "disposed"}]
      /\ contributed' \subseteq Version /\ owner' \in Version \cup {NoVersion}
      /\ instances' \in [Registry -> SUBSET Version]
      /\ NameServed' /\ DrainingUsed'
  BY <1>1, ReleasedKeeps
<1>3. /\ pluginRun'[r].at = "ended" /\ pluginRun'[r].version = pluginRun[r].version
      /\ \A o \in PluginRun \ {r} : pluginRun'[o] = pluginRun[o]
  BY <1>1 DEF PluginTypeOK
<1>4. PluginTypeOK'
  BY <1>1, <1>2 DEF PluginTypeOK
<1>5. Held'
  <2>1. ASSUME NEW o \in PluginRun \ overlooked, pluginRun'[o].at = "live"
        PROVE  status'[pluginRun'[o].version] \in Serving /\ <<pluginRun'[o].version, o>> \in refs'
    <3>1. o /= r /\ pluginRun'[o] = pluginRun[o]
      BY <1>3, <2>1
    <3>2. <<pluginRun[o].version, o>> \in refs /\ status[pluginRun[o].version] \in Serving
      BY <2>1, <3>1 DEF Held
    <3> DEFINE pair == <<pluginRun[o].version, o>>
    <3>3. pair \in refs' /\ status'[pair[1]] = status[pair[1]]
      BY <1>2, <3>1, <3>2
    <3> QED
      BY <3>1, <3>2, <3>3
  <2> QED
    BY <1>1, <2>1 DEF Held
<1>6. RefsTrue'
  <2>1. ASSUME NEW pair \in refs'  PROVE pair[2] \in PluginRun \ {r} /\ pair \in refs
    <3>1. pair \in refs /\ pair[1] = pluginRun[pair[2]].version /\ pair[2] \in PluginRun /\ pair = <<pair[1], pair[2]>>
      BY <1>2 DEF RefsTrue, PluginTypeOK
    <3> QED
      BY <1>2, <3>1
  <2>2. \A pair \in refs' : pair[1] = pluginRun'[pair[2]].version
    BY <1>3, <2>1 DEF RefsTrue
  <2>3. \A pair \in refs' : pluginRun'[pair[2]].at = "live" \/ pair[2] \in revived'
    BY <1>1, <1>3, <2>1 DEF RefsTrue
  <2>4. \A o \in revived' : pluginRun'[o].at = "ended"
    BY <1>1, <1>3 DEF RefsTrue, PluginTypeOK
  <2>5. \A o \in PluginRun : pluginRun'[o].at /= "none" => pluginRun'[o].version \in Version
    BY <1>1, <1>3 DEF RefsTrue
  <2> QED
    BY <2>2, <2>3, <2>4, <2>5 DEF RefsTrue
<1>7. ASSUME NEW q \in Registry  PROVE Knows(boot[q])'
  <2>1. boot[q].live \subseteq PluginRun /\ boot[q].put \subseteq PluginRun /\ boot[q].stale \subseteq PluginRun
    BY DEF PluginTypeOK
  <2>2. revived \subseteq revived' /\ (r \in boot[q].live \cup boot[q].put => r \in revived')
    BY <1>1
  <2> QED
    BY <1>1, <1>3, <2>1, <2>2 DEF Knows
<1> QED
  BY <1>2, <1>4, <1>5, <1>6, <1>7

------------------------------------------------------------------------------
\* A recovery that moves on by itself: it reads, and nothing else changes.
LEMMA RecoveryReads ==
    ASSUME PluginInv, NEW p \in Registry, NEW b,
           b \in [at : {"loading", "listing", "settling", "up", "failed"}, load : SUBSET Version,
                  live : SUBSET PluginRun, stale : SUBSET PluginRun, put : SUBSET PluginRun],
           Knows(b), boot' = [boot EXCEPT ![p] = b],
           UNCHANGED <<status, refs, contributed, owner, instances, pluginRun, overlooked, revived,
                       pluginRestarts>>
    PROVE  PluginInv'
<1> USE DEF PluginInv
<1>1. PluginTypeOK'
  BY DEF PluginTypeOK
<1>2. Held' /\ NameServed' /\ DrainingUsed' /\ RefsTrue'
  BY DEF Held, NameServed, DrainingUsed, RefsTrue
<1>3. ASSUME NEW q \in Registry  PROVE Knows(boot[q])'
  <2>1. boot'[q] = b \/ boot'[q] = boot[q]
    BY DEF PluginTypeOK
  <2>2. Knows(boot[q])
    OBVIOUS
  <2>3. CASE boot'[q] = b
    BY <2>3 DEF Knows
  <2>4. CASE boot'[q] = boot[q]
    BY <2>2, <2>4 DEF Knows
  <2> QED
    BY <2>1, <2>3, <2>4
<1> QED
  BY <1>1, <1>2, <1>3

\* Reading the runs and the references, checking a reference, and being done.
LEMMA ReadsKeep ==
    ASSUME PluginInv, NEW p \in Registry,
           RunsRead(p) \/ RefsListed(p) \/ RegistryRecovered(p) \/ \E r \in PluginRun : RefChecked(p, r)
    PROVE  PluginInv'
<1> DEFINE BootRow == [at : {"loading", "listing", "settling", "up", "failed"}, load : SUBSET Version,
                   live : SUBSET PluginRun, stale : SUBSET PluginRun, put : SUBSET PluginRun]
<1>1. boot[p] \in BootRow /\ boot \in [Registry -> BootRow] /\ Knows(boot[p])
  BY DEF PluginInv, PluginTypeOK
<1>2. CASE RunsRead(p)
  <2> DEFINE b == [boot[p] EXCEPT !.at = "listing", !.live = {r \in PluginRun : pluginRun[r].at = "live"}]
  <2>1. boot' = [boot EXCEPT ![p] = b]
    BY <1>1, <1>2 DEF RunsRead
  <2>2. b \in BootRow
    BY <1>1
  <2>3. Knows(b)
    BY <1>1 DEF Knows
  <2> QED
    BY <1>2, <2>1, <2>2, <2>3, RecoveryReads DEF RunsRead
<1>3. CASE RefsListed(p)
  <2> DEFINE S == {pair[2] : pair \in refs} \ boot[p].live
             b == [boot[p] EXCEPT !.at = "settling", !.stale = S]
  <2>1. boot' = [boot EXCEPT ![p] = b]
    BY <1>1, <1>3 DEF RefsListed
  <2>2. S \subseteq PluginRun
    BY DEF PluginInv, PluginTypeOK
  <2>3. b \in BootRow
    BY <1>1, <2>2
  <2>4. \A r \in S : pluginRun[r].at = "ended" \/ (pluginRun[r].at = "live" /\ r \in overlooked)
    <3>1. \A r \in S : pluginRun[r].at = "live" \/ r \in revived
      BY DEF PluginInv, RefsTrue
    <3>2. \A r \in S : pluginRun[r].at = "live" => r \in overlooked
      BY <1>1, <1>3, <2>2 DEF RefsListed, Knows
    <3> QED
      BY <3>1, <3>2 DEF PluginInv, RefsTrue
  <2>5. Knows(b)
    <3> HIDE DEF S
    <3> QED
      BY <1>1, <2>4 DEF Knows
  <2> QED
    BY <1>3, <2>1, <2>3, <2>5, RecoveryReads DEF RefsListed
<1>4. CASE RegistryRecovered(p)
  <2>1. Up \in BootRow /\ Knows(Up)
    BY DEF Up, Knows
  <2> QED
    BY <1>4, <2>1, RecoveryReads DEF RegistryRecovered
<1>5. ASSUME NEW r \in PluginRun, RefChecked(p, r)  PROVE PluginInv'
  <2>1. /\ r \in boot[p].live /\ boot[p].at = "settling" /\ boot[p].stale = {} /\ boot[p].put = {}
        /\ UNCHANGED <<status, refs, contributed, owner, instances, pluginRun, overlooked, revived, pluginRestarts>>
    BY <1>5 DEF RefChecked
  <2>2. pluginRun[r].at = "live" \/ r \in revived
    BY <1>1, <2>1 DEF Knows
  <2>3. CASE <<pluginRun[r].version, r>> \in refs
    <3> DEFINE b == [boot[p] EXCEPT !.live = @ \ {r}]
    <3>1. boot' = [boot EXCEPT ![p] = b]
      BY <1>1, <1>5, <2>3 DEF RefChecked
    <3>2. b \in BootRow /\ Knows(b)
      BY <1>1, <2>1 DEF Knows
    <3> QED
      BY <2>1, <3>1, <3>2, RecoveryReads
  <2>4. CASE <<pluginRun[r].version, r>> \notin refs /\ status[pluginRun[r].version] \in Serving
    <3> DEFINE b == [boot[p] EXCEPT !.live = @ \ {r}, !.put = {r}]
    <3>1. boot' = [boot EXCEPT ![p] = b]
      BY <1>1, <1>5, <2>4 DEF RefChecked
    <3>2. b \in BootRow /\ Knows(b)
      BY <1>1, <2>1, <2>2 DEF Knows
    <3> QED
      BY <2>1, <3>1, <3>2, RecoveryReads
  <2>5. CASE <<pluginRun[r].version, r>> \notin refs /\ status[pluginRun[r].version] \notin Serving
    <3> DEFINE b == [Up EXCEPT !.at = "failed"]
    <3>1. boot' = [boot EXCEPT ![p] = b]
      BY <1>1, <1>5, <2>5 DEF RefChecked
    <3>2. b \in BootRow
      BY DEF Up
    <3>3. overlooked \cup revived /= {}
      BY <2>2, <2>5 DEF PluginInv, Held
    <3>4. Knows(b)
      BY <3>3 DEF Knows, Up
    <3> QED
      BY <2>1, <3>1, <3>2, <3>4, RecoveryReads
  <2> QED
    BY <2>3, <2>4, <2>5
<1> QED
  BY <1>2, <1>3, <1>4, <1>5

\* A process starts: what it was composing is gone, which no reference and no recovery goes by.
LEMMA RestartKeeps ==
    ASSUME PluginInv, NEW p \in Registry, RegistryRestarts(p)  PROVE PluginInv'
<1> USE DEF PluginInv
<1> DEFINE b == [Up EXCEPT !.at = "loading", !.load = {v \in Version : status[v] \in Serving}]
<1>1. /\ pluginRestarts < MaxPluginRestarts /\ pluginRestarts' = pluginRestarts + 1
      /\ instances' = [instances EXCEPT ![p] = {}] /\ boot' = [boot EXCEPT ![p] = b]
      /\ UNCHANGED <<status, refs, contributed, owner, overlooked, revived>>
  BY DEF RegistryRestarts
<1>2. pluginRun' = [r \in PluginRun |-> IF p = "api" /\ pluginRun[r].at = "composed"
                                        THEN [at |-> "none", version |-> NoVersion] ELSE pluginRun[r]]
  BY DEF RegistryRestarts
<1>3. \A r \in PluginRun : \/ pluginRun'[r] = pluginRun[r]
                           \/ pluginRun[r].at = "composed" /\ pluginRun'[r].at = "none"
  BY <1>2
<1>4. PluginTypeOK'
  <2>1. pluginRestarts' \in 0 .. MaxPluginRestarts
    BY <1>1, PluginAssumption DEF PluginTypeOK
  <2>2. b \in [at : {"loading", "listing", "settling", "up", "failed"}, load : SUBSET Version,
               live : SUBSET PluginRun, stale : SUBSET PluginRun, put : SUBSET PluginRun]
    BY DEF Up
  <2> HIDE DEF b
  <2> QED
    BY <1>1, <1>2, <2>1, <2>2 DEF PluginTypeOK
<1>5. Held' /\ NameServed' /\ DrainingUsed'
  BY <1>1, <1>3 DEF Held, NameServed, DrainingUsed
<1>6. RefsTrue'
  <2>1. \A r \in revived : r \in PluginRun /\ pluginRun'[r] = pluginRun[r]
    BY <1>3 DEF RefsTrue, PluginTypeOK
  <2>2. \A pair \in refs : pair[2] \in PluginRun /\ pluginRun'[pair[2]] = pluginRun[pair[2]]
    BY <1>3 DEF RefsTrue, PluginTypeOK
  <2> QED
    BY <1>1, <1>3, <2>1, <2>2 DEF RefsTrue
<1>7. ASSUME NEW q \in Registry  PROVE Knows(boot[q])'
  <2>1. Knows(b)'
    BY DEF Knows, Up
  <2>2. CASE q = p
    <3>1. boot'[q] = b
      BY <1>1, <2>2 DEF PluginTypeOK
    <3> QED
      BY <2>1, <3>1 DEF Knows, Up
  <2>3. CASE q /= p
    <3>1. boot'[q] = boot[q]
      BY <1>1, <2>3 DEF PluginTypeOK
    <3>2. boot[q].live \subseteq PluginRun /\ boot[q].put \subseteq PluginRun /\ boot[q].stale \subseteq PluginRun
      BY DEF PluginTypeOK
    <3>3. \A r \in revived : r \in PluginRun
      BY DEF PluginTypeOK
    <3> QED
      BY <1>1, <1>3, <3>1, <3>2, <3>3 DEF Knows
  <2> QED
    BY <2>2, <2>3
<1> QED
  BY <1>4, <1>5, <1>6, <1>7

\* A version that still serves has its row already, and the name goes to no older one.
LEMMA RehydrateKeeps ==
    ASSUME PluginInv, NEW p \in Registry, NEW v \in Version, Rehydrates(p, v)  PROVE PluginInv'
<1> USE DEF PluginInv
<1>1. /\ boot' = [boot EXCEPT ![p].load = @ \ {v}]
      /\ UNCHANGED <<status, refs, pluginRun, overlooked, revived, pluginRestarts>>
  BY DEF Rehydrates
<1>2. /\ contributed' = contributed /\ owner' \in contributed \cup {NoVersion}
      /\ (owner' = NoVersion => contributed = {}) /\ instances' \in [Registry -> SUBSET Version]
  <2>1. CASE status[v] \in Serving
    <3>1. Registered(v) /\ instances' = [instances EXCEPT ![p] = @ \cup {v}] /\ v \in contributed
      BY <2>1 DEF Rehydrates, NameServed
    <3> QED
      BY <3>1, NoneIsNoVersion DEF Registered, NameServed, PluginTypeOK
  <2>2. CASE status[v] \notin Serving
    BY <2>2 DEF Rehydrates, NameServed, PluginTypeOK
  <2> QED
    BY <2>1, <2>2
<1>3. boot[p] \in [at : {"loading", "listing", "settling", "up", "failed"}, load : SUBSET Version,
                   live : SUBSET PluginRun, stale : SUBSET PluginRun, put : SUBSET PluginRun]
  BY DEF PluginTypeOK
<1>4. PluginTypeOK'
  BY <1>1, <1>2, <1>3 DEF PluginTypeOK, NameServed
<1>5. Held' /\ NameServed' /\ DrainingUsed' /\ RefsTrue'
  BY <1>1, <1>2 DEF Held, NameServed, DrainingUsed, RefsTrue
<1>6. ASSUME NEW q \in Registry  PROVE Knows(boot[q])'
  <2>1. /\ boot'[q].at = boot[q].at /\ boot'[q].live = boot[q].live
        /\ boot'[q].put = boot[q].put /\ boot'[q].stale = boot[q].stale
    BY <1>1, <1>3 DEF PluginTypeOK
  <2> QED
    BY <1>1, <2>1 DEF Knows
<1> QED
  BY <1>4, <1>5, <1>6

\* A stale reference goes, of a run that has ended or that the recovery overlooked; a restored one is
\* of a run that is live or ended behind its back.
LEMMA SettlesKeep ==
    ASSUME PluginInv, NEW p \in Registry, NEW r \in PluginRun, StaleReleased(p, r) \/ RefRestored(p, r)
    PROVE  PluginInv'
<1> USE DEF PluginInv
<1>1. boot[p] \in [at : {"loading", "listing", "settling", "up", "failed"}, load : SUBSET Version,
                   live : SUBSET PluginRun, stale : SUBSET PluginRun, put : SUBSET PluginRun]
  BY DEF PluginTypeOK
<1>2. CASE StaleReleased(p, r)
  <2>1. /\ boot' = [boot EXCEPT ![p].stale = @ \ {r}] /\ Released(p, r) /\ r \in boot[p].stale
        /\ UNCHANGED <<pluginRun, overlooked, revived, pluginRestarts>>
    BY <1>2 DEF StaleReleased
  <2>2. pluginRun[r].at = "ended" \/ (pluginRun[r].at = "live" /\ r \in overlooked)
    BY <2>1 DEF Knows
  <2>3. /\ refs' \subseteq refs
        /\ \A pair \in refs : pair[2] /= r => pair \in refs' /\ status'[pair[1]] = status[pair[1]]
        /\ status' \in [Version -> {"none", "ready", "draining", "disposed"}]
        /\ contributed' \subseteq Version /\ owner' \in Version \cup {NoVersion}
        /\ instances' \in [Registry -> SUBSET Version]
        /\ NameServed' /\ DrainingUsed'
    BY <2>1, <2>2, ReleasedKeeps
  <2>4. PluginTypeOK'
    BY <1>1, <2>1, <2>3 DEF PluginTypeOK
  <2>5. Held'
    <3>1. ASSUME NEW o \in PluginRun \ overlooked, pluginRun[o].at = "live"
          PROVE  status'[pluginRun[o].version] \in Serving /\ <<pluginRun[o].version, o>> \in refs'
      <4> DEFINE pair == <<pluginRun[o].version, o>>
      <4>1. o /= r /\ pair \in refs /\ status[pair[1]] \in Serving
        BY <2>2, <3>1 DEF Held
      <4> QED
        BY <2>3, <4>1
    <3> QED
      BY <2>1, <3>1 DEF Held
  <2>6. RefsTrue'
    BY <2>1, <2>3 DEF RefsTrue
  <2>7. ASSUME NEW q \in Registry  PROVE Knows(boot[q])'
    <3>1. /\ boot'[q].at = boot[q].at /\ boot'[q].live = boot[q].live
          /\ boot'[q].put = boot[q].put /\ boot'[q].stale \subseteq boot[q].stale
      BY <1>1, <2>1 DEF PluginTypeOK
    <3> QED
      BY <2>1, <3>1 DEF Knows
  <2> QED
    BY <2>3, <2>4, <2>5, <2>6, <2>7
<1>3. CASE RefRestored(p, r)
  <2>1. /\ boot' = [boot EXCEPT ![p].put = {}] /\ refs' = refs \cup {<<pluginRun[r].version, r>>}
        /\ r \in boot[p].put
        /\ UNCHANGED <<status, contributed, owner, instances, pluginRun, overlooked, revived, pluginRestarts>>
    BY <1>3 DEF RefRestored
  <2>2. pluginRun[r].at = "live" \/ r \in revived
    BY <2>1 DEF Knows
  <2>3. pluginRun[r].version \in Version
    BY <2>2 DEF RefsTrue
  <2>4. PluginTypeOK'
    <3>1. refs' \subseteq Version \X PluginRun
      BY <2>1, <2>3 DEF PluginTypeOK
    <3>2. boot' \in [Registry -> [at : {"loading", "listing", "settling", "up", "failed"}, load : SUBSET Version,
                     live : SUBSET PluginRun, stale : SUBSET PluginRun, put : SUBSET PluginRun]]
      BY <1>1, <2>1 DEF PluginTypeOK
    <3> QED
      BY <2>1, <3>1, <3>2 DEF PluginTypeOK
  <2>5. Held' /\ NameServed' /\ DrainingUsed'
    BY <2>1 DEF Held, NameServed, DrainingUsed
  <2>6. RefsTrue'
    BY <2>1, <2>2 DEF RefsTrue
  <2>7. ASSUME NEW q \in Registry  PROVE Knows(boot[q])'
    <3>1. /\ boot'[q].at = boot[q].at /\ boot'[q].live = boot[q].live
          /\ boot'[q].put \subseteq boot[q].put /\ boot'[q].stale = boot[q].stale
      BY <1>1, <2>1 DEF PluginTypeOK
    <3> QED
      BY <2>1, <3>1 DEF Knows
  <2> QED
    BY <2>4, <2>5, <2>6, <2>7
<1> QED
  BY <1>2, <1>3

\* No plugin is installed, no run holds one, and both processes serve.
LEMMA PluginStarts == PluginInit => PluginInv
  BY PluginAssumption
  DEF PluginInit, PluginInv, PluginTypeOK, Held, NameServed, DrainingUsed, RefsTrue, Knows, Up, Serving

\* Every step of installers, runs and recoveries keeps what a run holds.
LEMMA PluginKept == PluginInv /\ [PluginNext]_lvars => PluginInv'
<1>1. ASSUME PluginInv, UNCHANGED lvars  PROVE PluginInv'
  BY <1>1 DEF PluginInv, PluginTypeOK, Held, NameServed, DrainingUsed, RefsTrue, Knows, lvars
<1>2. ASSUME PluginInv, NEW p \in Registry, Recovery(p)  PROVE PluginInv'
  BY <1>2, RestartKeeps, ReadsKeep, RehydrateKeeps, SettlesKeep DEF Recovery
<1> QED
  BY <1>1, <1>2, LoadKeeps, DrainKeeps, SnapshotComposes, BindKeeps, ReleaseKeeps DEF PluginNext

\* drain, bind_run, release_run and recover in two processes: for any number of runs, versions and
\* restarts, a live run's version is neither disposed nor without its reference unless a recovery
\* overlooked the run, a reference outlives its run and a process is refused its start only by a run
\* bound or ended behind the back of a recovery, and the contributed name follows.
THEOREM PluginsSound == PluginSpec => []PluginSound
<1> QED
  BY PluginInvSound, PluginStarts, PluginKept, PTL DEF PluginSpec

------------------------------------------------------------------------------
(* Model setup *)

\* Where a request of the setup page is, and what became of a probe.
SetupPoint == {"new", "verify", "waiting", "reaping", "publish", "over"}
Task == {"none", "running", "cancelling", "cancelled", "raised"} \cup Report
\* A request, a probe in flight and a saved profile.
ReqRow == [at : SetupPoint, kind : {"test", "save"}, print : Fingerprint, activate : BOOLEAN,
           base : 0 .. MaxSaves, retained : Nat, token : 0 .. MaxFlights, accept : BOOLEAN,
           flight : 0 .. MaxFlights, report : Report \cup {"none"}]
FlightRow == [print : Fingerprint, users : 0 .. MaxActive, task : Task]
ProfileRow == [report : Report \cup {"none"}, mode : Mode, accepted : BOOLEAN, cred : Nat]

\* The vault entries saved profiles refer to, and the requests that wait for a probe.
Used == {profiles[v].cred : v \in 1 .. current}
WaitingFor(f) == {r \in SetupReq : sreq[r].at = "waiting" /\ sreq[r].flight = f}

\* The requests, probes and profiles keep their shapes.
SetupShapes ==
    /\ sreq \in [SetupReq -> ReqRow]
    /\ flight \in [FlightId -> FlightRow]
    /\ table \in [Fingerprint -> 0 .. MaxFlights] /\ cache \in [Fingerprint -> 0 .. MaxFlights]
    /\ profiles \in [ProfileRev -> ProfileRow]
    /\ current \in 0 .. MaxSaves /\ default \in 0 .. current /\ setupDeaths \in Nat

\* No more requests than admitted, each probe counts those waiting for it.
Counted ==
    /\ IsFiniteSet(Open) /\ Cardinality(Open) <= MaxActive
    /\ \A f \in FlightId : flight[f].users = Cardinality(WaitingFor(f))

\* A probe, a reused report and a request that waits are of one fingerprint.
OneFingerprint ==
    /\ \A p \in Fingerprint :
          /\ table[p] > 0 => flight[table[p]].print = p /\ flight[table[p]].task /= "none"
          /\ cache[p] > 0 => flight[cache[p]].print = p /\ flight[cache[p]].task \in Report
    /\ \A r \in SetupReq :
          sreq[r].at \in {"waiting", "publish"} =>
              /\ sreq[r].flight > 0 => /\ flight[sreq[r].flight].print = sreq[r].print
                                       /\ flight[sreq[r].flight].task /= "none"
              /\ sreq[r].at = "waiting" => sreq[r].flight > 0
              /\ sreq[r].at = "publish" /\ sreq[r].activate => sreq[r].report \in Report

\* What a request may publish: a default was asked of the whole suite, a credential is kept.
RequestTrue ==
    \A r \in SetupReq :
        /\ sreq[r].activate => sreq[r].print[2] = "agent"
        /\ sreq[r].retained \in {0} \cup Used

\* The vault holds what profiles refer to and what a death left behind.
VaultTrue == IsFiniteSet(vault) /\ lost \subseteq vault /\ Used \subseteq vault /\ vault \subseteq Used \cup lost

\* The inductive invariant of the setup.
SetupInv ==
    SetupShapes /\ Counted /\ OneFingerprint /\ RequestTrue /\ VaultTrue /\ DefaultVerified

\* The invariant makes the default verified and the credentials kept.
LEMMA SetupPromise == SetupInv => SetupTypeOK /\ DefaultVerified /\ CredentialsKept
<1> SUFFICES ASSUME SetupInv PROVE SetupTypeOK /\ DefaultVerified /\ CredentialsKept
  OBVIOUS
<1>1. SetupTypeOK
  <2>1. \A r \in SetupReq : sreq[r].at \in {"new", "verify", "waiting", "reaping", "publish", "over"}
    BY DEF SetupInv, SetupShapes, ReqRow, SetupPoint
  <2> QED
    BY <2>1 DEF SetupInv, SetupShapes, SetupTypeOK, FlightRow, ProfileRow, Task, VaultTrue
<1> QED
  BY <1>1 DEF SetupInv, VaultTrue, CredentialsKept, Used

\* There is a fingerprint, so a request has a shape before it is made.
LEMMA SomeFingerprint == (CHOOSE f \in Fingerprint : TRUE) \in Fingerprint /\ NewReq \in ReqRow
                         /\ NoFlight \in FlightRow /\ MaxFlights \in Nat /\ MaxSaves \in Nat /\ MaxActive \in Nat
                         /\ 0 \in 0 .. MaxFlights /\ 0 \in 0 .. MaxSaves /\ 0 \in 0 .. MaxActive
<1>1. \E f : f \in Fingerprint
  <2>1. PICK config \in Config : TRUE
    BY SetupAssumption
  <2>2. <<config, "agent">> \in Fingerprint
    BY <2>1 DEF Fingerprint, Mode
  <2> QED
    BY <2>2
<1>2. (CHOOSE f \in Fingerprint : TRUE) \in Fingerprint
  BY <1>1
<1>3. MaxFlights \in Nat /\ MaxSaves \in Nat /\ MaxActive \in Nat
      /\ 0 \in 0 .. MaxFlights /\ 0 \in 0 .. MaxSaves /\ 0 \in 0 .. MaxActive
  BY SetupAssumption
<1>4. NewReq \in ReqRow
  BY <1>2, <1>3 DEF NewReq, ReqRow, SetupPoint
<1>5. NoFlight \in FlightRow
  BY <1>2, <1>3 DEF NoFlight, FlightRow, Task
<1> QED
  BY <1>2, <1>3, <1>4, <1>5

\* No profile, no probe and no request.
LEMMA SetupStarts == SetupInit => SetupInv
<1> SUFFICES ASSUME SetupInit PROVE SetupInv
  OBVIOUS
<1> USE DEF SetupInit
<1>1. NoProfile \in ProfileRow
  BY DEF NoProfile, ProfileRow, Mode
<1>2. SetupShapes
  BY <1>1, SomeFingerprint DEF SetupShapes
<1>3. Open = {} /\ \A f : WaitingFor(f) = {}
  BY DEF Open, WaitingFor, NewReq
<1>4. Counted
  <2>1. IsFiniteSet({}) /\ Cardinality({}) = 0
    BY FS_EmptySet
  <2>2. 0 <= MaxActive
    BY SomeFingerprint
  <2>3. \A f \in FlightId : flight[f].users = 0
    BY DEF NoFlight
  <2> QED
    BY <1>3, <2>1, <2>2, <2>3 DEF Counted
<1>5. OneFingerprint
  BY DEF OneFingerprint, NewReq
<1>6. RequestTrue /\ VaultTrue /\ DefaultVerified
  BY FS_EmptySet DEF RequestTrue, VaultTrue, Used, DefaultVerified, NewReq
<1> QED
  BY <1>2, <1>4, <1>5, <1>6 DEF SetupInv

------------------------------------------------------------------------------
\* Steps of a request that leave the probes, the profiles and the vault alone.
LEMMA OpenFewer ==
    ASSUME NEW S, NEW T, IsFiniteSet(S), Cardinality(S) <= MaxActive, T \subseteq S
    PROVE  IsFiniteSet(T) /\ Cardinality(T) <= MaxActive
<1>1. IsFiniteSet(T) /\ Cardinality(T) <= Cardinality(S)
  BY FS_Subset
<1> QED
  BY <1>1, FS_CardinalityType, SetupAssumption

\* A step of one request that leaves probes and profiles alone.
LEMMA RequestMoves ==
    ASSUME SetupInv, NEW r \in SetupReq, NEW q \in ReqRow, sreq' = [sreq EXCEPT ![r] = q],
           UNCHANGED <<flight, table, cache, profiles, current, default, setupDeaths>>,
           sreq[r].at /= "waiting", q.at /= "waiting",
           (IsFiniteSet(Open') /\ Cardinality(Open') <= MaxActive) \/ sreq[r].at \notin {"new", "over"},
           q.activate => q.print[2] = "agent", q.retained \in {0} \cup Used,
           q.at = "publish" => /\ q.flight > 0 => flight[q.flight].print = q.print /\ flight[q.flight].task /= "none"
                               /\ q.activate => q.report \in Report,
           VaultTrue'
    PROVE  SetupInv'
<1>1. /\ sreq \in [SetupReq -> ReqRow] /\ sreq' \in [SetupReq -> ReqRow] /\ sreq'[r] = q
      /\ \A o \in SetupReq : o /= r => sreq'[o] = sreq[o]
  BY DEF SetupInv, SetupShapes
<1>2. SetupShapes' /\ Used' = Used /\ DefaultVerified'
  BY <1>1 DEF SetupInv, SetupShapes, Used, DefaultVerified
<1>3. \A f : WaitingFor(f)' = WaitingFor(f)
  BY <1>1 DEF WaitingFor
<1>4. Counted'
  <2>1. ASSUME sreq[r].at \notin {"new", "over"}
        PROVE  IsFiniteSet(Open') /\ Cardinality(Open') <= MaxActive
    <3>1. Open' \subseteq Open
      BY <1>1, <2>1 DEF Open
    <3> QED
      BY <3>1, OpenFewer DEF SetupInv, Counted
  <2> QED
    BY <1>3, <2>1 DEF SetupInv, Counted
<1>5. OneFingerprint' /\ RequestTrue'
  BY <1>1, <1>2 DEF SetupInv, OneFingerprint, RequestTrue
<1> QED
  BY <1>2, <1>4, <1>5 DEF SetupInv

\* A request is admitted while there is room for it.
LEMMA AdmittedKeeps == ASSUME SetupInv, NEW r \in SetupReq, SetupAdmitted(r) PROVE SetupInv'
<1>1. /\ sreq[r].at = "new" /\ Cardinality(Open) < MaxActive
      /\ UNCHANGED <<flight, table, cache, profiles, current, default, vault, lost, setupDeaths>>
  BY DEF SetupAdmitted
<1>2. PICK kind \in {"test", "save"}, print \in Fingerprint, activate, typed, accept \in BOOLEAN,
           token \in {0} \cup {f \in FlightId : flight[f].task \in Report} :
        /\ accept => activate /\ token > 0
        /\ (kind = "save" /\ activate) => print[2] = "agent"
        /\ kind = "test" => ~activate
        /\ current = 0 => typed
        /\ (kind = "save" /\ ~activate /\ current > 0) => profiles[current].report = "none"
        /\ sreq' = [sreq EXCEPT ![r] =
                        [Prepared(r, kind, print, activate, token, accept) EXCEPT
                           !.at = IF kind = "save" /\ ~activate THEN "publish" ELSE "verify",
                           !.retained = IF typed THEN 0 ELSE @]]
  BY DEF SetupAdmitted
<1> DEFINE q == [Prepared(r, kind, print, activate, token, accept) EXCEPT
                           !.at = IF kind = "save" /\ ~activate THEN "publish" ELSE "verify",
                           !.retained = IF typed THEN 0 ELSE @]
           stored == IF current = 0 THEN 0 ELSE profiles[current].cred
<1>3. current \in 0 .. MaxSaves /\ token \in 0 .. MaxFlights /\ MaxFlights \in Nat /\ MaxSaves \in Nat
  BY <1>2, SomeFingerprint DEF SetupInv, SetupShapes, FlightId
<1>4. stored \in Nat /\ stored \in {0} \cup Used
  <2>1. CASE current > 0
    <3>1. current \in ProfileRev /\ current \in 1 .. current
      BY <1>3, <2>1 DEF ProfileRev
    <3>2. profiles[current] \in ProfileRow
      BY <3>1 DEF SetupInv, SetupShapes
    <3> QED
      BY <1>3, <2>1, <3>1, <3>2 DEF Used, ProfileRow
  <2> QED
    BY <1>3, <2>1
<1> HIDE DEF stored
<1>5. q = [at |-> IF kind = "save" /\ ~activate THEN "publish" ELSE "verify", kind |-> kind,
           print |-> print, activate |-> activate, base |-> current,
           retained |-> IF typed THEN 0 ELSE stored, token |-> token, accept |-> accept, flight |-> 0, report |-> "none"]
  <2> DEFINE blank == CHOOSE f \in Fingerprint : TRUE
  <2>1. NewReq = [at |-> "new", kind |-> "test", print |-> blank, activate |-> FALSE,
                  base |-> 0, retained |-> 0, token |-> 0, accept |-> FALSE, flight |-> 0, report |-> "none"]
    BY DEF NewReq
  <2> HIDE DEF blank
  <2>2. Prepared(r, kind, print, activate, token, accept) =
          [at |-> "verify", kind |-> kind, print |-> print, activate |-> activate, base |-> current,
           retained |-> stored, token |-> token, accept |-> accept, flight |-> 0, report |-> "none"]
    <3>1. Prepared(r, kind, print, activate, token, accept) =
            [NewReq EXCEPT !.at = "verify", !.kind = kind, !.print = print, !.activate = activate,
                           !.base = current, !.token = token, !.accept = accept, !.retained = stored]
      BY DEF Prepared, stored
    <3> QED
      BY <2>1, <3>1
  <2>3. q = [Prepared(r, kind, print, activate, token, accept) EXCEPT
                           !.at = IF kind = "save" /\ ~activate THEN "publish" ELSE "verify",
                           !.retained = IF typed THEN 0 ELSE stored]
    BY <2>2
  <2> DEFINE point == IF kind = "save" /\ ~activate THEN "publish" ELSE "verify"
             kept == IF typed THEN 0 ELSE stored
  <2>4. q = [Prepared(r, kind, print, activate, token, accept) EXCEPT !.at = point, !.retained = kept]
    BY <2>3
  <2> DEFINE draft == Prepared(r, kind, print, activate, token, accept)
  <2>6. q = [draft EXCEPT !.at = point, !.retained = kept]
    BY <2>4
  <2>7. draft = [at |-> "verify", kind |-> kind, print |-> print, activate |-> activate, base |-> current,
                 retained |-> stored, token |-> token, accept |-> accept, flight |-> 0, report |-> "none"]
    BY <2>2
  <2> HIDE DEF point, kept, q, draft
  <2>5. q = [at |-> point, kind |-> kind, print |-> print, activate |-> activate, base |-> current,
             retained |-> kept, token |-> token, accept |-> accept, flight |-> 0, report |-> "none"]
    BY <2>6, <2>7
  <2> QED
    BY <2>5 DEF point, kept
<1>0. sreq' = [sreq EXCEPT ![r] = q]
  BY <1>2
<1> HIDE DEF q
<1>6. q \in ReqRow /\ q.at \in {"publish", "verify"} /\ (q.activate => q.print[2] = "agent")
      /\ (q.activate => q.at /= "publish") /\ q.flight = 0 /\ q.retained \in {0} \cup Used
  <2>1. (IF typed THEN 0 ELSE stored) \in Nat /\ (IF typed THEN 0 ELSE stored) \in {0} \cup Used
    BY <1>4
  <2>2. 0 \in 0 .. MaxFlights
    BY SomeFingerprint
  <2> QED
    BY <1>2, <1>3, <1>5, <2>1, <2>2 DEF ReqRow, SetupPoint
<1>7. IsFiniteSet(Open') /\ Cardinality(Open') <= MaxActive
  <2>1. Open' = Open \cup {r} /\ r \notin Open
    BY <1>0, <1>1, <1>6 DEF SetupInv, SetupShapes, Open
  <2>2. IsFiniteSet(Open) /\ Cardinality(Open) \in Nat
    BY FS_CardinalityType DEF SetupInv, Counted
  <2>3. IsFiniteSet(Open \cup {r}) /\ Cardinality(Open \cup {r}) = Cardinality(Open) + 1
    BY <2>1, <2>2, FS_AddElement
  <2>4. MaxActive \in Nat
    BY SetupAssumption
  <2> QED
    BY <1>1, <2>1, <2>2, <2>3, <2>4
<1>8. VaultTrue'
  BY <1>1 DEF SetupInv, VaultTrue, Used
<1> QED
  <2>1. sreq[r].at /= "waiting" /\ q.at /= "waiting"
    BY <1>1, <1>6
  <2>2. q.at = "publish" => /\ q.flight > 0 => flight[q.flight].print = q.print /\ flight[q.flight].task /= "none"
                            /\ q.activate => q.report \in Report
    BY <1>6
  <2> QED
    BY <1>0, <1>1, <1>6, <1>7, <1>8, <2>1, <2>2, RequestMoves

\* A request that ends without a probe to leave.
LEMMA EndsKeep ==
    ASSUME SetupInv, NEW r \in SetupReq, sreq' = End(r), sreq[r].at \notin {"new", "over", "waiting"},
           UNCHANGED <<flight, table, cache, profiles, current, default, setupDeaths>>, VaultTrue'
    PROVE  SetupInv'
<1> DEFINE q == [sreq[r] EXCEPT !.at = "over"]
<1>1. sreq[r] \in ReqRow
  BY DEF SetupInv, SetupShapes
<1>2. q \in ReqRow /\ q.at = "over" /\ q.activate = sreq[r].activate /\ q.print = sreq[r].print
      /\ q.retained = sreq[r].retained /\ sreq' = [sreq EXCEPT ![r] = q]
  BY <1>1 DEF ReqRow, SetupPoint, End
<1> HIDE DEF q
<1>3. (q.activate => q.print[2] = "agent") /\ q.retained \in {0} \cup Used
  BY <1>2 DEF SetupInv, RequestTrue
<1> QED
  BY <1>2, <1>3, RequestMoves

\* What leaves profiles and vault alone keeps the vault true.
LEMMA SameVault ==
    ASSUME SetupInv, UNCHANGED <<profiles, current, vault, lost>> PROVE VaultTrue' /\ Used' = Used
BY DEF SetupInv, VaultTrue, Used

\* A save whose receipt expired, or whose report forbids it, ends.
LEMMA RefusalsKeep ==
    ASSUME SetupInv, NEW r \in SetupReq, ReceiptExpired(r) \/ Unpublishable(r) PROVE SetupInv'
<1>1. VaultTrue'
  BY SameVault DEF ReceiptExpired, Unpublishable
<1> QED
  BY <1>1, EndsKeep DEF ReceiptExpired, Unpublishable, Verifying

\* A cached report of the same fingerprint is taken for the probe.
LEMMA ReusesKeeps == ASSUME SetupInv, NEW r \in SetupReq, Reuses(r) PROVE SetupInv'
<1> DEFINE p == sreq[r].print
           f == cache[p]
           q == [sreq[r] EXCEPT !.at = "publish", !.flight = f, !.report = flight[f].task]
<1>1. /\ sreq[r].at = "verify" /\ f > 0 /\ sreq' = [sreq EXCEPT ![r] = q]
      /\ UNCHANGED <<flight, table, cache, profiles, current, default, vault, lost, setupDeaths>>
  BY DEF Reuses, Verifying, FingerprintOf, SetupInv, SetupShapes
<1>2. sreq[r] \in ReqRow /\ p \in Fingerprint
  BY DEF SetupInv, SetupShapes, ReqRow
<1>3. f \in 0 .. MaxFlights /\ flight[f].print = p /\ flight[f].task \in Report
  BY <1>1, <1>2 DEF SetupInv, SetupShapes, OneFingerprint
<1> HIDE DEF f
<1>4. /\ q \in ReqRow /\ q.at = "publish" /\ q.flight = f /\ q.report = flight[f].task
      /\ q.activate = sreq[r].activate /\ q.print = p /\ q.retained = sreq[r].retained
  BY <1>2, <1>3 DEF ReqRow, SetupPoint
<1> HIDE DEF q, p
<1>5. (q.activate => q.print[2] = "agent") /\ q.retained \in {0} \cup Used
  BY <1>4 DEF SetupInv, RequestTrue, p
<1>6. VaultTrue'
  BY <1>1, SameVault
<1> QED
  <2>1. "none" \notin Report
    BY DEF Report
  <2> QED
    BY <1>1, <1>3, <1>4, <1>5, <1>6, <2>1, RequestMoves
------------------------------------------------------------------------------
\* Steps of the probes: requests join and leave, and nothing is published.
SameAim(r) ==
    /\ sreq'[r].activate = sreq[r].activate /\ sreq'[r].print = sreq[r].print
    /\ sreq'[r].retained = sreq[r].retained

\* A step of the probes: what is in flight, in the table and in the cache stays of one fingerprint.
LEMMA ProbeSteps ==
    ASSUME SetupInv, UNCHANGED <<profiles, current, default, vault, lost, setupDeaths>>,
           sreq' \in [SetupReq -> ReqRow], flight' \in [FlightId -> FlightRow],
           table' \in [Fingerprint -> 0 .. MaxFlights], cache' \in [Fingerprint -> 0 .. MaxFlights],
           \A r \in SetupReq : SameAim(r), Open' \subseteq Open,
           \A f \in FlightId : flight'[f].users = Cardinality(WaitingFor(f)'), OneFingerprint'
    PROVE  SetupInv'
<1>1. SetupShapes'
  BY DEF SetupInv, SetupShapes
<1>2. Counted'
  BY OpenFewer DEF SetupInv, Counted
<1>3. VaultTrue' /\ Used' = Used /\ DefaultVerified'
  BY SameVault DEF SetupInv, DefaultVerified
<1>4. RequestTrue'
  <2>1. ASSUME NEW r \in SetupReq
        PROVE  /\ sreq'[r].activate => sreq'[r].print[2] = "agent"
               /\ sreq'[r].retained \in {0} \cup Used'
    BY <1>3 DEF SetupInv, RequestTrue, SameAim
  <2> QED
    BY <2>1 DEF RequestTrue
<1> QED
  BY <1>1, <1>2, <1>3, <1>4 DEF SetupInv

\* A request that begins to wait is one more of an admitted number.
LEMMA OneMore ==
    ASSUME SetupInv, NEW r \in SetupReq, NEW f \in FlightId, sreq[r].at = "verify",
           NEW q \in ReqRow, q.at = "waiting", q.flight = f, sreq' = [sreq EXCEPT ![r] = q]
    PROVE  /\ Cardinality(WaitingFor(f)') = flight[f].users + 1 /\ flight[f].users + 1 \in 0 .. MaxActive
           /\ \A g \in FlightId : g /= f => WaitingFor(g)' = WaitingFor(g)
           /\ Open' = Open
<1>1. sreq \in [SetupReq -> ReqRow] /\ sreq'[r] = q /\ \A o \in SetupReq : o /= r => sreq'[o] = sreq[o]
  BY DEF SetupInv, SetupShapes
<1>2. Open' = Open
  BY <1>1 DEF Open
<1>3. WaitingFor(f)' = WaitingFor(f) \cup {r} /\ r \notin WaitingFor(f)
  BY <1>1 DEF WaitingFor
<1>4. \A g \in FlightId : g /= f => WaitingFor(g)' = WaitingFor(g)
  BY <1>1 DEF WaitingFor
<1>5. WaitingFor(f) \subseteq Open /\ WaitingFor(f) \cup {r} \subseteq Open
  BY <1>1 DEF WaitingFor, Open
<1>6. /\ IsFiniteSet(WaitingFor(f)) /\ Cardinality(WaitingFor(f) \cup {r}) <= MaxActive
      /\ Cardinality(WaitingFor(f)) = flight[f].users
  BY <1>5, OpenFewer DEF SetupInv, Counted
<1>7. Cardinality(WaitingFor(f) \cup {r}) = Cardinality(WaitingFor(f)) + 1 /\ Cardinality(WaitingFor(f)) \in Nat
  BY <1>3, <1>6, FS_AddElement, FS_CardinalityType
<1>8. MaxActive \in Nat
  BY SomeFingerprint
<1> QED
  BY <1>2, <1>3, <1>4, <1>6, <1>7, <1>8

\* One that waits no longer is one fewer.
LEMMA OneFewer ==
    ASSUME SetupInv, NEW r \in SetupReq, NEW f, f = sreq[r].flight, sreq[r].at = "waiting",
           NEW q \in ReqRow, q.at \in {"publish", "over", "reaping"}, sreq' = [sreq EXCEPT ![r] = q]
    PROVE  /\ f \in FlightId /\ Cardinality(WaitingFor(f)') = flight[f].users - 1
           /\ flight[f].users - 1 \in 0 .. MaxActive
           /\ \A g \in FlightId : g /= f => WaitingFor(g)' = WaitingFor(g)
           /\ Open' \subseteq Open
<1>1. sreq \in [SetupReq -> ReqRow] /\ sreq'[r] = q /\ \A o \in SetupReq : o /= r => sreq'[o] = sreq[o]
  BY DEF SetupInv, SetupShapes
<1>2. Open' \subseteq Open
  BY <1>1 DEF Open
<1>3. f \in FlightId
  <2>1. f \in 0 .. MaxFlights /\ f > 0
    BY <1>1 DEF SetupInv, OneFingerprint, ReqRow
  <2> QED
    BY <2>1, SomeFingerprint DEF FlightId
<1>4. WaitingFor(f)' = WaitingFor(f) \ {r} /\ r \in WaitingFor(f)
  BY <1>1 DEF WaitingFor
<1>5. \A g \in FlightId : g /= f => WaitingFor(g)' = WaitingFor(g)
  BY <1>1 DEF WaitingFor
<1>6. WaitingFor(f) \subseteq Open
  BY DEF WaitingFor, Open
<1>7. IsFiniteSet(WaitingFor(f)) /\ Cardinality(WaitingFor(f)) = flight[f].users
      /\ Cardinality(WaitingFor(f)) <= MaxActive
  BY <1>3, <1>6, OpenFewer DEF SetupInv, Counted
<1>8. Cardinality(WaitingFor(f) \ {r}) = Cardinality(WaitingFor(f)) - 1 /\ Cardinality(WaitingFor(f) \ {r}) \in Nat
      /\ Cardinality(WaitingFor(f)) \in Nat
  <2>1. IsFiniteSet(WaitingFor(f) \ {r})
    BY <1>7, FS_RemoveElement
  <2> QED
    BY <1>4, <1>7, <2>1, FS_RemoveElement, FS_CardinalityType
<1>9. MaxActive \in Nat
  BY SomeFingerprint
<1> QED
  BY <1>2, <1>3, <1>4, <1>5, <1>7, <1>8, <1>9

\* A probe keeps its fingerprint and its report, so what refers to it stays true.
LEMMA StillOne ==
    ASSUME SetupInv,
           \A g \in FlightId : flight[g].task /= "none" =>
               /\ flight'[g].print = flight[g].print /\ flight'[g].task /= "none"
               /\ flight[g].task \in Report => flight'[g].task = flight[g].task,
           \A x \in Fingerprint :
               /\ \/ table'[x] \in {0, table[x]}
                  \/ flight'[table'[x]].print = x /\ flight'[table'[x]].task /= "none"
               /\ \/ cache'[x] \in {0, cache[x]}
                  \/ flight'[cache'[x]].print = x /\ flight'[cache'[x]].task \in Report,
           \A o \in SetupReq :
               \/ sreq'[o] = sreq[o]
               \/ sreq'[o].at \notin {"waiting", "publish"}
               \/ /\ sreq'[o].flight > 0 /\ flight'[sreq'[o].flight].print = sreq'[o].print
                  /\ flight'[sreq'[o].flight].task /= "none"
                  /\ sreq'[o].at = "publish" /\ sreq'[o].activate => sreq'[o].report \in Report
    PROVE  OneFingerprint'
<1>1. \A g \in 0 .. MaxFlights : g > 0 => g \in FlightId
  BY SomeFingerprint DEF FlightId
<1>2. \A o \in SetupReq : sreq[o].flight \in 0 .. MaxFlights
  BY DEF SetupInv, SetupShapes, ReqRow
<1>3. \A x \in Fingerprint : table[x] \in 0 .. MaxFlights /\ cache[x] \in 0 .. MaxFlights
  BY DEF SetupInv, SetupShapes
<1>4. ASSUME NEW x \in Fingerprint, table'[x] > 0
      PROVE  flight'[table'[x]].print = x /\ flight'[table'[x]].task /= "none"
  BY <1>1, <1>3, <1>4 DEF SetupInv, OneFingerprint
<1>5. ASSUME NEW x \in Fingerprint, cache'[x] > 0
      PROVE  flight'[cache'[x]].print = x /\ flight'[cache'[x]].task \in Report
  <2>1. cache'[x] = cache[x] => cache[x] \in FlightId /\ flight[cache[x]].task \in Report /\ flight[cache[x]].print = x
    BY <1>1, <1>3, <1>5 DEF SetupInv, OneFingerprint
  <2>2. "none" \notin Report
    BY DEF Report
  <2> QED
    BY <1>5, <2>1, <2>2
<1>6. ASSUME NEW o \in SetupReq, sreq'[o].at \in {"waiting", "publish"}
      PROVE  /\ sreq'[o].flight > 0 => /\ flight'[sreq'[o].flight].print = sreq'[o].print
                                        /\ flight'[sreq'[o].flight].task /= "none"
             /\ sreq'[o].at = "waiting" => sreq'[o].flight > 0
             /\ sreq'[o].at = "publish" /\ sreq'[o].activate => sreq'[o].report \in Report
  <2>1. CASE sreq'[o] = sreq[o]
    <3>1. /\ sreq[o].flight > 0 => sreq[o].flight \in FlightId
          /\ sreq[o].flight > 0 => flight[sreq[o].flight].print = sreq[o].print
      BY <1>1, <1>2, <1>6, <2>1 DEF SetupInv, OneFingerprint
    <3>2. sreq[o].flight > 0 => flight[sreq[o].flight].task /= "none"
      BY <3>1, <1>6, <2>1 DEF SetupInv, OneFingerprint
    <3> QED
      BY <1>6, <2>1, <3>1, <3>2 DEF SetupInv, OneFingerprint
  <2> QED
    BY <1>6, <2>1
<1> QED
  BY <1>4, <1>5, <1>6 DEF OneFingerprint

\* A report dropped from the cache leaves the others as they were.
LEMMA DropsOne ==
    ASSUME SetupInv, NEW p \in Fingerprint, cache' = [cache EXCEPT ![p] = 0]
    PROVE  /\ cache' \in [Fingerprint -> 0 .. MaxFlights]
           /\ \A x \in Fingerprint : cache'[x] \in {0, cache[x]}
BY SomeFingerprint DEF SetupInv, SetupShapes

\* A request joins the probe in flight of its fingerprint.
LEMMA JoinsKeeps == ASSUME SetupInv, NEW r \in SetupReq, Joins(r) PROVE SetupInv'
<1> DEFINE p == sreq[r].print
<1>0. PICK f : f = table[p]
  OBVIOUS
<1> DEFINE q == [sreq[r] EXCEPT !.at = "waiting", !.flight = f]
           n == [flight[f] EXCEPT !.users = @ + 1]
<1>1. /\ sreq[r] \in ReqRow /\ sreq \in [SetupReq -> ReqRow] /\ p \in Fingerprint
      /\ flight \in [FlightId -> FlightRow]
  BY DEF SetupInv, SetupShapes, ReqRow
<1>2. /\ sreq[r].at = "verify" /\ f > 0 /\ sreq' = [sreq EXCEPT ![r] = q]
      /\ flight' = [flight EXCEPT ![f] = n]
      /\ cache' = [cache EXCEPT ![p] = 0]
      /\ UNCHANGED <<table, profiles, current, default, vault, lost, setupDeaths>>
  BY <1>0, <1>1 DEF Joins, NeedsProbe, Verifying, FingerprintOf
<1>0c. cache' \in [Fingerprint -> 0 .. MaxFlights] /\ \A x \in Fingerprint : cache'[x] \in {0, cache[x]}
  BY <1>1, <1>2, DropsOne
<1>3. f \in FlightId /\ f \in 0 .. MaxFlights /\ flight[f].print = p /\ flight[f].task /= "none"
      /\ flight[f] \in FlightRow
  BY <1>0, <1>1, <1>2, SomeFingerprint DEF SetupInv, SetupShapes, OneFingerprint, FlightId
<1>4. /\ q \in ReqRow /\ q.at = "waiting" /\ q.flight = f /\ q.print = p
      /\ q.activate = sreq[r].activate /\ q.retained = sreq[r].retained
  BY <1>1, <1>3 DEF ReqRow, SetupPoint
<1> HIDE DEF q, p
<1>5. /\ Cardinality(WaitingFor(f)') = flight[f].users + 1 /\ flight[f].users + 1 \in 0 .. MaxActive
      /\ \A g \in FlightId : g /= f => WaitingFor(g)' = WaitingFor(g)
      /\ Open' = Open
  BY <1>2, <1>3, <1>4, OneMore
<1>6. n \in FlightRow /\ n.users = flight[f].users + 1 /\ n.print = flight[f].print /\ n.task = flight[f].task
  BY <1>3, <1>5 DEF FlightRow
<1> HIDE DEF n
<1>7. /\ flight' \in [FlightId -> FlightRow] /\ flight'[f] = n
      /\ \A g \in FlightId : g /= f => flight'[g] = flight[g]
      /\ sreq' \in [SetupReq -> ReqRow] /\ sreq'[r] = q
      /\ \A o \in SetupReq : o /= r => sreq'[o] = sreq[o]
  BY <1>1, <1>2, <1>3, <1>4, <1>6
<1>8. \A g \in FlightId : flight'[g].users = Cardinality(WaitingFor(g)')
  <2>1. \A g \in FlightId : flight[g].users = Cardinality(WaitingFor(g))
    BY DEF SetupInv, Counted
  <2> QED
    BY <1>5, <1>6, <1>7, <2>1
<1>9. \A g \in FlightId : flight'[g].print = flight[g].print /\ flight'[g].task = flight[g].task
  BY <1>6, <1>7
<1>10. \A o \in SetupReq : SameAim(o)
  BY <1>4, <1>7 DEF SameAim, p
<1>11. OneFingerprint'
  <2>1. sreq'[r].flight > 0 /\ flight'[sreq'[r].flight].print = sreq'[r].print
        /\ flight'[sreq'[r].flight].task /= "none" /\ sreq'[r].at = "waiting"
    BY <1>2, <1>3, <1>4, <1>7, <1>9
  <2> QED
    BY <1>2, <1>0c, <1>7, <1>9, <2>1, StillOne
<1> QED
  BY <1>2, <1>0c, <1>5, <1>7, <1>8, <1>10, <1>11, ProbeSteps DEF SetupInv, SetupShapes

\* A request starts a probe.
LEMMA StartsKeeps == ASSUME SetupInv, NEW r \in SetupReq, StartsProbe(r) PROVE SetupInv'
<1> DEFINE p == sreq[r].print
           n == [print |-> p, task |-> "running", users |-> 1]
<1>1. PICK f \in FlightId :
         /\ flight[f].task = "none" /\ flight' = [flight EXCEPT ![f] = n]
         /\ table' = [table EXCEPT ![p] = f]
         /\ sreq' = [sreq EXCEPT ![r].at = "waiting", ![r].flight = f]
  BY DEF StartsProbe, FingerprintOf
<1> DEFINE q == [sreq[r] EXCEPT !.at = "waiting", !.flight = f]
<1>2. /\ sreq[r].at = "verify"
      /\ cache' = [cache EXCEPT ![p] = 0]
      /\ UNCHANGED <<profiles, current, default, vault, lost, setupDeaths>>
  BY DEF StartsProbe, NeedsProbe, Verifying, FingerprintOf
<1>3. /\ sreq[r] \in ReqRow /\ sreq \in [SetupReq -> ReqRow] /\ p \in Fingerprint
      /\ flight \in [FlightId -> FlightRow] /\ table \in [Fingerprint -> 0 .. MaxFlights]
      /\ f \in 0 .. MaxFlights /\ f > 0
  BY SomeFingerprint DEF SetupInv, SetupShapes, ReqRow, FlightId
<1>0c. cache' \in [Fingerprint -> 0 .. MaxFlights] /\ \A x \in Fingerprint : cache'[x] \in {0, cache[x]}
  BY <1>2, <1>3, DropsOne
<1>4. /\ q \in ReqRow /\ q.at = "waiting" /\ q.flight = f /\ q.print = p
      /\ q.activate = sreq[r].activate /\ q.retained = sreq[r].retained
      /\ sreq' = [sreq EXCEPT ![r] = q]
  BY <1>1, <1>3 DEF ReqRow, SetupPoint
<1> HIDE DEF q
<1>5. /\ Cardinality(WaitingFor(f)') = flight[f].users + 1 /\ flight[f].users + 1 \in 0 .. MaxActive
      /\ \A g \in FlightId : g /= f => WaitingFor(g)' = WaitingFor(g)
      /\ Open' = Open
  BY <1>2, <1>4, OneMore
<1>6. flight[f].users = 0
  <2>1. WaitingFor(f) = {}
    BY <1>1, <1>3 DEF SetupInv, OneFingerprint, WaitingFor
  <2> QED
    BY <2>1, FS_EmptySet DEF SetupInv, Counted
<1>7. n \in FlightRow /\ n.users = 1 /\ n.print = p /\ n.task = "running"
  BY <1>3, <1>5, <1>6 DEF FlightRow, Task
<1> HIDE DEF n, p
<1>8. /\ flight' \in [FlightId -> FlightRow] /\ flight'[f] = n
      /\ \A g \in FlightId : g /= f => flight'[g] = flight[g]
      /\ sreq' \in [SetupReq -> ReqRow] /\ sreq'[r] = q
      /\ \A o \in SetupReq : o /= r => sreq'[o] = sreq[o]
      /\ table' \in [Fingerprint -> 0 .. MaxFlights]
      /\ \A x \in Fingerprint : table'[x] = IF x = p THEN f ELSE table[x]
  BY <1>1, <1>3, <1>4, <1>7
<1>9. \A g \in FlightId : flight'[g].users = Cardinality(WaitingFor(g)')
  <2>1. \A g \in FlightId : flight[g].users = Cardinality(WaitingFor(g))
    BY DEF SetupInv, Counted
  <2> QED
    BY <1>5, <1>6, <1>7, <1>8, <2>1
<1>10. \A o \in SetupReq : SameAim(o)
  BY <1>4, <1>8 DEF SameAim, p
<1>11. OneFingerprint'
  <2>1. sreq'[r].flight > 0 /\ flight'[sreq'[r].flight].print = sreq'[r].print
        /\ flight'[sreq'[r].flight].task /= "none" /\ sreq'[r].at = "waiting"
    BY <1>3, <1>4, <1>7, <1>8
  <2>2. \A g \in FlightId : flight[g].task /= "none" => flight'[g] = flight[g]
    BY <1>1, <1>8
  <2>3. \A x \in Fingerprint : \/ table'[x] = table[x]
                               \/ flight'[table'[x]].print = x /\ flight'[table'[x]].task /= "none"
    BY <1>7, <1>8
  <2> QED
    BY <1>2, <1>0c, <1>8, <2>1, <2>2, <2>3, StillOne
<1> QED
  BY <1>2, <1>0c, <1>5, <1>8, <1>9, <1>10, <1>11, ProbeSteps DEF SetupInv, SetupShapes

\* A request leaves the probe it waits for, with the report or without.
Left(r, f, q, n) ==
    /\ f = sreq[r].flight /\ sreq[r].at = "waiting" /\ q \in ReqRow /\ n \in FlightRow
    /\ q.at \in {"publish", "over", "reaping"} /\ sreq' = [sreq EXCEPT ![r] = q]
    /\ q.activate = sreq[r].activate /\ q.print = sreq[r].print /\ q.retained = sreq[r].retained
    /\ q.at = "publish" => q.flight = f /\ q.report \in Report
    /\ n.users = flight[f].users - 1 /\ n.print = flight[f].print
    /\ n.task /= "none"
    /\ flight[f].task \in Report => n.task = flight[f].task
    /\ flight' = [flight EXCEPT ![f] = n]
    /\ table' \in [Fingerprint -> 0 .. MaxFlights] /\ cache' \in [Fingerprint -> 0 .. MaxFlights]
    /\ \A x \in Fingerprint : table'[x] \in {0, table[x]}
    /\ \A x \in Fingerprint :
          \/ cache'[x] \in {0, cache[x]}
          \/ x = sreq[r].print /\ cache'[x] = f /\ flight[f].task \in Report
    /\ UNCHANGED <<profiles, current, default, vault, lost, setupDeaths>>

\* A request leaves its probe, the last one cancelling it.
LEMMA LeavesKeep ==
    ASSUME SetupInv, NEW r \in SetupReq, NEW f, NEW q, NEW n, Left(r, f, q, n) PROVE SetupInv'
<1> USE DEF Left
<1>1. /\ f \in FlightId /\ Cardinality(WaitingFor(f)') = flight[f].users - 1
      /\ \A g \in FlightId : g /= f => WaitingFor(g)' = WaitingFor(g)
      /\ Open' \subseteq Open
  BY OneFewer
<1>2. /\ sreq \in [SetupReq -> ReqRow] /\ flight \in [FlightId -> FlightRow]
      /\ f > 0 /\ flight[f].print = sreq[r].print /\ flight[f].task /= "none"
  BY DEF SetupInv, SetupShapes, OneFingerprint
<1>3. /\ flight' \in [FlightId -> FlightRow] /\ flight'[f] = n
      /\ \A g \in FlightId : g /= f => flight'[g] = flight[g]
      /\ sreq' \in [SetupReq -> ReqRow] /\ sreq'[r] = q
      /\ \A o \in SetupReq : o /= r => sreq'[o] = sreq[o]
  BY <1>1, <1>2
<1>4. \A g \in FlightId : flight'[g].users = Cardinality(WaitingFor(g)')
  <2>1. \A g \in FlightId : flight[g].users = Cardinality(WaitingFor(g))
    BY DEF SetupInv, Counted
  <2> QED
    BY <1>1, <1>3, <2>1
<1>5. \A o \in SetupReq : SameAim(o)
  BY <1>3 DEF SameAim
<1>6. OneFingerprint'
  <2>1. \/ sreq'[r].at \notin {"waiting", "publish"}
        \/ /\ sreq'[r].flight > 0 /\ flight'[sreq'[r].flight].print = sreq'[r].print
           /\ flight'[sreq'[r].flight].task /= "none"
           /\ sreq'[r].at = "publish" /\ sreq'[r].activate => sreq'[r].report \in Report
    BY <1>1, <1>2, <1>3
  <2>2. \A g \in FlightId : flight[g].task /= "none" =>
               /\ flight'[g].print = flight[g].print /\ flight'[g].task /= "none"
               /\ flight[g].task \in Report => flight'[g].task = flight[g].task
    BY <1>1, <1>3
  <2>3. \A x \in Fingerprint : \/ cache'[x] \in {0, cache[x]}
                               \/ flight'[cache'[x]].print = x /\ flight'[cache'[x]].task \in Report
    BY <1>1, <1>2, <1>3
  <2> QED
    BY <1>3, <2>1, <2>2, <2>3, StillOne
<1> QED
  BY <1>1, <1>3, <1>4, <1>5, <1>6, ProbeSteps

\* The probe answers or raises, or the client disconnects.
LEMMA ProbeAnswersKeep ==
    ASSUME SetupInv, NEW r \in SetupReq, ProbeAnswers(r) \/ ProbeRaises(r) \/ Disconnects(r) PROVE SetupInv'
<1>0. PICK f : f = sreq[r].flight
  OBVIOUS
<1>1. /\ sreq \in [SetupReq -> ReqRow] /\ sreq[r] \in ReqRow /\ flight \in [FlightId -> FlightRow]
      /\ table \in [Fingerprint -> 0 .. MaxFlights] /\ cache \in [Fingerprint -> 0 .. MaxFlights]
      /\ sreq[r].print \in Fingerprint
  BY DEF SetupInv, SetupShapes, ReqRow
<1>2. /\ sreq[r].at = "waiting"
      /\ UNCHANGED <<profiles, current, default, vault, lost, setupDeaths>>
  BY DEF ProbeAnswers, ProbeRaises, Disconnects
<1>3. f \in FlightId /\ f \in 0 .. MaxFlights /\ flight[f] \in FlightRow /\ flight[f].task /= "none"
  <2>1. f > 0 /\ f \in 0 .. MaxFlights
    BY <1>0, <1>1, <1>2 DEF SetupInv, OneFingerprint, ReqRow
  <2> QED
    BY <1>0, <1>1, <1>2, <2>1, SomeFingerprint DEF FlightId, SetupInv, OneFingerprint
<1>4. flight[f].users - 1 \in 0 .. MaxActive
  <2>1. PICK q : q = [sreq[r] EXCEPT !.at = "over"]
    OBVIOUS
  <2>2. flight[f].users = Cardinality(WaitingFor(f)) /\ r \in WaitingFor(f) /\ WaitingFor(f) \subseteq Open
    BY <1>0, <1>2, <1>3 DEF SetupInv, Counted, WaitingFor, Open
  <2>3. IsFiniteSet(WaitingFor(f)) /\ Cardinality(WaitingFor(f)) <= MaxActive
    BY <2>2, OpenFewer DEF SetupInv, Counted
  <2>4. Cardinality(WaitingFor(f)) \in Nat /\ Cardinality(WaitingFor(f)) /= 0
    BY <2>2, <2>3, FS_CardinalityType, FS_EmptySet
  <2> QED
    BY <2>2, <2>3, <2>4, SomeFingerprint
<1>5. ASSUME NEW fate \in Task
      PROVE  LET n == [flight[f] EXCEPT !.users = @ - 1, !.task = fate] IN
             n \in FlightRow /\ n.users = flight[f].users - 1 /\ n.print = flight[f].print /\ n.task = fate
  BY <1>3, <1>4 DEF FlightRow
<1>6. [flight[f] EXCEPT !.users = @ - 1] \in FlightRow
      /\ [flight[f] EXCEPT !.users = @ - 1].users = flight[f].users - 1
      /\ [flight[f] EXCEPT !.users = @ - 1].print = flight[f].print
      /\ [flight[f] EXCEPT !.users = @ - 1].task = flight[f].task
  BY <1>3, <1>4 DEF FlightRow
<1>7. ASSUME Leaves(r)
      PROVE  /\ flight' = [flight EXCEPT ![f] = [flight[f] EXCEPT !.users = @ - 1]]
             /\ table' \in [Fingerprint -> 0 .. MaxFlights]
             /\ \A x \in Fingerprint : table'[x] \in {0, table[x]}
  <2>1. flight' = [flight EXCEPT ![f].users = @ - 1]
    BY <1>0, <1>7 DEF Leaves
  <2>2. \/ table' = [table EXCEPT ![FingerprintOf(r)] = 0]
        \/ table' = table
    BY <1>7 DEF Leaves
  <2> QED
    BY <1>1, <2>1, <2>2, SomeFingerprint
<1>8. ASSUME NEW at \in {"publish", "over", "reaping"}
      PROVE  LET q == [sreq[r] EXCEPT !.at = at] IN
             /\ q \in ReqRow /\ q.at = at /\ q.activate = sreq[r].activate /\ q.print = sreq[r].print
             /\ q.retained = sreq[r].retained /\ q.flight = f
  BY <1>0, <1>1 DEF ReqRow, SetupPoint
<1>12. PICK m : m = [flight[f] EXCEPT !.users = @ - 1]
  OBVIOUS
<1>13. m \in FlightRow /\ m.users = flight[f].users - 1 /\ m.print = flight[f].print /\ m.task = flight[f].task
  BY <1>6, <1>12
<1>14. ASSUME Leaves(r)
       PROVE  /\ flight' = [flight EXCEPT ![f] = m]
              /\ table' \in [Fingerprint -> 0 .. MaxFlights]
              /\ \A x \in Fingerprint : table'[x] \in {0, table[x]}
  BY <1>7, <1>12, <1>14
<1>9. CASE ProbeAnswers(r)
  <2> DEFINE at == IF sreq[r].kind = "save" THEN "publish" ELSE "over"
             q == [sreq[r] EXCEPT !.at = at, !.report = flight[f].task]
  <2>1. /\ flight[f].task \in Report /\ sreq' = [sreq EXCEPT ![r] = q] /\ Leaves(r)
        /\ cache' = [cache EXCEPT ![sreq[r].print] = IF @ = 0 THEN f ELSE @]
    BY <1>0, <1>9 DEF ProbeAnswers, FingerprintOf
  <2>2. at \in {"publish", "over"}
    OBVIOUS
  <2> HIDE DEF at
  <2>3. /\ q \in ReqRow /\ q.at = at /\ q.activate = sreq[r].activate /\ q.print = sreq[r].print
        /\ q.retained = sreq[r].retained /\ q.flight = f /\ q.report = flight[f].task
    BY <1>0, <1>1, <2>1, <2>2 DEF ReqRow, SetupPoint
  <2> HIDE DEF q
  <2>4. cache' \in [Fingerprint -> 0 .. MaxFlights]
        /\ \A x \in Fingerprint : cache'[x] = cache[x] \/ (x = sreq[r].print /\ cache'[x] = f)
    BY <1>1, <1>3, <2>1
  <2> QED
    <3>1. Left(r, f, q, m)
      BY <1>0, <1>2, <1>3, <1>13, <1>14, <2>1, <2>2, <2>3, <2>4 DEF Left
    <3> QED
      BY <3>1, LeavesKeep
<1>10. CASE ProbeRaises(r)
  <2>1. sreq' = [sreq EXCEPT ![r] = [sreq[r] EXCEPT !.at = "over"]] /\ Leaves(r) /\ cache' = cache
    BY <1>1, <1>10 DEF ProbeRaises, End
  <2>2. PICK q : q = [sreq[r] EXCEPT !.at = "over"]
    OBVIOUS
  <2>3. /\ q \in ReqRow /\ q.at = "over" /\ q.activate = sreq[r].activate /\ q.print = sreq[r].print
        /\ q.retained = sreq[r].retained
    BY <1>8, <2>2
  <2>4. sreq' = [sreq EXCEPT ![r] = q]
    BY <2>1, <2>2
  <2> QED
    <3>1. Left(r, f, q, m)
      BY <1>0, <1>1, <1>2, <1>3, <1>13, <1>14, <2>1, <2>3, <2>4 DEF Left
    <3> QED
      BY <3>1, LeavesKeep
<1>11. CASE Disconnects(r)
  <2>1. CASE flight[f].users = 1 /\ flight[f].task = "running"
    <3>1. /\ flight' = [flight EXCEPT ![f] = [flight[f] EXCEPT !.users = 0, !.task = "cancelling"]]
          /\ sreq' = [sreq EXCEPT ![r] = [sreq[r] EXCEPT !.at = "reaping"]]
          /\ UNCHANGED <<table, cache>>
      BY <1>0, <1>1, <1>11, <2>1 DEF Disconnects
    <3>2. LET n == [flight[f] EXCEPT !.users = 0, !.task = "cancelling"] IN
          n \in FlightRow /\ n.users = flight[f].users - 1 /\ n.print = flight[f].print /\ n.task = "cancelling"
      <4>1. 0 \in 0 .. MaxActive /\ flight[f].users - 1 = 0 /\ "cancelling" \in Task
        BY <2>1, SomeFingerprint DEF Task
      <4> QED
        BY <1>3, <4>1 DEF FlightRow
    <3>3. flight[f].task \notin Report
      BY <2>1 DEF Report
    <3>4. PICK q : q = [sreq[r] EXCEPT !.at = "reaping"]
      OBVIOUS
    <3>5. /\ q \in ReqRow /\ q.at = "reaping" /\ q.activate = sreq[r].activate /\ q.print = sreq[r].print
          /\ q.retained = sreq[r].retained /\ sreq' = [sreq EXCEPT ![r] = q]
      BY <1>8, <3>1, <3>4
    <3>6. PICK n : n = [flight[f] EXCEPT !.users = 0, !.task = "cancelling"]
      OBVIOUS
    <3>7. /\ n \in FlightRow /\ n.users = flight[f].users - 1 /\ n.print = flight[f].print
          /\ n.task = "cancelling" /\ flight' = [flight EXCEPT ![f] = n]
      BY <3>1, <3>2, <3>6
    <3> QED
      <4>1. Left(r, f, q, n)
        BY <1>0, <1>1, <1>2, <1>3, <3>1, <3>3, <3>5, <3>7 DEF Left
      <4> QED
        BY <4>1, LeavesKeep
  <2>2. CASE ~(flight[f].users = 1 /\ flight[f].task = "running")
    <3>1. sreq' = [sreq EXCEPT ![r] = [sreq[r] EXCEPT !.at = "over"]] /\ Leaves(r) /\ cache' = cache
      BY <1>0, <1>1, <1>11, <2>2 DEF Disconnects, End
    <3>2. PICK q : q = [sreq[r] EXCEPT !.at = "over"]
      OBVIOUS
    <3>3. /\ q \in ReqRow /\ q.at = "over" /\ q.activate = sreq[r].activate /\ q.print = sreq[r].print
          /\ q.retained = sreq[r].retained /\ sreq' = [sreq EXCEPT ![r] = q]
      BY <1>8, <3>1, <3>2
    <3> QED
      <4>1. Left(r, f, q, m)
        BY <1>0, <1>1, <1>2, <1>3, <1>13, <1>14, <3>1, <3>3 DEF Left
      <4> QED
        BY <4>1, LeavesKeep
  <2> QED
    BY <2>1, <2>2
<1> QED
  BY <1>9, <1>10, <1>11

\* The probe itself ends, and a receipt runs out.
LEMMA ProbesKeep ==
    ASSUME SetupInv, \/ \E f \in FlightId : ProbeEnds(f) \/ ProbeCancelled(f)
                     \/ \E p \in Fingerprint : ReceiptRunsOut(p)
    PROVE  SetupInv'
<1>1. /\ UNCHANGED <<sreq, table, profiles, current, default, vault, lost, setupDeaths>>
      /\ sreq \in [SetupReq -> ReqRow] /\ flight \in [FlightId -> FlightRow]
      /\ table \in [Fingerprint -> 0 .. MaxFlights] /\ cache \in [Fingerprint -> 0 .. MaxFlights]
  BY DEF ProbeEnds, ProbeCancelled, ReceiptRunsOut, SetupInv, SetupShapes
<1>2. /\ \A r \in SetupReq : SameAim(r)
      /\ Open' = Open /\ \A f \in FlightId : WaitingFor(f)' = WaitingFor(f)
  BY <1>1 DEF SameAim, Open, WaitingFor
<1>3. CASE \E f \in FlightId : ProbeEnds(f) \/ ProbeCancelled(f)
  <2>1. PICK f \in FlightId : ProbeEnds(f) \/ ProbeCancelled(f)
    BY <1>3
  <2>2. PICK fate \in Task : fate /= "none" /\ flight' = [flight EXCEPT ![f].task = fate]
    BY <2>1 DEF ProbeEnds, ProbeCancelled, Task, Report
  <2>3. flight[f].task \notin Report /\ flight[f].task /= "none" /\ cache' = cache
    BY <2>1 DEF ProbeEnds, ProbeCancelled, Report
  <2>4. flight[f] \in FlightRow
    BY <1>1
  <2>5. LET n == [flight[f] EXCEPT !.task = fate] IN
        n \in FlightRow /\ n.users = flight[f].users /\ n.print = flight[f].print /\ n.task = fate
    BY <2>4 DEF FlightRow
  <2>6. flight' = [flight EXCEPT ![f] = [flight[f] EXCEPT !.task = fate]]
    BY <1>1, <2>2
  <2>7. /\ flight' \in [FlightId -> FlightRow] /\ flight'[f].users = flight[f].users
        /\ flight'[f].print = flight[f].print /\ flight'[f].task = fate
        /\ \A g \in FlightId : g /= f => flight'[g] = flight[g]
    BY <1>1, <2>5, <2>6
  <2>8. \A g \in FlightId : flight'[g].users = Cardinality(WaitingFor(g)')
    BY <1>2, <2>7 DEF SetupInv, Counted
  <2>9. OneFingerprint'
    BY <1>1, <2>2, <2>3, <2>7, StillOne
  <2> QED
    BY <1>1, <1>2, <2>3, <2>7, <2>8, <2>9, ProbeSteps
<1>4. CASE \E p \in Fingerprint : ReceiptRunsOut(p)
  <2>1. flight' = flight /\ cache' \in [Fingerprint -> 0 .. MaxFlights]
        /\ \A x \in Fingerprint : cache'[x] \in {0, cache[x]}
    BY <1>1, <1>4, SomeFingerprint DEF ReceiptRunsOut
  <2>2. \A g \in FlightId : flight'[g].users = Cardinality(WaitingFor(g)')
    BY <1>2, <2>1 DEF SetupInv, Counted
  <2>3. OneFingerprint'
    BY <1>1, <2>1, StillOne
  <2> QED
    BY <1>1, <1>2, <2>1, <2>2, <2>3, ProbeSteps
<1> QED
  BY <1>3, <1>4

\* A cancelled probe has ended.
LEMMA ReapedKeeps == ASSUME SetupInv, NEW r \in SetupReq, Reaped(r) PROVE SetupInv'
<1> DEFINE q == [sreq[r] EXCEPT !.at = "over"]
<1>1. /\ UNCHANGED <<flight, cache, profiles, current, default, vault, lost, setupDeaths>>
      /\ sreq[r].at = "reaping" /\ table' = [table EXCEPT ![FingerprintOf(r)] = 0] /\ sreq' = [sreq EXCEPT ![r] = q]
      /\ sreq \in [SetupReq -> ReqRow] /\ flight \in [FlightId -> FlightRow]
      /\ table \in [Fingerprint -> 0 .. MaxFlights] /\ cache \in [Fingerprint -> 0 .. MaxFlights]
  BY DEF Reaped, End, SetupInv, SetupShapes
<1>2. /\ q \in ReqRow /\ q.at = "over" /\ q.activate = sreq[r].activate /\ q.print = sreq[r].print
      /\ q.retained = sreq[r].retained
  BY <1>1 DEF ReqRow, SetupPoint
<1> HIDE DEF q
<1>3. /\ sreq' \in [SetupReq -> ReqRow] /\ sreq'[r] = q
      /\ \A o \in SetupReq : o /= r => sreq'[o] = sreq[o]
      /\ table' \in [Fingerprint -> 0 .. MaxFlights]
      /\ \A x \in Fingerprint : table'[x] \in {0, table[x]}
  BY <1>1, <1>2, SomeFingerprint
<1>4. Open' \subseteq Open /\ \A f \in FlightId : WaitingFor(f)' = WaitingFor(f)
  BY <1>1, <1>2, <1>3 DEF Open, WaitingFor
<1>5. \A o \in SetupReq : SameAim(o)
  BY <1>2, <1>3 DEF SameAim
<1>6. \A g \in FlightId : flight'[g].users = Cardinality(WaitingFor(g)')
  BY <1>1, <1>4 DEF SetupInv, Counted
<1>7. OneFingerprint'
  BY <1>1, <1>2, <1>3, StillOne
<1> QED
  BY <1>1, <1>3, <1>4, <1>5, <1>6, <1>7, ProbeSteps

------------------------------------------------------------------------------
\* Publication: the revision, the default and the credential in one transaction.
LEMMA EntryTaken ==
    ASSUME SetupInv, NEW r \in SetupReq
    PROVE  /\ Entry(r) \in Nat /\ (NewEntry(r) = {} => Entry(r) \in Used)
           /\ NewEntry(r) \subseteq {Entry(r)} /\ IsFiniteSet(vault \cup NewEntry(r))
<1>1. /\ sreq[r] \in ReqRow /\ sreq[r].retained \in {0} \cup Used /\ sreq[r].retained \in Nat
  BY DEF SetupInv, SetupShapes, RequestTrue, ReqRow
<1>2. IsFiniteSet(vault) /\ vault \cup lost = vault
  BY DEF SetupInv, VaultTrue
<1>3. Cardinality(vault \cup lost) + 1 \in Nat
  <2>1. IsFiniteSet(vault \cup lost)
    BY <1>2
  <2>2. Cardinality(vault \cup lost) \in Nat
    BY <2>1, FS_CardinalityType
  <2> QED
    BY <2>2
<1>4. IsFiniteSet(vault \cup {Entry(r)})
  BY <1>2, FS_AddElement
<1>5. Entry(r) \in Nat
  BY <1>1, <1>3 DEF Entry
<1>6. NewEntry(r) = {} => Entry(r) \in Used
  BY <1>1 DEF Entry, NewEntry
<1>7. NewEntry(r) = {} \/ NewEntry(r) = {Entry(r)}
  BY DEF NewEntry
<1>8. IsFiniteSet(vault \cup NewEntry(r))
  <2>1. vault \cup {} = vault
    OBVIOUS
  <2> QED
    BY <1>2, <1>4, <1>7, <2>1
<1> QED
  BY <1>5, <1>6, <1>7, <1>8

\* A save that fails writes no revision; an entry it leaves in the vault is a lost one.
LEMMA FailuresKeep == ASSUME SetupInv, NEW r \in SetupReq, PublishFails(r) PROVE SetupInv'
<1>1. /\ sreq[r].at = "publish" /\ sreq' = End(r)
      /\ UNCHANGED <<flight, table, cache, profiles, current, default, setupDeaths>>
      /\ \/ UNCHANGED <<vault, lost>>
         \/ vault' = vault \cup NewEntry(r) /\ lost' = lost \cup NewEntry(r)
  BY DEF PublishFails, Publishing
<1>2. VaultTrue'
  <2>1. IsFiniteSet(vault')
    BY <1>1, EntryTaken DEF SetupInv, VaultTrue
  <2> QED
    BY <1>1, <2>1 DEF SetupInv, VaultTrue, Used
<1> QED
  BY <1>1, <1>2, EndsKeep

\* A save publishes the profile it verified, and makes it the default when asked.
LEMMA PublishesKeeps == ASSUME SetupInv, NEW r \in SetupReq, Publishes(r) PROVE SetupInv'
<1> DEFINE next == current + 1
           row == [report |-> sreq[r].report, mode |-> ProbedMode(r),
                   accepted |-> sreq[r].accept, cred |-> Entry(r)]
           q == [sreq[r] EXCEPT !.at = "over"]
<1>1. /\ sreq[r].at = "publish" /\ Acceptable(r) /\ current < MaxSaves
      /\ vault' = vault \cup NewEntry(r) /\ current' = next
      /\ profiles' = [profiles EXCEPT ![next] = row]
      /\ default' = (IF sreq[r].activate THEN next ELSE default)
      /\ sreq' = [sreq EXCEPT ![r] = q]
      /\ UNCHANGED <<flight, table, cache, lost, setupDeaths>>
  BY DEF Publishes, Publishing, End
<1>2. /\ sreq \in [SetupReq -> ReqRow] /\ sreq[r] \in ReqRow /\ sreq[r].print \in Fingerprint
      /\ flight \in [FlightId -> FlightRow] /\ profiles \in [ProfileRev -> ProfileRow]
      /\ current \in 0 .. MaxSaves /\ default \in 0 .. current /\ MaxSaves \in Nat
      /\ sreq[r].flight \in 0 .. MaxFlights
  BY SomeFingerprint DEF SetupInv, SetupShapes, ReqRow
<1>3. next \in ProfileRev /\ next \in 0 .. MaxSaves /\ next \notin 1 .. current
      /\ 1 .. next = 1 .. current \cup {next} /\ 1 .. current \subseteq ProfileRev
  BY <1>1, <1>2 DEF ProfileRev
<1>4. ProbedMode(r) = sreq[r].print[2] /\ sreq[r].print[2] \in Mode
  <2>1. sreq[r].flight > 0 => flight[sreq[r].flight].print = sreq[r].print
    BY <1>1 DEF SetupInv, OneFingerprint
  <2>2. sreq[r].print[2] \in Mode
    BY <1>2 DEF Fingerprint
  <2> QED
    BY <1>2, <2>1, <2>2 DEF ProbedMode, FingerprintOf
<1>5. row \in ProfileRow
  <2>1. sreq[r].report \in Report \cup {"none"} /\ sreq[r].accept \in BOOLEAN /\ Entry(r) \in Nat
    BY <1>2, EntryTaken DEF ReqRow
  <2> QED
    BY <1>4, <2>1 DEF ProfileRow
<1>6. row.cred = Entry(r) /\ row.mode = sreq[r].print[2] /\ row.report = sreq[r].report
      /\ row.accepted = sreq[r].accept
  BY <1>4
<1> HIDE DEF row
<1>7. /\ q \in ReqRow /\ q.at = "over" /\ q.activate = sreq[r].activate /\ q.print = sreq[r].print
      /\ q.retained = sreq[r].retained
  BY <1>2 DEF ReqRow, SetupPoint
<1> HIDE DEF q
<1>8. /\ sreq' \in [SetupReq -> ReqRow] /\ sreq'[r] = q
      /\ \A o \in SetupReq : o /= r => sreq'[o] = sreq[o]
      /\ profiles' \in [ProfileRev -> ProfileRow] /\ profiles'[next] = row
      /\ \A v \in ProfileRev : v /= next => profiles'[v] = profiles[v]
  BY <1>1, <1>2, <1>3, <1>5, <1>7
<1> HIDE DEF next
<1>9. Used' = Used \cup {Entry(r)}
  <2>1. Used' = {profiles'[v].cred : v \in 1 .. current \cup {next}}
    BY <1>1, <1>3 DEF Used
  <2>2. \A v \in 1 .. current : profiles'[v] = profiles[v]
    BY <1>3, <1>8
  <2>3. profiles'[next].cred = Entry(r)
    BY <1>6, <1>8
  <2>4. {profiles'[v].cred : v \in 1 .. current \cup {next}} =
          {profiles'[v].cred : v \in 1 .. current} \cup {profiles'[next].cred}
    OBVIOUS
  <2>5. {profiles'[v].cred : v \in 1 .. current} = Used
    BY <2>2 DEF Used
  <2> QED
    BY <2>1, <2>3, <2>4, <2>5
<1>10. SetupShapes'
  <2>1. default' \in 0 .. current'
    BY <1>1, <1>2, <1>3 DEF next
  <2> QED
    BY <1>1, <1>3, <1>8, <2>1 DEF SetupInv, SetupShapes
<1>11. Counted'
  <2>1. Open' \subseteq Open /\ \A f \in FlightId : WaitingFor(f)' = WaitingFor(f)
    BY <1>1, <1>7, <1>8 DEF Open, WaitingFor
  <2> QED
    BY <1>1, <2>1, OpenFewer DEF SetupInv, Counted
<1>12. OneFingerprint'
  BY <1>1, <1>7, <1>8, StillOne
<1>13. RequestTrue'
  BY <1>7, <1>8, <1>9 DEF SetupInv, RequestTrue
<1>14. VaultTrue'
  <2>1. vault' \subseteq Used' \cup lost' /\ Used' \subseteq vault'
    BY <1>1, <1>9, EntryTaken DEF SetupInv, VaultTrue, NewEntry
  <2> QED
    BY <1>1, <2>1, EntryTaken DEF SetupInv, VaultTrue
<1>15. DefaultVerified'
  <2>1. CASE sreq[r].activate
    <3>1. row.mode = "agent" /\ row.report \in {"full", "required"}
          /\ (row.report = "required" => row.accepted)
      BY <1>1, <1>6, <2>1 DEF SetupInv, RequestTrue, Acceptable
    <3> QED
      BY <1>1, <1>6, <1>8, <2>1, <3>1 DEF DefaultVerified
  <2>2. CASE ~sreq[r].activate
    <3>1. default > 0 => default \in ProfileRev /\ default /= next
      BY <1>2, <1>3
    <3> QED
      BY <1>1, <1>8, <2>2, <3>1 DEF SetupInv, DefaultVerified
  <2> QED
    BY <2>1, <2>2
<1> QED
  BY <1>10, <1>11, <1>12, <1>13, <1>14, <1>15 DEF SetupInv

\* A death forgets requests and probes, never a profile; a credential it left behind is lost.
LEMMA DiesKeeps == SetupInv /\ SetupDies => SetupInv'
<1> SUFFICES ASSUME SetupInv, SetupDies PROVE SetupInv'
  OBVIOUS
<1>1. /\ sreq' = [r \in SetupReq |-> IF sreq[r].at = "new" THEN sreq[r] ELSE [NewReq EXCEPT !.at = "over"]]
      /\ flight' = [f \in FlightId |-> IF flight[f].task = "none" THEN flight[f]
                                       ELSE [NoFlight EXCEPT !.task = "cancelled"]]
      /\ table' = [p \in Fingerprint |-> 0] /\ cache' = [p \in Fingerprint |-> 0]
      /\ setupDeaths' = setupDeaths + 1
      /\ UNCHANGED <<profiles, current, default>>
  BY DEF SetupDies
<1>2. /\ [NewReq EXCEPT !.at = "over"] \in ReqRow /\ [NewReq EXCEPT !.at = "over"].at = "over"
      /\ [NewReq EXCEPT !.at = "over"].activate = FALSE /\ [NewReq EXCEPT !.at = "over"].retained = 0
  BY SomeFingerprint DEF ReqRow, SetupPoint, NewReq
<1>3. /\ [NoFlight EXCEPT !.task = "cancelled"] \in FlightRow
      /\ [NoFlight EXCEPT !.task = "cancelled"].users = 0
  BY SomeFingerprint DEF FlightRow, Task, NoFlight
<1>4. /\ sreq' \in [SetupReq -> ReqRow] /\ flight' \in [FlightId -> FlightRow]
      /\ \A r \in SetupReq : sreq'[r].at \in {"new", "over"}
  BY <1>1, <1>2, <1>3 DEF SetupInv, SetupShapes
<1>5. SetupShapes'
  BY <1>1, <1>4, SomeFingerprint DEF SetupInv, SetupShapes
<1>6. Counted'
  <2>1. Open' = {} /\ \A f \in FlightId : WaitingFor(f)' = {}
    BY <1>4 DEF Open, WaitingFor
  <2>2. IsFiniteSet({}) /\ Cardinality({}) = 0 /\ 0 <= MaxActive
    BY FS_EmptySet, SomeFingerprint
  <2>3. ASSUME NEW f \in FlightId  PROVE flight'[f].users = 0
    <3>1. CASE flight[f].task = "none"
      <4>1. WaitingFor(f) = {}
        BY <3>1 DEF SetupInv, OneFingerprint, WaitingFor
      <4>2. flight[f].users = 0
        BY <2>2, <4>1 DEF SetupInv, Counted
      <4> QED
        BY <1>1, <3>1, <4>2
    <3>2. CASE flight[f].task /= "none"
      BY <1>1, <1>3, <3>2
    <3> QED
      BY <3>1, <3>2
  <2> QED
    BY <2>1, <2>2, <2>3 DEF Counted
<1>7. OneFingerprint'
  BY <1>1, <1>4 DEF OneFingerprint
<1>8. Used' = Used /\ DefaultVerified'
  BY <1>1 DEF Used, SetupInv, DefaultVerified
<1>9. RequestTrue'
  BY <1>1, <1>2, <1>8 DEF SetupInv, RequestTrue
<1>10. VaultTrue'
  <2>1. CASE UNCHANGED <<vault, lost>>
    BY <1>8, <2>1 DEF SetupInv, VaultTrue
  <2>2. ASSUME NEW r \in SetupReq, vault' = vault \cup NewEntry(r), lost' = lost \cup NewEntry(r)
        PROVE  VaultTrue'
    BY <1>8, <2>2, EntryTaken DEF SetupInv, VaultTrue
  <2> QED
    BY <2>1, <2>2 DEF SetupDies
<1> QED
  BY <1>5, <1>6, <1>7, <1>8, <1>9, <1>10 DEF SetupInv

\* Every step of the page, the probes and the death of the host keeps it.
LEMMA SetupKept == SetupInv /\ [SetupNext]_pvars => SetupInv'
<1> SUFFICES ASSUME SetupInv, [SetupNext]_pvars PROVE SetupInv'
  OBVIOUS
<1>1. CASE UNCHANGED pvars
  <2>1. Open' = Open /\ Used' = Used /\ \A f : WaitingFor(f)' = WaitingFor(f)
    BY <1>1 DEF pvars, Open, Used, WaitingFor
  <2> QED
    BY <1>1, <2>1 DEF pvars, SetupInv, SetupShapes, Counted, OneFingerprint, RequestTrue, VaultTrue, DefaultVerified
<1>2. ASSUME NEW r \in SetupReq,
             \/ SetupAdmitted(r) \/ ReceiptExpired(r) \/ Reuses(r) \/ Joins(r) \/ StartsProbe(r)
             \/ ProbeAnswers(r) \/ ProbeRaises(r) \/ Disconnects(r) \/ Reaped(r)
             \/ Unpublishable(r) \/ Publishes(r) \/ PublishFails(r)
      PROVE  SetupInv'
  BY <1>2, AdmittedKeeps, RefusalsKeep, ReusesKeeps, JoinsKeeps, StartsKeeps, ProbeAnswersKeep, ReapedKeeps,
     PublishesKeeps, FailuresKeep
<1>3. CASE SetupDies
  BY <1>3, DiesKeeps
<1>4. CASE \/ \E f \in FlightId : ProbeEnds(f) \/ ProbeCancelled(f)
           \/ \E p \in Fingerprint : ReceiptRunsOut(p)
  BY <1>4, ProbesKeep
<1> QED
  BY <1>1, <1>2, <1>3, <1>4 DEF SetupNext

\* save(): through shared probes, reused reports, lost receipts and racing saves, the default
\* model was verified, and the vault holds the credential of every published revision.
THEOREM SetupHolds == SetupSpec => [](SetupTypeOK /\ DefaultVerified /\ CredentialsKept)
BY SetupStarts, SetupKept, SetupPromise, PTL DEF SetupSpec

------------------------------------------------------------------------------
(* The host *)

\* The inductive invariants of all the parts.
HostInv == CommandInv /\ SetupInv /\ AuthorityInv /\ FilesInv /\ PluginInv /\ LifeInv

\* A step of the host is, for every part, a step of that part or none.
LEMMA HostSteps ==
    ASSUME [HostNext]_hostVars
    PROVE  /\ [ApiNext]_avars /\ [SetupNext]_pvars /\ [AuthorityNext]_tvars
           /\ [FilesNext]_fvars /\ [PluginNext]_lvars /\ [LifecycleNext]_ivars
  BY DEF HostNext, hostVars

\* Services composed: the parts keep their invariants beside one another.
LEMMA HostInvariant == HostSpec => []HostInv
<1>1. HostInit => HostInv
  BY ApiStarts, SetupStarts, AuthorityStarts, FilesStart, PluginStarts, LifeInit DEF HostInit, HostInv
<1>2. HostInv /\ [HostNext]_hostVars => HostInv'
  BY HostSteps, ApiKept, SetupKept, AuthorityKept, FilesKept, PluginKept, LifeKeeps DEF HostInv
<1> QED
  BY <1>1, <1>2, PTL DEF HostSpec

\* Services and the processes it runs in: the state of every part keeps its shape while all of
\* them are there.
THEOREM HostTypesHold == HostSpec => []HostTypeOK
<1>1. HostInv => HostTypeOK
  BY SetupPromise, AuthorityPromise, FilesPromise
  DEF HostInv, HostTypeOK, CommandInv, PluginInv, LifeInv
<1> QED
  BY <1>1, HostInvariant, PTL

\* ModelSetupService.save: on any host, the default model was verified and its credentials are
\* in the vault, whichever probes, saves and deaths come between.
THEOREM SetupStaysSound == HostSpec => []SetupSound
<1>1. HostInv => SetupSound
  BY SetupPromise DEF HostInv, SetupSound
<1> QED
  BY <1>1, HostInvariant, PTL

\* PolicyEngine, ToolGateway.execute and the file tools: on any host, no tool starts beyond the
\* policies in force or its root's frozen grant, no write takes a saved edit with it, and what is
\* told of a write is what became of the file.
THEOREM ToolsStaySound == HostSpec => []ToolsSound
<1>1. HostInv => ToolsSound
  BY AuthorityPromise, FilesPromise DEF HostInv, ToolsSound
<1> QED
  BY <1>1, HostInvariant, PTL
===============================================================================
