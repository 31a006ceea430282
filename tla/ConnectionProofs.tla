--------------------------- MODULE ConnectionProofs ---------------------------
(***************************************************************************)
(* What a run and a page are connected to: the remote calls of a run, the file*)
(* their servers are configured in, the authorization they use, and the event*)
(* stream a page follows, for any number of calls, rounds, saves, events and*)
(* workers' deaths.                                                        *)
(***************************************************************************)
EXTENDS McpCalls, McpConfigFile, McpOAuth, EventStream, FiniteSetTheorems, TLAPS

------------------------------------------------------------------------------
(* Remote calls *)

\* The steps of one operation, its server's among them.
StepOf(c) ==
    \/ Authorised(c) \/ NotValid(c) \/ Discovers(c) \/ EndsUnsent(c) \/ Sends(c)
    \/ Answered(c) \/ Interrupted(c) \/ Finishes(c)
    \/ CannotSuspend(c) \/ SavesSecret(c) \/ Suspends(c) \/ DropsOld(c)
    \/ FormCloses(c) \/ ResumeStale(c) \/ ResumesCall(c)
    \/ \E r \in Round : ServerActs(c, r)

\* How far row and coroutine can be apart.
InStep(c) ==
    /\ ~workerUp => exchange[c].at = "none"
    /\ exchange[c].at /= "none" => op[c].state = "running"
    /\ exchange[c].at \in {"granted", "discovered", "sent", "saving"} => op[c].cont /= "awaiting"
    /\ op[c].state = "prepared" => op[c].cont = "none"
    /\ exchange[c].at = "saving" => op[c].round < MaxRounds /\ <<c, op[c].round + 1>> \in secret
    /\ exchange[c].at = "ended" => exchange[c].status /= "none"
    /\ op[c].state = "running" /\ op[c].cont = "awaiting" => <<c, op[c].round>> \in secret

\* The ledger says, or will say, that nobody knows.
GivenUp(c) ==
    \/ op[c].state = "unknown"
    \/ exchange[c].at = "ended" /\ exchange[c].status = "unknown"
    \/ ~workerUp /\ op[c].state = "running" /\ op[c].cont /= "awaiting"

\* Every request of a call that left was answered.
AllAnswered(c) == \A r \in Round : sentIn[c][r] > 0 => r \in answeredIn[c]

\* Whatever was sent was answered, or is given up, or is the request under way.
Accounted(c) ==
    /\ \A r \in Round : sentIn[c][r] > 0 =>
          \/ r \in answeredIn[c]
          \/ GivenUp(c)
          \/ r = op[c].round /\ exchange[c].at = "sent" /\ reply[c] = "none"
    /\ op[c].state = "running" /\ op[c].cont = "awaiting" => AllAnswered(c)
    /\ op[c].state = "succeeded" => reply[c] = "success"
    /\ exchange[c].at = "ended" /\ exchange[c].status = "succeeded" => reply[c] = "success"

\* A round's request was not sent before its turn.
SentInTurn(c) ==
    /\ \A r \in Round : sentIn[c][r] <= 1 /\ (r > op[c].round => sentIn[c][r] = 0)
    /\ \/ op[c].state = "prepared"
       \/ exchange[c].at \in {"granted", "discovered"}
       \/ op[c].cont = "awaiting"
       => sentIn[c][op[c].round] = 0

\* What the row, the coroutine and the server of one call agree on; a call that only reads may be sent again.
RemoteInv(c) == InStep(c) /\ (c \notin ReadOnly => Accounted(c) /\ SentInTurn(c))

\* The inductive invariant of the remote calls.
McpInv == McpTypeOK /\ \A c \in McpCall : RemoteInv(c)

\* No call has begun.
LEMMA McpStarts == McpInit => McpInv
<1> SUFFICES ASSUME McpInit  PROVE McpInv
  OBVIOUS
<1>1. 0 \in Round /\ 0 \in 0 .. MaxMcpDeaths
  BY McpAssumption DEF Round
<1>2. McpTypeOK
  BY <1>1 DEF McpInit, McpTypeOK, Away
<1>3. ASSUME NEW c \in McpCall  PROVE RemoteInv(c)
  BY <1>1, <1>3 DEF McpInit, RemoteInv, InStep, Accounted, SentInTurn, AllAnswered, Away
<1> QED
  BY <1>2, <1>3 DEF McpInv

------------------------------------------------------------------------------
\* What a step of one operation does to the state of another: nothing.
LEMMA OthersUntouched ==
    ASSUME McpTypeOK, NEW c \in McpCall, NEW d \in McpCall, c /= d, StepOf(d)
    PROVE  /\ op'[c] = op[c] /\ exchange'[c] = exchange[c] /\ sentIn'[c] = sentIn[c]
           /\ reply'[c] = reply[c] /\ answeredIn'[c] = answeredIn[c] /\ workerUp' = workerUp
           /\ \A r : <<c, r>> \in secret => <<c, r>> \in secret'
<1> USE DEF McpTypeOK, Goes, Ends, EndsWithout, EndedAs, SpentSecret
<1>1. CASE Authorised(d) \/ NotValid(d) \/ Discovers(d)
  BY <1>1 DEF Authorised, NotValid, Discovers
<1>2. CASE EndsUnsent(d) \/ Answered(d) \/ Interrupted(d)
  BY <1>2 DEF EndsUnsent, Answered, Interrupted
<1>3. CASE Sends(d)
  BY <1>3 DEF Sends
<1>4. CASE Finishes(d) \/ FormCloses(d) \/ ResumeStale(d) \/ ResumesCall(d)
  BY <1>4 DEF Finishes, FormCloses, ResumeStale, ResumesCall
<1>5. CASE CannotSuspend(d)
  <2>1. /\ \A r : <<c, r>> \in secret => <<c, r>> \in secret'
    BY <1>5 DEF CannotSuspend
  <2> QED
    BY <1>5, <2>1 DEF CannotSuspend
<1>6. CASE SavesSecret(d) \/ Suspends(d) \/ DropsOld(d)
  BY <1>6 DEF SavesSecret, Suspends, DropsOld
<1>7. ASSUME NEW r \in Round, ServerActs(d, r)
      PROVE  /\ op'[c] = op[c] /\ exchange'[c] = exchange[c] /\ sentIn'[c] = sentIn[c]
             /\ reply'[c] = reply[c] /\ answeredIn'[c] = answeredIn[c] /\ workerUp' = workerUp
             /\ secret' = secret
  BY <1>7 DEF ServerActs
<1> QED
  BY <1>1, <1>2, <1>3, <1>4, <1>5, <1>6, <1>7 DEF StepOf

\* A step of one call leaves what is known of another alone.
LEMMA OthersKept ==
    ASSUME McpTypeOK, NEW c \in McpCall, NEW d \in McpCall, c /= d, StepOf(d), RemoteInv(c)
    PROVE  RemoteInv(c)'
<1>1. /\ op'[c] = op[c] /\ exchange'[c] = exchange[c] /\ sentIn'[c] = sentIn[c]
      /\ reply'[c] = reply[c] /\ answeredIn'[c] = answeredIn[c] /\ workerUp' = workerUp
      /\ \A r : <<c, r>> \in secret => <<c, r>> \in secret'
  BY OthersUntouched
<1> QED
  BY <1>1 DEF RemoteInv, InStep, Accounted, SentInTurn, AllAnswered, GivenUp

------------------------------------------------------------------------------
\* Every step of a call keeps the shape of its row, its coroutine and what its server saw.
LEMMA StepTypes ==
    ASSUME McpInv, NEW c \in McpCall, StepOf(c)
    PROVE  McpTypeOK'
<1> USE McpAssumption
<1>0. McpTypeOK /\ InStep(c)
  BY DEF McpInv, RemoteInv
<1> DEFINE Sts == {"none", "succeeded", "failed", "cancelled", "unknown"}
<1>s. /\ \A kind \in {"success", "tool_error", "unknown_outcome", "protocol_error", "transport_error", "timeout",
                      "cancelled"}, sent \in BOOLEAN :
            Status(c, kind, sent) \in Sts
      /\ RaisedStatus(c) \in Sts
  BY DEF Status, RaisedStatus
<1>d. ASSUME NEW status \in Sts, EndedAs(c, status)
      PROVE  exchange' \in [McpCall -> [at : {"none", "granted", "discovered", "sent", "saving", "suspended",
                                            "ended"}, status : Sts]]
  BY <1>0, <1>d DEF EndedAs, McpTypeOK
<1>w. ASSUME NEW status \in Sts, NEW entries, EndsWithout(c, status, entries)
      PROVE  /\ exchange' \in [McpCall -> [at : {"none", "granted", "discovered", "sent", "saving", "suspended",
                                              "ended"}, status : Sts]]
             /\ secret' \subseteq McpCall \X (1 .. MaxRounds)
  <2>1. secret' \subseteq secret
    BY <1>w DEF EndsWithout
  <2>2. "unknown" \in Sts
    OBVIOUS
  <2> QED
    BY <1>0, <1>d, <1>w, <2>1, <2>2 DEF EndsWithout, McpTypeOK
<1>e. ASSUME NEW status \in Sts, Ends(c, status)
      PROVE  /\ exchange' \in [McpCall -> [at : {"none", "granted", "discovered", "sent", "saving", "suspended", "ended"},
                                 status : Sts]]
             /\ secret' \subseteq McpCall \X (1 .. MaxRounds)
  BY <1>0, <1>e, <1>w DEF Ends
<1>1. CASE Authorised(c)
  <2>1. op' \in [McpCall -> [state : {"prepared", "running", "succeeded", "failed", "cancelled", "unknown"},
                           cont : {"none", "awaiting", "sending"}, round : Round,
                           form : {"none", "open", "closed"}]]
    <3>1. op' = [op EXCEPT ![c] = [op[c] EXCEPT !.state = "running"]]
      BY <1>1 DEF Authorised
    <3>2. [op[c] EXCEPT !.state = "running"]
              \in [state : {"prepared", "running", "succeeded", "failed", "cancelled", "unknown"},
                   cont : {"none", "awaiting", "sending"}, round : Round, form : {"none", "open", "closed"}]
      <4>1. op[c] \in [state : {"prepared", "running", "succeeded", "failed", "cancelled", "unknown"},
                   cont : {"none", "awaiting", "sending"}, round : Round, form : {"none", "open", "closed"}]
        BY <1>0 DEF McpTypeOK
      <4> QED
        BY <4>1
    <3>3. op \in [McpCall -> [state : {"prepared", "running", "succeeded", "failed", "cancelled", "unknown"},
                   cont : {"none", "awaiting", "sending"}, round : Round, form : {"none", "open", "closed"}]]
      BY <1>0 DEF McpTypeOK
    <3> QED
      BY <3>1, <3>2, <3>3, Zenon
  <2>2. exchange' \in [McpCall -> [at : {"none", "granted", "discovered", "sent", "saving", "suspended", "ended"},
                                 status : Sts]]
    BY <1>0, <1>1 DEF Authorised, Goes, McpTypeOK
  <2> QED
    BY <1>0, <1>1, <2>1, <2>2 DEF Authorised, McpTypeOK
<1>2. CASE NotValid(c)
  BY <1>0, <1>2, <1>s, <1>e DEF NotValid, McpTypeOK
<1>3. CASE Discovers(c)
  BY <1>0, <1>3 DEF Discovers, Goes, McpTypeOK
<1>4. CASE EndsUnsent(c)
  BY <1>0, <1>4, <1>s, <1>e DEF EndsUnsent, McpTypeOK
<1>5. CASE Sends(c)
  BY <1>0, <1>5 DEF Sends, Goes, McpTypeOK
<1>6. CASE Answered(c)
  BY <1>0, <1>6, <1>s, <1>e DEF Answered, McpTypeOK
<1>7. CASE Interrupted(c)
  BY <1>0, <1>7, <1>s, <1>e DEF Interrupted, McpTypeOK
<1>8. CASE Finishes(c)
  <2>1. exchange[c].status \in {"succeeded", "failed", "cancelled", "unknown"}
    BY <1>0, <1>8 DEF Finishes, Doing, InStep, McpTypeOK
  <2> QED
    BY ZenonT(60), <1>0, <1>8, <2>1 DEF Finishes, Away, McpTypeOK
<1>9. CASE CannotSuspend(c)
  BY <1>0, <1>9, <1>w DEF CannotSuspend, McpTypeOK
<1>10. CASE SavesSecret(c)
  <2>1. <<c, op[c].round + 1>> \in McpCall \X (1 .. MaxRounds)
    BY <1>0, <1>10 DEF SavesSecret, McpTypeOK, Round
  <2> QED
    BY <1>0, <1>10, <2>1 DEF SavesSecret, Goes, McpTypeOK
<1>11. CASE Suspends(c)
  <2>1. op[c].round + 1 \in Round
    BY <1>0, <1>11 DEF Suspends, Doing, InStep, McpTypeOK, Round
  <2> QED
    BY <1>0, <1>11, <2>1 DEF Suspends, Goes, McpTypeOK
<1>12. CASE DropsOld(c)
  <2>1. exchange' = [exchange EXCEPT ![c] = Away] \/ \E told \in {"unknown", "failed"} : EndedAs(c, told)
    BY <1>12 DEF DropsOld
  <2>2. exchange' \in [McpCall -> [at : {"none", "granted", "discovered", "sent", "saving", "suspended", "ended"},
                                 status : Sts]]
    <3>1. CASE exchange' = [exchange EXCEPT ![c] = Away]
      BY <1>0, <3>1 DEF Away, McpTypeOK
    <3>2. ASSUME NEW told \in {"unknown", "failed"}, EndedAs(c, told)
          PROVE  exchange' \in [McpCall -> [at : {"none", "granted", "discovered", "sent", "saving", "suspended",
                                                "ended"}, status : Sts]]
      BY <1>d, <3>2
    <3> QED
      BY <2>1, <3>1, <3>2
  <2>3. secret' \subseteq secret /\ UNCHANGED <<op, sentIn, heard, reply, answeredIn, workerUp, mcpDeaths>>
    BY <1>12 DEF DropsOld
  <2> QED
    BY <1>0, <2>2, <2>3 DEF McpTypeOK
<1>13. CASE FormCloses(c)
  BY ZenonT(60), <1>0, <1>13 DEF FormCloses, McpTypeOK
<1>14. CASE ResumeStale(c)
  BY <1>0, <1>14, <1>e DEF ResumeStale, McpTypeOK
<1>15. CASE ResumesCall(c)
  BY ZenonT(60), <1>0, <1>15 DEF ResumesCall, Goes, McpTypeOK
<1>16. ASSUME NEW r \in Round, ServerActs(c, r)  PROVE McpTypeOK'
  <2>1. CASE UNCHANGED <<reply, answeredIn>>
    BY <1>0, <1>16, <2>1 DEF ServerActs, McpTypeOK
  <2>2. CASE ~UNCHANGED <<reply, answeredIn>>
    <3>1. PICK said \in {"success", "tool_error", "protocol_error", "input_required"} :
              reply' = [reply EXCEPT ![c] = said]
      BY <1>16, <2>2 DEF ServerActs
    <3>2. answeredIn' = [answeredIn EXCEPT ![c] = @ \cup {r}] /\ heard' = [heard EXCEPT ![c][r] = @ + 1]
          /\ UNCHANGED <<op, exchange, sentIn, secret, workerUp, mcpDeaths>>
      BY <1>16, <2>2 DEF ServerActs
    <3>3. answeredIn' \in [McpCall -> SUBSET Round]
      BY <1>0, <3>2 DEF McpTypeOK
    <3>4. heard' \in [McpCall -> [Round -> Nat]]
      BY <1>0, <3>2 DEF McpTypeOK
    <3>5. reply' \in [McpCall -> {"none", "success", "tool_error", "protocol_error", "input_required"}]
      BY <1>0, <3>1 DEF McpTypeOK
    <3> QED
      BY <1>0, <3>2, <3>3, <3>4, <3>5 DEF McpTypeOK
  <2> QED
    BY <2>1, <2>2
<1> QED
  BY <1>1, <1>2, <1>3, <1>4, <1>5, <1>6, <1>7, <1>8, <1>9, <1>10, <1>11, <1>12, <1>13, <1>14, <1>15, <1>16
  DEF StepOf

\* The end of an exchange keeps the row, and what was sent.
LEMMA EndKept ==
    ASSUME McpTypeOK, NEW c \in McpCall, RemoteInv(c), op[c].state = "running", workerUp,
           NEW status \in {"succeeded", "failed", "cancelled", "unknown"}, NEW entries,
           EndsWithout(c, status, entries), op[c].cont = "awaiting" => entries = {},
           UNCHANGED <<op, sentIn, reply, answeredIn, workerUp>>,
           c \notin ReadOnly => status = "unknown" \/ AllAnswered(c),
           status = "succeeded" => reply[c] = "success"
    PROVE  RemoteInv(c)'
<1>1. PICK told \in {status, "unknown"} : exchange'[c] = [at |-> "ended", status |-> told]
  BY DEF EndsWithout, EndedAs, McpTypeOK
<1>2. op[c].cont = "awaiting" => secret' = secret
  BY DEF EndsWithout, SpentSecret
<1>3. InStep(c)'
  BY <1>1, <1>2 DEF RemoteInv, InStep
<1>4. ASSUME c \notin ReadOnly  PROVE Accounted(c)' /\ SentInTurn(c)'
  BY <1>1, <1>4 DEF RemoteInv, Accounted, SentInTurn, GivenUp, AllAnswered
<1> QED
  BY <1>3, <1>4 DEF RemoteInv

\* McpGateway._invoke and McpContinuationService: every step of a call keeps its row and its requests in step.
LEMMA StepKept ==
    ASSUME McpInv, NEW c \in McpCall, StepOf(c)
    PROVE  RemoteInv(c)'
<1> USE McpAssumption
<1>0. McpTypeOK /\ RemoteInv(c) /\ op[c].round \in Round
  BY DEF McpInv, McpTypeOK
<1>a. ASSUME c \notin ReadOnly, exchange[c].at /= "none", exchange[c].at /= "ended",
             ~(exchange[c].at = "sent" /\ reply[c] = "none"), workerUp
      PROVE  AllAnswered(c)
  BY <1>0, <1>a DEF RemoteInv, InStep, Accounted, GivenUp, AllAnswered
<1>1. CASE Authorised(c)
  <2>1. /\ op'[c] = [op[c] EXCEPT !.state = "running"] /\ exchange'[c] = [at |-> "granted", status |-> "none"]
        /\ op[c].state = "prepared" /\ workerUp
        /\ UNCHANGED <<sentIn, heard, reply, answeredIn, secret, workerUp>>
    BY <1>0, <1>1 DEF Authorised, Goes, McpTypeOK
  <2>2. /\ op'[c].state = "running" /\ op'[c].cont = op[c].cont /\ op'[c].round = op[c].round
    BY <1>0, <2>1 DEF McpTypeOK
  <2> QED
    BY <1>0, <2>1, <2>2 DEF RemoteInv, InStep, Accounted, SentInTurn, GivenUp, AllAnswered
<1>2. CASE NotValid(c)
  <2>1. op[c].state = "running" /\ workerUp /\ exchange[c].at = "granted"
    BY <1>0, <1>2 DEF NotValid, Doing, RemoteInv, InStep
  <2>2. RaisedStatus(c) \in {"failed", "unknown"} /\ (c \notin ReadOnly => RaisedStatus(c) = "unknown")
    BY DEF RaisedStatus
  <2> QED
    BY <1>0, <1>2, <2>1, <2>2, EndKept DEF NotValid, Ends
<1>3. CASE Discovers(c)
  <2>1. /\ exchange'[c] = [at |-> "discovered", status |-> "none"] /\ exchange[c].at = "granted"
        /\ UNCHANGED <<op, sentIn, heard, reply, answeredIn, secret, workerUp>>
    BY <1>0, <1>3 DEF Discovers, Doing, Goes, McpTypeOK
  <2> QED
    BY <1>0, <2>1 DEF RemoteInv, InStep, Accounted, SentInTurn, GivenUp, AllAnswered
<1>4. CASE EndsUnsent(c)
  <2>1. op[c].state = "running" /\ workerUp /\ exchange[c].at \in {"granted", "discovered"}
    BY <1>0, <1>4 DEF EndsUnsent, Doing, RemoteInv, InStep
  <2>2. PICK kind \in {"transport_error", "timeout", "protocol_error", "cancelled"} :
            Ends(c, Status(c, kind, FALSE))
    BY <1>4 DEF EndsUnsent
  <2>3. Status(c, kind, FALSE) \in {"cancelled", "failed"}
    BY DEF Status
  <2>4. c \notin ReadOnly => AllAnswered(c)
    BY <1>a, <2>1
  <2> QED
    BY <1>0, <1>4, <2>1, <2>2, <2>3, <2>4, EndKept DEF EndsUnsent, Ends
<1>5. CASE Sends(c)
  <2>1. /\ exchange'[c] = [at |-> "sent", status |-> "none"] /\ exchange[c].at = "discovered"
        /\ reply'[c] = "none" /\ workerUp
        /\ UNCHANGED <<op, heard, answeredIn, secret, workerUp>>
    BY <1>0, <1>5 DEF Sends, Doing, Goes, McpTypeOK
  <2>2. /\ sentIn'[c][op[c].round] = sentIn[c][op[c].round] + 1
        /\ \A r \in Round : r /= op[c].round => sentIn'[c][r] = sentIn[c][r]
    BY <1>0, <1>5 DEF Sends, McpTypeOK
  <2>3. op[c].state = "running" /\ op[c].cont /= "awaiting"
    BY <1>0, <2>1 DEF RemoteInv, InStep
  <2>4. InStep(c)'
    BY <1>0, <2>1, <2>3 DEF RemoteInv, InStep
  <2>5. ASSUME c \notin ReadOnly  PROVE Accounted(c)'
    <3>1. AllAnswered(c)
      BY <1>a, <2>1, <2>5
    <3> QED
      BY <2>1, <2>2, <2>3, <3>1 DEF Accounted, AllAnswered, GivenUp
  <2>6. ASSUME c \notin ReadOnly  PROVE SentInTurn(c)'
    <3>1. sentIn[c][op[c].round] = 0
      BY <1>0, <2>1, <2>6 DEF RemoteInv, SentInTurn
    <3> QED
      BY <1>0, <2>1, <2>2, <2>3, <2>6, <3>1 DEF RemoteInv, SentInTurn, Round
  <2> QED
    BY <2>4, <2>5, <2>6 DEF RemoteInv
<1>6. CASE Answered(c)
  <2>1. op[c].state = "running" /\ workerUp /\ exchange[c].at = "sent"
    BY <1>0, <1>6 DEF Answered, Doing, RemoteInv, InStep
  <2>2. /\ reply[c] \in {"success", "tool_error", "protocol_error"}
        /\ Ends(c, Status(c, reply[c], TRUE))
    BY <1>6 DEF Answered
  <2>3. /\ Status(c, reply[c], TRUE) \in {"succeeded", "unknown", "failed"}
        /\ Status(c, reply[c], TRUE) = "succeeded" => reply[c] = "success"
    BY <2>2 DEF Status
  <2>4. c \notin ReadOnly => AllAnswered(c)
    BY <1>a, <2>1, <2>2
  <2> QED
    BY <1>0, <1>6, <2>1, <2>2, <2>3, <2>4, EndKept DEF Answered, Ends
<1>7. CASE Interrupted(c)
  <2>1. op[c].state = "running" /\ workerUp /\ exchange[c].at = "sent"
    BY <1>0, <1>7 DEF Interrupted, Doing, RemoteInv, InStep
  <2>2. PICK kind \in {"unknown_outcome", "cancelled"} : Ends(c, Status(c, kind, TRUE))
    BY <1>7 DEF Interrupted
  <2>3. /\ Status(c, kind, TRUE) \in {"unknown", "cancelled"}
        /\ c \notin ReadOnly => Status(c, kind, TRUE) = "unknown"
    BY DEF Status
  <2> QED
    BY <1>0, <1>7, <2>1, <2>2, <2>3, EndKept DEF Interrupted, Ends
<1>8. CASE Finishes(c)
  <2>1. /\ exchange[c].at = "ended" /\ exchange'[c] = Away
        /\ op'[c] = [op[c] EXCEPT !.state = exchange[c].status]
        /\ UNCHANGED <<sentIn, heard, reply, answeredIn, secret, workerUp>>
    BY <1>0, <1>8 DEF Finishes, Doing, McpTypeOK
  <2>2. /\ op[c].state = "running" /\ op'[c].cont = op[c].cont /\ op'[c].round = op[c].round
        /\ op'[c].state = exchange[c].status
        /\ exchange[c].status \in {"succeeded", "failed", "cancelled", "unknown"} /\ exchange'[c].at = "none"
    BY <1>0, <2>1 DEF McpTypeOK, RemoteInv, InStep, Away
  <2>3. workerUp
    BY <1>8 DEF Finishes, Doing
  <2> QED
    BY <1>0, <2>1, <2>2, <2>3 DEF RemoteInv, InStep, Accounted, SentInTurn, GivenUp, AllAnswered
<1>9. CASE CannotSuspend(c)
  <2>1. /\ exchange[c].at \in {"saving", "sent"} /\ workerUp
        /\ UNCHANGED <<op, sentIn, reply, answeredIn, workerUp>>
    BY <1>0, <1>9 DEF CannotSuspend, Doing
  <2>2. op[c].state = "running" /\ op[c].cont /= "awaiting"
    BY <1>0, <2>1 DEF RemoteInv, InStep
  <2>3. PICK entries : EndsWithout(c, IF c \in ReadOnly THEN "failed" ELSE "unknown", entries)
    BY <1>9 DEF CannotSuspend
  <2> QED
    BY <1>0, <2>1, <2>2, <2>3, EndKept
<1>10. CASE SavesSecret(c)
  <2>1. /\ exchange[c].at = "sent" /\ reply[c] = "input_required" /\ workerUp
        /\ exchange'[c] = [at |-> "saving", status |-> "none"]
        /\ op[c].round < MaxRounds /\ secret' = secret \cup {<<c, op[c].round + 1>>}
        /\ UNCHANGED <<op, sentIn, reply, answeredIn, workerUp>>
    BY <1>0, <1>10 DEF SavesSecret, Doing, Goes, McpTypeOK
  <2>2. op[c].state = "running" /\ op[c].cont /= "awaiting"
    BY <1>0, <2>1 DEF RemoteInv, InStep
  <2> QED
    BY <1>0, <2>1, <2>2 DEF RemoteInv, InStep, Accounted, SentInTurn, GivenUp, AllAnswered
<1>11. CASE Suspends(c)
  <2>1. /\ exchange[c].at = "saving" /\ workerUp
        /\ exchange'[c] = [at |-> "suspended", status |-> "none"]
        /\ op'[c] = [state |-> "running", cont |-> "awaiting", round |-> op[c].round + 1, form |-> "open"]
        /\ UNCHANGED <<sentIn, reply, answeredIn, secret, workerUp>>
    BY <1>0, <1>11 DEF Suspends, Doing, Goes, McpTypeOK
  <2>2. op[c].state = "running" /\ op[c].round < MaxRounds /\ <<c, op[c].round + 1>> \in secret
    BY <1>0, <2>1 DEF RemoteInv, InStep
  <2>3. c \notin ReadOnly => AllAnswered(c)
    BY <1>a, <2>1
  <2>4. op[c].round + 1 \in Round
    BY <1>0, <2>2 DEF Round
  <2>5. InStep(c)'
    BY <2>1, <2>2 DEF InStep
  <2>6. ASSUME c \notin ReadOnly  PROVE Accounted(c)'
    BY <2>1, <2>3, <2>6 DEF Accounted, AllAnswered
  <2>7. ASSUME c \notin ReadOnly  PROVE SentInTurn(c)'
    <3>1. \A r \in Round : sentIn[c][r] <= 1 /\ (r > op[c].round => sentIn[c][r] = 0)
      BY <1>0, <2>7 DEF RemoteInv, SentInTurn
    <3>2. \A r \in Round : r > op[c].round + 1 => r > op[c].round
      BY <1>0 DEF Round
    <3>3. op[c].round + 1 > op[c].round
      BY <1>0 DEF Round
    <3> QED
      BY <2>1, <2>4, <3>1, <3>2, <3>3 DEF SentInTurn
  <2> QED
    BY <2>5, <2>6, <2>7 DEF RemoteInv
<1>12. CASE DropsOld(c)
  <2>1. /\ exchange[c].at = "suspended" /\ workerUp
        /\ \/ exchange'[c] = Away
           \/ exchange'[c] = [at |-> "ended", status |-> "unknown"]
           \/ c \in ReadOnly /\ exchange'[c] = [at |-> "ended", status |-> "failed"]
        /\ secret' = secret \/ secret' = secret \ {<<c, op[c].round - 1>>}
        /\ UNCHANGED <<op, sentIn, reply, answeredIn, workerUp>>
    BY <1>0, <1>12 DEF DropsOld, EndedAs, Doing, McpTypeOK
  <2>2. op[c].round /= op[c].round - 1
    BY <1>0 DEF Round
  <2>3. <<c, op[c].round>> \in secret => <<c, op[c].round>> \in secret'
    BY <2>1, <2>2
  <2> QED
    BY <1>0, <2>1, <2>3 DEF RemoteInv, InStep, Accounted, SentInTurn, GivenUp, AllAnswered, Away
<1>13. CASE FormCloses(c)
  <2>1. /\ op'[c].state = op[c].state /\ op'[c].cont = op[c].cont /\ op'[c].round = op[c].round
        /\ UNCHANGED <<exchange, sentIn, reply, answeredIn, secret, workerUp>>
    BY <1>0, <1>13 DEF FormCloses, McpTypeOK
  <2> QED
    BY <1>0, <2>1 DEF RemoteInv, InStep, Accounted, SentInTurn, GivenUp, AllAnswered
<1>14. CASE ResumeStale(c)
  BY <1>0, <1>14, EndKept DEF ResumeStale, Doing, Ends
<1>15. CASE ResumesCall(c)
  <2>1. /\ exchange[c].at = "none" /\ exchange'[c] = [at |-> "granted", status |-> "none"] /\ workerUp
        /\ op[c].state = "running" /\ op[c].cont = "awaiting"
        /\ op'[c].state = op[c].state /\ op'[c].cont = "sending" /\ op'[c].round = op[c].round
        /\ UNCHANGED <<sentIn, reply, answeredIn, secret, workerUp>>
    BY <1>0, <1>15 DEF ResumesCall, Doing, Goes, McpTypeOK
  <2> QED
    BY <1>0, <2>1 DEF RemoteInv, InStep, Accounted, SentInTurn, GivenUp, AllAnswered
<1>16. ASSUME NEW r \in Round, ServerActs(c, r)  PROVE RemoteInv(c)'
  <2>1. UNCHANGED <<op, exchange, sentIn, secret, workerUp>>
    BY <1>16 DEF ServerActs
  <2>2. CASE UNCHANGED <<reply, answeredIn>>
    BY <1>0, <2>1, <2>2 DEF RemoteInv, InStep, Accounted, SentInTurn, GivenUp, AllAnswered
  <2>3. CASE ~UNCHANGED <<reply, answeredIn>>
    <3>1. /\ exchange[c].at = "sent" /\ op[c].round = r
          /\ answeredIn'[c] = answeredIn[c] \cup {r}
      BY <1>0, <1>16, <2>3 DEF ServerActs, McpTypeOK
    <3>2. op[c].state = "running"
      BY <1>0, <3>1 DEF RemoteInv, InStep
    <3> QED
      BY <1>0, <2>1, <3>1, <3>2 DEF RemoteInv, InStep, Accounted, SentInTurn, GivenUp, AllAnswered
  <2> QED
    BY <2>2, <2>3
<1> QED
  BY <1>1, <1>2, <1>3, <1>4, <1>5, <1>6, <1>7, <1>8, <1>9, <1>10, <1>11, <1>12, <1>13, <1>14, <1>15, <1>16
  DEF StepOf

------------------------------------------------------------------------------
\* Every step of calls and servers, and the death of a worker with its coroutines, keeps the invariant.
LEMMA McpKept ==
    ASSUME McpInv, [McpNext]_xvars
    PROVE  McpInv'
<1> USE McpAssumption
<1>0. McpTypeOK
  BY DEF McpInv
<1>1. ASSUME NEW d \in McpCall, StepOf(d)  PROVE McpInv'
  <2>1. ASSUME NEW c \in McpCall  PROVE RemoteInv(c)'
    <3>1. CASE c = d
      BY <1>1, <3>1, StepKept
    <3>2. CASE c /= d
      <4>1. RemoteInv(c)
        BY DEF McpInv
      <4> QED
        BY <1>0, <1>1, <3>2, <4>1, OthersKept
    <3> QED
      BY <3>1, <3>2
  <2>2. McpTypeOK'
    BY <1>1, StepTypes
  <2> QED
    BY <2>1, <2>2 DEF McpInv
<1>2. CASE McpWorkerDies
  <2>1. McpTypeOK'
    <3>1. exchange' \in [McpCall -> [at : {"none", "granted", "discovered", "sent", "saving", "suspended", "ended"},
                                 status : {"none", "succeeded", "failed", "cancelled", "unknown"}]]
      BY <1>2 DEF McpWorkerDies, Away
    <3>2. mcpDeaths' \in 0 .. MaxMcpDeaths
      BY <1>0, <1>2 DEF McpWorkerDies, McpTypeOK
    <3> QED
      BY <1>0, <1>2, <3>1, <3>2 DEF McpWorkerDies, McpTypeOK
  <2>2. ASSUME NEW c \in McpCall  PROVE RemoteInv(c)'
    <3>1. /\ exchange'[c] = Away /\ Away.at = "none" /\ workerUp /\ ~workerUp'
          /\ UNCHANGED <<op, sentIn, reply, answeredIn, secret>>
      BY <1>2 DEF McpWorkerDies, Away
    <3>2. RemoteInv(c) /\ op[c].state \in {"prepared", "running", "succeeded", "failed", "cancelled", "unknown"}
      BY <1>0 DEF McpInv, McpTypeOK
    <3> QED
      BY <3>1, <3>2 DEF RemoteInv, InStep, Accounted, SentInTurn, GivenUp, AllAnswered
  <2> QED
    BY <2>1, <2>2 DEF McpInv
<1>3. CASE McpRecovers
  <2>1. ASSUME NEW c \in McpCall
        PROVE  \/ op'[c] = op[c] /\ (op[c].state /= "running" \/ op[c].cont = "awaiting")
               \/ /\ op'[c] = [op[c] EXCEPT !.state = "prepared"]
                  /\ op[c].state = "running" /\ op[c].cont = "none" /\ c \in ReadOnly
               \/ /\ op'[c] = [op[c] EXCEPT !.state = "unknown"]
                  /\ op[c].state = "running" /\ op[c].cont /= "awaiting"
    BY <1>3 DEF McpRecovers
  <2>2. McpTypeOK'
    <3>1. ASSUME NEW c \in McpCall
          PROVE  op'[c] \in [state : {"prepared", "running", "succeeded", "failed", "cancelled", "unknown"},
                           cont : {"none", "awaiting", "sending"}, round : Round,
                           form : {"none", "open", "closed"}]
      <4>1. op[c] \in [state : {"prepared", "running", "succeeded", "failed", "cancelled", "unknown"},
                           cont : {"none", "awaiting", "sending"}, round : Round,
                           form : {"none", "open", "closed"}]
        BY <1>0 DEF McpTypeOK
      <4> QED
        BY <2>1, <4>1
    <3>2. op' = [c \in McpCall |-> op'[c]]
      BY <1>3 DEF McpRecovers
    <3>3. op' \in [McpCall -> [state : {"prepared", "running", "succeeded", "failed", "cancelled", "unknown"},
                           cont : {"none", "awaiting", "sending"}, round : Round,
                           form : {"none", "open", "closed"}]]
      BY <3>1, <3>2, Zenon
    <3> QED
      BY <1>0, <1>3, <3>3 DEF McpRecovers, McpTypeOK
  <2>3. ASSUME NEW c \in McpCall  PROVE RemoteInv(c)'
    <3>1. /\ UNCHANGED <<exchange, sentIn, reply, answeredIn, secret>> /\ ~workerUp /\ workerUp'
      BY <1>3 DEF McpRecovers
    <3>2. RemoteInv(c) /\ op[c] \in [state : {"prepared", "running", "succeeded", "failed", "cancelled", "unknown"},
                           cont : {"none", "awaiting", "sending"}, round : Round,
                           form : {"none", "open", "closed"}]
      BY <1>0 DEF McpInv, McpTypeOK
    <3>3. exchange[c].at = "none"
      BY <3>1, <3>2 DEF RemoteInv, InStep
    <3>4. CASE op'[c] = op[c] /\ (op[c].state /= "running" \/ op[c].cont = "awaiting")
      BY <3>1, <3>2, <3>3, <3>4 DEF RemoteInv, InStep, Accounted, SentInTurn, GivenUp, AllAnswered
    <3>5. CASE op'[c] = [op[c] EXCEPT !.state = "prepared"] /\ op[c].cont = "none" /\ c \in ReadOnly
      <4>1. op'[c].state = "prepared" /\ op'[c].cont = "none"
        BY <3>2, <3>5
      <4> QED
        BY <3>1, <3>2, <3>3, <3>5, <4>1 DEF RemoteInv, InStep
    <3>6. CASE op'[c] = [op[c] EXCEPT !.state = "unknown"]
      <4>1. op'[c].state = "unknown" /\ op'[c].cont = op[c].cont /\ op'[c].round = op[c].round
        BY <3>2, <3>6
      <4> QED
        BY <3>1, <3>2, <3>3, <4>1 DEF RemoteInv, InStep, Accounted, SentInTurn, GivenUp, AllAnswered
    <3> QED
      BY <2>1, <3>4, <3>5, <3>6
  <2> QED
    BY <2>2, <2>3 DEF McpInv
<1>4. CASE UNCHANGED xvars
  BY <1>4 DEF xvars, McpInv, McpTypeOK, RemoteInv, InStep, Accounted, SentInTurn, GivenUp, AllAnswered
<1> QED
  BY <1>1, <1>2, <1>3, <1>4 DEF McpNext, StepOf

\* The invariant is what the gateway tells: an outcome is told as it was, or as unknown.
LEMMA CallsTold == McpInv => McpTypeOK /\ McpOutcomeTrue
<1> SUFFICES ASSUME McpInv  PROVE McpTypeOK /\ McpOutcomeTrue
  OBVIOUS
<1>1. SecretKept
  BY DEF McpInv, RemoteInv, InStep, SecretKept
<1>2. ASSUME NEW c \in McpCall \ ReadOnly
      PROVE  /\ op[c].state \in {"failed", "cancelled", "succeeded"} =>
                    \A r \in Round : sentIn[c][r] > 0 => r \in answeredIn[c]
             /\ op[c].state = "succeeded" => reply[c] = "success"
             /\ \A r \in Round : sentIn[c][r] <= 1
  BY <1>2 DEF McpInv, RemoteInv, InStep, Accounted, SentInTurn, GivenUp
<1> QED
  BY <1>1, <1>2 DEF McpInv, McpOutcomeTrue, OutcomeKnown

\* McpGateway._invoke, McpContinuationService: whichever worker dies in whichever round, a remote call is
\* never recorded as less than it may have done, and a durable pause has the secret it is answered with.
THEOREM CallsHold == McpSpec => [](McpTypeOK /\ McpOutcomeTrue)
BY McpStarts, McpKept, CallsTold, PTL DEF McpSpec

------------------------------------------------------------------------------
(* The configuration file *)

\* A save of the configuration page, with the text it saw and the text it writes.
SaveRow == [at : {"none", "asked", "prepared", "replacing", "replaced", "refused", "done"},
            seen : Text \cup {Invalid, NoText}, text : Text \cup {NoText}]

\* A save or a reload under way has the lock; the file is still what the page had seen, or was
\* edited after the second look.
ConfigInv ==
    /\ ConfigTypeOK
    /\ save \in [WebSave -> SaveRow]
    /\ reload.text \in Text \cup {Invalid, NoText} /\ (reload.at = "read" => reload.text \in Text)
    /\ reload.at = "read" => fileLock = "reload"
    /\ \A s \in WebSave :
          /\ save[s].at \in {"prepared", "replacing", "replaced"} => fileLock = s
          /\ save[s].at = "replacing" => file = save[s].seen \/ s \in late
    /\ SavedWhatWasSeen

\* The file is as the host found it, and nobody has asked to save.
LEMMA ConfigStarts == ConfigInit => ConfigInv
<1> SUFFICES ASSUME ConfigInit  PROVE ConfigInv
  OBVIOUS
<1>1. save \in [WebSave -> SaveRow] /\ \A s \in WebSave : save[s].at = "none"
  BY DEF ConfigInit, Unsaved, SaveRow
<1>2. reload.text = NoText /\ reload.at = "none"
  BY DEF ConfigInit, Quiet
<1>3. ConfigTypeOK
  BY <1>1, <1>2, ConfigAssumption DEF ConfigInit, ConfigTypeOK
<1> QED
  BY <1>1, <1>2, <1>3 DEF ConfigInit, ConfigInv, SavedWhatWasSeen

\* A publication leaves a text in effect and every journal row in one of its states.
LEMMA Published ==
    ASSUME ConfigTypeOK, NEW t \in Text, NEW s, Publish(t, s)
    PROVE  loaded' \in Text /\ journal' \in [WebSave -> {"none", "prepared", "completed", "superseded"}]
<1>1. CASE t = loaded
  BY <1>1 DEF Publish, ConfigTypeOK
<1>2. CASE t /= loaded
  BY <1>2 DEF Publish, ConfigTypeOK
<1> QED
  BY <1>1, <1>2

\* Every step of pages, editors, reloads and deaths keeps it.
LEMMA ConfigKept ==
    ASSUME ConfigInv, [ConfigNext]_gvars
    PROVE  ConfigInv'
<1> USE ConfigAssumption
<1>0. /\ ConfigTypeOK /\ save \in [WebSave -> SaveRow]
      /\ \A s \in WebSave : s /= "free" /\ s /= "reload"
  BY DEF ConfigInv
<1>g. ASSUME NEW s \in WebSave, NEW at \in {"asked", "prepared", "replacing", "replaced", "refused", "done"},
             SaveGoes(s, at), save[s].at /= "none"
      PROVE  /\ save' \in [WebSave -> SaveRow]
             /\ save'[s].at = at /\ save'[s].seen = save[s].seen /\ save'[s].text = save[s].text
             /\ \A r \in WebSave : r /= s => save'[r] = save[r]
             /\ \A r \in WebSave : save'[r].at /= "none" => save'[r].text \in Text /\ save'[r].seen \in Text \cup {Invalid}
  BY <1>0, <1>g DEF SaveGoes, SaveRow, ConfigTypeOK
<1>1. ASSUME NEW t \in Text \cup {Invalid}, ExternalEdit(t)  PROVE ConfigInv'
  <2>1. \A s \in WebSave : save[s].at = "replacing" => s \in late'
    BY <1>1 DEF ExternalEdit
  <2>2. ConfigTypeOK'
    BY <1>0, <1>1 DEF ExternalEdit, ConfigTypeOK
  <2> QED
    BY <1>1, <2>1, <2>2 DEF ExternalEdit, ConfigInv, SavedWhatWasSeen
<1>2. ASSUME NEW s \in WebSave, NEW t \in Text, WebReads(s, t)  PROVE ConfigInv'
  <2>1. /\ save' = [save EXCEPT ![s] = [at |-> "asked", seen |-> file, text |-> t]]
        /\ UNCHANGED <<file, loaded, loadError, journal, fileLock, reload, polled, apiUp, late, clobbered,
                       edits, apiDeaths>>
    BY <1>2 DEF WebReads
  <2>2. [at |-> "asked", seen |-> file, text |-> t] \in SaveRow /\ file \in Text \cup {Invalid}
    BY <1>0 DEF SaveRow, ConfigTypeOK
  <2>3. save' \in [WebSave -> SaveRow]
    BY <1>0, <2>1, <2>2
  <2>4. \A r \in WebSave : save'[r] = IF r = s THEN [at |-> "asked", seen |-> file, text |-> t] ELSE save[r]
    BY <1>0, <2>1
  <2>5. ConfigTypeOK'
    BY <1>0, <2>1, <2>2, <2>4 DEF ConfigTypeOK
  <2> QED
    BY <2>1, <2>3, <2>4, <2>5 DEF ConfigInv, SavedWhatWasSeen
<1>3. ASSUME NEW s \in WebSave, SaveAccepted(s)  PROVE ConfigInv'
  <2>1. UNCHANGED <<file, loaded, loadError, reload, polled, apiUp, late, clobbered, edits, apiDeaths>>
        /\ save[s].at = "asked" /\ fileLock = Free
    BY <1>3 DEF SaveAccepted
  <2>2. CASE file = save[s].seen
    <3>1. /\ fileLock' = s /\ SaveGoes(s, "prepared") /\ journal' = [journal EXCEPT ![s] = "prepared"]
      BY <1>3, <2>2 DEF SaveAccepted
    <3>2. ConfigTypeOK'
      BY <1>0, <1>g, <2>1, <3>1 DEF ConfigTypeOK, SaveRow
    <3>3. \A r \in WebSave : save[r].at \notin {"prepared", "replacing", "replaced"}
      BY <1>0, <2>1 DEF ConfigInv, Free
    <3>4. reload.at /= "read"
      BY <2>1 DEF ConfigInv, Free
    <3> QED
      BY <1>g, <2>1, <3>1, <3>2, <3>3, <3>4 DEF ConfigInv, SavedWhatWasSeen
  <2>3. CASE file /= save[s].seen
    <3>1. SaveGoes(s, "refused") /\ UNCHANGED <<fileLock, journal>>
      BY <1>3, <2>3 DEF SaveAccepted
    <3>2. ConfigTypeOK'
      BY <1>0, <1>g, <2>1, <3>1 DEF ConfigTypeOK, SaveRow
    <3> QED
      BY <1>g, <2>1, <3>1, <3>2 DEF ConfigInv, SavedWhatWasSeen
  <2> QED
    BY <2>2, <2>3
<1>4. ASSUME NEW s \in WebSave, SecondRead(s)  PROVE ConfigInv'
  <2>1. UNCHANGED <<file, loaded, loadError, journal, reload, polled, apiUp, late, clobbered, edits, apiDeaths>>
        /\ save[s].at = "prepared" /\ fileLock = s
    BY <1>4 DEF SecondRead, ConfigInv
  <2>2. CASE file = save[s].seen
    <3>1. SaveGoes(s, "replacing") /\ UNCHANGED fileLock
      BY <1>4, <2>2 DEF SecondRead
    <3>2. ConfigTypeOK'
      BY <1>0, <1>g, <2>1, <3>1 DEF ConfigTypeOK, SaveRow
    <3> QED
      BY <1>g, <2>1, <2>2, <3>1, <3>2 DEF ConfigInv, SavedWhatWasSeen
  <2>3. CASE file /= save[s].seen
    <3>1. SaveGoes(s, "refused") /\ fileLock' = Free
      BY <1>4, <2>3 DEF SecondRead
    <3>2. ConfigTypeOK'
      BY <1>0, <1>g, <2>1, <3>1 DEF ConfigTypeOK, SaveRow
    <3>3. \A r \in WebSave : r /= s => save[r].at \notin {"prepared", "replacing", "replaced"}
      BY <2>1 DEF ConfigInv
    <3>4. reload.at /= "read"
      BY <1>0, <2>1 DEF ConfigInv
    <3> QED
      BY <1>g, <2>1, <3>1, <3>2, <3>3, <3>4 DEF ConfigInv, SavedWhatWasSeen
  <2> QED
    BY <2>2, <2>3
<1>5. ASSUME NEW s \in WebSave, Replaces(s)  PROVE ConfigInv'
  <2>1. /\ UNCHANGED <<loaded, loadError, journal, fileLock, reload, polled, apiUp, late, edits, apiDeaths>>
        /\ save[s].at = "replacing" /\ fileLock = s /\ file' = save[s].text /\ SaveGoes(s, "replaced")
    BY <1>5 DEF Replaces, ConfigInv
  <2>2. clobbered' = clobbered
    BY <1>5, <2>1 DEF Replaces, ConfigInv
  <2>3. \A r \in WebSave : r /= s => save[r].at \notin {"prepared", "replacing", "replaced"}
    BY <2>1 DEF ConfigInv
  <2>4. file' \in Text
    BY <1>0, <2>1 DEF ConfigTypeOK
  <2>5. ConfigTypeOK'
    BY <1>0, <1>g, <2>1, <2>2, <2>4 DEF ConfigTypeOK, SaveRow
  <2> QED
    BY <1>g, <2>1, <2>2, <2>3, <2>5 DEF ConfigInv, SavedWhatWasSeen
<1>6. ASSUME NEW s \in WebSave, SavePublishes(s)  PROVE ConfigInv'
  <2>1. /\ UNCHANGED <<file, reload, polled, apiUp, late, clobbered, edits, apiDeaths>>
        /\ save[s].at = "replaced" /\ fileLock = s /\ SaveGoes(s, "done") /\ fileLock' = Free
    BY <1>6 DEF SavePublishes, ConfigInv
  <2>2. /\ loaded' \in Text /\ journal' \in [WebSave -> {"none", "prepared", "completed", "superseded"}]
        /\ loadError' \in BOOLEAN
    <3>1. CASE file = save[s].text
      <4>1. file \in Text
        BY <1>0, <2>1, <3>1 DEF ConfigTypeOK
      <4> QED
        BY <1>0, <1>6, <3>1, <4>1, Published DEF SavePublishes
    <3>2. CASE file /= save[s].text
      BY <1>0, <1>6, <3>2 DEF SavePublishes, ConfigTypeOK
    <3> QED
      BY <3>1, <3>2
  <2>3. \A r \in WebSave : r /= s => save[r].at \notin {"prepared", "replacing", "replaced"}
    BY <2>1 DEF ConfigInv
  <2>4. ConfigTypeOK'
    BY <1>0, <1>g, <2>1, <2>2 DEF ConfigTypeOK, SaveRow
  <2>5. reload.at /= "read"
    BY <1>0, <2>1 DEF ConfigInv
  <2> QED
    BY <1>g, <2>1, <2>3, <2>4, <2>5 DEF ConfigInv, SavedWhatWasSeen
<1>7. CASE Polls
  BY <1>0, <1>7 DEF Polls, ConfigInv, ConfigTypeOK, SavedWhatWasSeen
<1>8. CASE PollGivesUp
  BY <1>0, <1>8 DEF PollGivesUp, Quiet, ConfigInv, ConfigTypeOK, SavedWhatWasSeen
<1>9. CASE ReloadReads
  <2>1. \A r \in WebSave : save[r].at \notin {"prepared", "replacing", "replaced"}
    BY <1>0, <1>9 DEF ReloadReads, ConfigInv, Free
  <2>2. CASE file \in Text
    BY <1>0, <1>9, <2>1, <2>2 DEF ReloadReads, ConfigInv, ConfigTypeOK, SavedWhatWasSeen
  <2>3. CASE file \notin Text
    BY <1>0, <1>9, <2>1, <2>3 DEF ReloadReads, Quiet, ConfigInv, ConfigTypeOK, SavedWhatWasSeen
  <2> QED
    BY <2>2, <2>3
<1>10. CASE ReloadPublishes
  <2>1. /\ UNCHANGED <<file, save, apiUp, late, clobbered, edits, apiDeaths>>
        /\ reload.at = "read" /\ reload' = Quiet /\ fileLock' = Free /\ polled' = reload.text
    BY <1>10 DEF ReloadPublishes
  <2>2. reload.text \in Text /\ fileLock = "reload"
    BY <2>1 DEF ConfigInv
  <2>3. /\ loaded' \in Text /\ journal' \in [WebSave -> {"none", "prepared", "completed", "superseded"}]
        /\ loadError' \in BOOLEAN
    <3>1. CASE file = reload.text
      BY <1>0, <1>10, <2>2, <3>1, Published DEF ReloadPublishes
    <3>2. CASE file /= reload.text
      BY <1>0, <1>10, <3>2 DEF ReloadPublishes, ConfigTypeOK
    <3> QED
      BY <3>1, <3>2
  <2>4. \A r \in WebSave : save[r].at \notin {"prepared", "replacing", "replaced"}
    BY <1>0, <2>2 DEF ConfigInv
  <2>5. ConfigTypeOK'
    BY <1>0, <2>1, <2>2, <2>3 DEF ConfigTypeOK, Quiet
  <2>6. reload'.text = NoText /\ reload'.at = "none"
    BY <2>1 DEF Quiet
  <2> QED
    BY <1>0, <2>1, <2>4, <2>5, <2>6 DEF ConfigInv, SavedWhatWasSeen
<1>11. CASE WebReloads
  BY <1>0, <1>11 DEF WebReloads, ConfigInv, ConfigTypeOK, SavedWhatWasSeen
<1>12. CASE ApiDies
  <2>1. \A s \in WebSave : save'[s] = IF save[s].at = "none" THEN save[s] ELSE [save[s] EXCEPT !.at = "done"]
    BY <1>12 DEF ApiDies
  <2>2. ASSUME NEW s \in WebSave
        PROVE  /\ save'[s] \in SaveRow /\ save'[s].at \in {"none", "done"}
               /\ save'[s].at /= "none" => save'[s].text \in Text /\ save'[s].seen \in Text \cup {Invalid}
    <3>1. save[s] \in SaveRow /\ (save[s].at /= "none" => save[s].text \in Text /\ save[s].seen \in Text \cup {Invalid})
      BY <1>0 DEF ConfigTypeOK
    <3> QED
      BY <2>1, <3>1 DEF SaveRow
  <2>3. save' \in [WebSave -> SaveRow]
    BY <1>12, <2>1, <2>2 DEF ApiDies
  <2>4. ConfigTypeOK'
    BY <1>0, <1>12, <2>2 DEF ApiDies, ConfigTypeOK, Quiet
  <2>5. reload'.text = NoText /\ reload'.at = "none"
    BY <1>12 DEF ApiDies, Quiet
  <2> QED
    BY <1>12, <2>2, <2>3, <2>4, <2>5 DEF ApiDies, ConfigInv, SavedWhatWasSeen
<1>13. CASE ApiReturns
  BY <1>0, <1>13 DEF ApiReturns, ConfigInv, ConfigTypeOK, SavedWhatWasSeen
<1>14. CASE UNCHANGED gvars
  BY <1>0, <1>14 DEF gvars, ConfigInv, ConfigTypeOK, SavedWhatWasSeen
<1> QED
  BY <1>1, <1>2, <1>3, <1>4, <1>5, <1>6, <1>7, <1>8, <1>9, <1>10, <1>11, <1>12, <1>13, <1>14
  DEF ConfigNext, SaveStep, ReloadStep

\* McpConfigFileService.save: whoever edits the file meanwhile, a save overwrites a text its page had not
\* seen only if that was written between the second read and os.replace.
THEOREM ConfigHolds == ConfigSpec => [](ConfigTypeOK /\ SavedWhatWasSeen)
<1>1. ConfigInv => ConfigTypeOK /\ SavedWhatWasSeen
  BY DEF ConfigInv
<1> QED
  BY <1>1, ConfigStarts, ConfigKept, PTL DEF ConfigSpec

------------------------------------------------------------------------------
(* Authorization *)

\* No code was sent before the flow was claimed; one delivery exchanges it; and an exchange that
\* succeeded authorized the flow for good.
OAuthInv ==
    /\ OAuthTypeOK
    /\ CodeSpentOnce
    /\ flow.status \in {"none", "pending"} => exchanges = 0
    /\ \A k \in Callback :
          /\ callback[k] = "exchanging" => flow.status = "exchanging"
          /\ callback[k] = "exchanged" => flow.status = "authorized"
    /\ \A j, k \in Callback : callback[j] = "exchanging" /\ callback[k] = "exchanging" => j = k

\* No flow was started and no code arrived.
LEMMA OAuthStarts == OAuthInit => OAuthInv
BY OAuthAssumption DEF OAuthInit, OAuthInv, OAuthTypeOK, CodeSpentOnce

\* Every step of the flow, its callbacks and the deaths among them keeps it.
LEMMA OAuthKept ==
    ASSUME OAuthInv, [OAuthNext]_ovars
    PROVE  OAuthInv'
<1> USE OAuthAssumption DEF OAuthInv, OAuthTypeOK, CodeSpentOnce
<1>1. CASE Authorizes
  BY <1>1 DEF Authorizes
<1>2. CASE FlowEnds
  BY <1>2 DEF FlowEnds
<1>3. CASE RowReplaced
  BY <1>3 DEF RowReplaced
<1>4. CASE ExchangerDies
  BY <1>4 DEF ExchangerDies
<1>5. ASSUME NEW k \in Callback, CallbackReads(k)  PROVE OAuthInv'
  BY <1>5 DEF CallbackReads
<1>6. ASSUME NEW k \in Callback, Claims(k)  PROVE OAuthInv'
  <2>1. CASE flow.status = "pending"
    BY <1>6, <2>1 DEF Claims
  <2>2. CASE flow.status /= "pending"
    BY <1>6, <2>2 DEF Claims
  <2> QED
    BY <2>1, <2>2
<1>7. ASSUME NEW k \in Callback, Exchanged(k)  PROVE OAuthInv'
  <2>1. CASE flow' = [flow EXCEPT !.status = "authorized"] /\ callback' = [callback EXCEPT ![k] = "exchanged"]
    BY <1>7, <2>1 DEF Exchanged
  <2>2. CASE flow' = [flow EXCEPT !.status = "failed"] /\ callback' = [callback EXCEPT ![k] = "refused"]
    BY <1>7, <2>2 DEF Exchanged
  <2> QED
    BY <1>7, <2>1, <2>2 DEF Exchanged
<1>8. ASSUME NEW k \in Callback, RowAuthorized(k)  PROVE OAuthInv'
  <2>1. flow.status = "authorized"
    BY <1>8 DEF RowAuthorized
  <2>2. row' \in [authorized : BOOLEAN, revision : Nat]
    <3>1. row' = [row EXCEPT !.authorized = TRUE, !.revision = row.revision + 1]
      BY <1>8 DEF RowAuthorized
    <3>2. row \in [authorized : BOOLEAN, revision : Nat] /\ row.revision + 1 \in Nat
      OBVIOUS
    <3> QED
      BY <3>1, <3>2
  <2>3. /\ callback' \in [Callback -> {"none", "read", "exchanging", "exchanged", "refused", "done"}]
        /\ \A j \in Callback : callback'[j] \in {callback[j], "done"}
    BY <1>8 DEF RowAuthorized
  <2> QED
    BY <1>8, <2>1, <2>2, <2>3 DEF RowAuthorized
<1>9. CASE UNCHANGED ovars
  BY <1>9 DEF ovars
<1> QED
  BY <1>1, <1>2, <1>3, <1>4, <1>5, <1>6, <1>7, <1>8, <1>9 DEF OAuthNext

\* OAuthAuthorizationService.callback: however often it is delivered and whatever dies, a code is exchanged
\* once, and the row is marked only after the exchange succeeded.
THEOREM OAuthHolds == OAuthSpec => [](OAuthTypeOK /\ CodeSpentOnce)
<1>1. OAuthInv => OAuthTypeOK /\ CodeSpentOnce
  BY DEF OAuthInv
<1> QED
  BY <1>1, OAuthStarts, OAuthKept, PTL DEF OAuthSpec

------------------------------------------------------------------------------
(* The event stream *)

\* The events of a log, by what they are about.
Kind == {"run", "control", "message"}
Event == [kind : {"run", "control"}, rev : Nat]
         \cup [kind : {"message"}, message : Reply, size : {"small", "large"}]

\* The places among the first n of a log with events of a kind.
Among(log, n, kind) == {i \in 1 .. n : log[i].kind = kind}

\* What is shown is the run's state after the first n events of the log.
Shows(log, shown, n) ==
    /\ shown.rev \in Nat /\ shown.status \in Nat /\ shown.status <= shown.rev
    /\ shown.status \in {0} \cup {log[i].rev : i \in Among(log, n, "run")}
    /\ \A i \in Among(log, n, "run") : log[i].rev <= shown.status
    /\ shown.messages = {log[i].message : i \in Among(log, n, "message")}
    /\ \A i \in Among(log, Len(log), "run") : i > n => log[i].rev > shown.rev

\* The selection shown is no older than the first n events say.
ShowsSelection(log, control, n) ==
    control \in Nat /\ \A i \in Among(log, n, "control") : log[i].rev <= control

\* The revisions of the row, and those of the selection, only rise.
Rising(log) ==
    \A kind \in {"run", "control"} : \A i, j \in Among(log, Len(log), kind) :
        i < j => log[i].rev < log[j].rev

------------------------------------------------------------------------------
\* An appended event is the last, and the others keep their places.
LEMMA Logged ==
    ASSUME NEW log \in Seq(Event), NEW e \in Event
    PROVE  /\ Append(log, e) \in Seq(Event) /\ Len(Append(log, e)) = Len(log) + 1
           /\ Append(log, e)[Len(log) + 1] = e
           /\ \A i \in 1 .. Len(log) : Append(log, e)[i] = log[i]
OBVIOUS

\* An event of a later revision leaves what was shown true.
LEMMA ShownLater ==
    ASSUME NEW log \in Seq(Event), NEW e \in Event, NEW n \in 0 .. Len(log), NEW shown,
           Shows(log, shown, n), e.kind = "run" => e.rev > shown.rev
    PROVE  Shows(Append(log, e), shown, n)
<1> DEFINE new == Append(log, e)
<1>1. /\ Len(new) = Len(log) + 1 /\ new[Len(log) + 1] = e
      /\ \A i \in 1 .. Len(log) : new[i] = log[i]
  BY Logged
<1>2. Len(log) \in Nat /\ 1 .. n \subseteq 1 .. Len(log)
  OBVIOUS
<1> HIDE DEF new
<1>3. \A kind : Among(new, n, kind) = Among(log, n, kind) /\ Among(log, n, kind) \subseteq 1 .. Len(log)
  BY <1>1, <1>2 DEF Among
<1>4. /\ {new[i].rev : i \in Among(new, n, "run")} = {log[i].rev : i \in Among(log, n, "run")}
      /\ {new[i].message : i \in Among(new, n, "message")} = {log[i].message : i \in Among(log, n, "message")}
  BY <1>1, <1>3
<1>5. ASSUME NEW i \in Among(new, Len(new), "run"), i > n  PROVE new[i].rev > shown.rev
  <2>1. CASE i = Len(log) + 1
    BY <1>1, <1>5, <2>1 DEF Among
  <2>2. CASE i /= Len(log) + 1
    <3>1. i \in Among(log, Len(log), "run") /\ new[i] = log[i]
      BY <1>1, <1>2, <2>2 DEF Among
    <3> QED
      BY <1>5, <3>1 DEF Shows
  <2> QED
    BY <2>1, <2>2
<1>6. \A i \in Among(new, n, "run") : new[i].rev <= shown.status
  BY <1>1, <1>3 DEF Shows
<1> QED
  BY <1>4, <1>5, <1>6 DEF Shows, new

\* A selection shown of a log is still one of the longer log.
LEMMA SelectionLater ==
    ASSUME NEW log \in Seq(Event), NEW e \in Event, NEW n \in 0 .. Len(log), NEW control,
           ShowsSelection(log, control, n)
    PROVE  ShowsSelection(Append(log, e), control, n)
<1>1. \A i \in 1 .. n : Append(log, e)[i] = log[i]
  BY Logged
<1> QED
  BY <1>1 DEF ShowsSelection, Among

\* An event of the newest revision of its kind keeps the log rising.
LEMMA RisesOn ==
    ASSUME NEW log \in Seq(Event), NEW e \in Event, Rising(log),
           \A kind \in {"run", "control"} : \A i \in Among(log, Len(log), kind) :
               e.kind = kind => log[i].rev < e.rev
    PROVE  Rising(Append(log, e))
<1> DEFINE new == Append(log, e)
<1>1. /\ Len(new) = Len(log) + 1 /\ new[Len(log) + 1] = e /\ Len(log) \in Nat
      /\ \A i \in 1 .. Len(log) : new[i] = log[i]
  BY Logged
<1> HIDE DEF new
<1>2. ASSUME NEW kind \in {"run", "control"}, NEW i \in Among(new, Len(new), kind),
             NEW j \in Among(new, Len(new), kind), i < j
      PROVE  new[i].rev < new[j].rev
  <2>1. i \in 1 .. Len(log) /\ i \in Among(log, Len(log), kind) /\ new[i] = log[i]
    BY <1>1, <1>2 DEF Among
  <2>2. CASE j = Len(log) + 1
    BY <1>1, <2>1, <2>2 DEF Among
  <2>3. CASE j /= Len(log) + 1
    <3>1. j \in Among(log, Len(log), kind) /\ new[j] = log[j]
      BY <1>1, <2>3 DEF Among
    <3> QED
      BY <1>2, <2>1, <3>1 DEF Rising
  <2> QED
    BY <2>2, <2>3
<1> QED
  BY <1>2 DEF Rising, new

------------------------------------------------------------------------------
\* One event further: of the run, of the selection, of a message.
LEMMA NextPlace ==
    ASSUME NEW log \in Seq(Event), NEW n \in Nat, n < Len(log)
    PROVE  /\ n + 1 \in 1 .. Len(log) /\ log[n + 1] \in Event
           /\ \A kind \in Kind : Among(log, n + 1, kind) =
                 Among(log, n, kind) \cup (IF log[n + 1].kind = kind THEN {n + 1} ELSE {})
           /\ \A kind \in Kind : Among(log, n, kind) \subseteq Among(log, Len(log), kind)
           /\ \A kind \in Kind : \A i \in Among(log, n, kind) : i < n + 1
BY DEF Among

\* Taking the next event when it is about the run.
LEMMA RunShown ==
    ASSUME NEW log \in Seq(Event), NEW n \in Nat, n < Len(log), NEW shown, NEW next, Rising(log),
           Shows(log, shown, n), log[n + 1].kind = "run",
           next.rev = log[n + 1].rev, next.status = log[n + 1].rev, next.messages = shown.messages
    PROVE  Shows(log, next, n + 1)
<1> DEFINE e == log[n + 1]
<1>1. /\ n + 1 \in 1 .. Len(log) /\ e \in Event
      /\ Among(log, n + 1, "run") = Among(log, n, "run") \cup {n + 1}
      /\ Among(log, n + 1, "message") = Among(log, n, "message")
      /\ Among(log, n, "run") \subseteq Among(log, Len(log), "run")
      /\ \A i \in Among(log, n, "run") : i < n + 1
  <2>1. "run" \in Kind /\ "message" \in Kind /\ "run" /= "message"
    BY DEF Kind
  <2>2. n + 1 \in 1 .. Len(log) /\ log[n + 1] \in Event
    BY NextPlace
  <2>3. Among(log, n + 1, "run") = Among(log, n, "run") \cup (IF log[n + 1].kind = "run" THEN {n + 1} ELSE {})
    BY <2>1, NextPlace
  <2>4. Among(log, n + 1, "message") =
             Among(log, n, "message") \cup (IF log[n + 1].kind = "message" THEN {n + 1} ELSE {})
    BY ZenonT(60), <2>1, NextPlace
  <2>5. /\ Among(log, n, "run") \subseteq Among(log, Len(log), "run")
        /\ \A i \in Among(log, n, "run") : i < n + 1
    BY <2>1, NextPlace
  <2> QED
    BY <2>1, <2>2, <2>3, <2>4, <2>5
<1>2. e.rev \in Nat /\ n + 1 \in Among(log, Len(log), "run")
  BY <1>1 DEF Event, Among
<1>3. \A i \in Among(log, n, "run") : log[i].rev < e.rev
  BY <1>1, <1>2 DEF Rising
<1>4. \A i \in Among(log, Len(log), "run") : i > n + 1 => log[i].rev > e.rev
  <2>1. ASSUME NEW i \in Among(log, Len(log), "run"), i > n + 1  PROVE log[n + 1].rev < log[i].rev
    BY <1>2, <2>1 DEF Rising
  <2>2. \A i \in Among(log, Len(log), "run") : log[i].rev \in Nat
    BY DEF Among, Event
  <2> QED
    BY <1>2, <2>1, <2>2
<1>5. \A i \in Among(log, n, "run") : log[i].rev \in Nat
  BY <1>1 DEF Among, Event
<1>6. next.status \in {log[i].rev : i \in Among(log, n + 1, "run")}
  BY <1>1
<1> HIDE DEF e
<1>7. next.messages = {log[i].message : i \in Among(log, n + 1, "message")}
  BY <1>1 DEF Shows
<1>8. next.rev = e.rev /\ next.status = e.rev
  BY DEF e
<1>9. \A i \in Among(log, n + 1, "run") : log[i].rev <= next.status
  <2>1. log[n + 1].rev = e.rev
    BY DEF e
  <2> QED
    BY <1>1, <1>2, <1>3, <1>5, <1>8, <2>1
<1> QED
  BY <1>2, <1>4, <1>6, <1>7, <1>8, <1>9 DEF Shows

\* Taking the next event when it is a message or about the selection.
LEMMA OtherShown ==
    ASSUME NEW log \in Seq(Event), NEW n \in Nat, n < Len(log), NEW shown, NEW next,
           Shows(log, shown, n), log[n + 1].kind /= "run",
           next.rev = shown.rev, next.status = shown.status,
           next.messages = shown.messages \cup
               (IF log[n + 1].kind = "message" THEN {log[n + 1].message} ELSE {})
    PROVE  Shows(log, next, n + 1)
<1>1. /\ Among(log, n + 1, "run") = Among(log, n, "run")
      /\ Among(log, n + 1, "message") =
             Among(log, n, "message") \cup (IF log[n + 1].kind = "message" THEN {n + 1} ELSE {})
  <2>1. "run" \in Kind /\ "message" \in Kind
    BY DEF Kind
  <2>2. Among(log, n + 1, "run") = Among(log, n, "run") \cup (IF log[n + 1].kind = "run" THEN {n + 1} ELSE {})
    BY <2>1, NextPlace
  <2>3. Among(log, n + 1, "message") =
             Among(log, n, "message") \cup (IF log[n + 1].kind = "message" THEN {n + 1} ELSE {})
    BY <2>1, NextPlace
  <2> QED
    BY <2>2, <2>3
<1>2. {log[i].message : i \in Among(log, n + 1, "message")} =
        {log[i].message : i \in Among(log, n, "message")} \cup
               (IF log[n + 1].kind = "message" THEN {log[n + 1].message} ELSE {})
  BY <1>1
<1>3. \A i \in Among(log, Len(log), "run") : i > n + 1 => i > n
  BY DEF Among
<1> QED
  BY <1>1, <1>2, <1>3 DEF Shows

\* Taking the next event moves the selection only when it is about it.
LEMMA SelectionShown ==
    ASSUME NEW log \in Seq(Event), NEW n \in Nat, n < Len(log), NEW control, Rising(log),
           ShowsSelection(log, control, n)
    PROVE  ShowsSelection(log, IF log[n + 1].kind = "control" THEN log[n + 1].rev ELSE control, n + 1)
<1>1. /\ n + 1 \in 1 .. Len(log) /\ log[n + 1] \in Event
      /\ Among(log, n + 1, "control") =
             Among(log, n, "control") \cup (IF log[n + 1].kind = "control" THEN {n + 1} ELSE {})
      /\ Among(log, n, "control") \subseteq Among(log, Len(log), "control")
      /\ \A i \in Among(log, n, "control") : i < n + 1
  <2>1. "control" \in Kind
    BY DEF Kind
  <2> QED
    BY <2>1, NextPlace
<1>2. CASE log[n + 1].kind = "control"
  <2>1. log[n + 1].rev \in Nat /\ n + 1 \in Among(log, Len(log), "control")
    BY <1>1, <1>2 DEF Event, Among
  <2>2. \A i \in Among(log, n, "control") : log[i].rev < log[n + 1].rev /\ log[i].rev \in Nat
    <3>1. \A i \in Among(log, n, "control") : log[i].rev < log[n + 1].rev
      BY <1>1, <2>1 DEF Rising
    <3>2. \A i \in Among(log, n, "control") : log[i].rev \in Nat
      BY <1>1 DEF Among, Event
    <3> QED
      BY <3>1, <3>2
  <2> QED
    BY <1>1, <1>2, <2>1, <2>2 DEF ShowsSelection
<1>3. CASE log[n + 1].kind /= "control"
  BY <1>1, <1>3 DEF ShowsSelection
<1> QED
  BY <1>2, <1>3
------------------------------------------------------------------------------
\* What is on its way: a frame has no number; an event has its own, and each is preceded by the
\* one before it, here or in what the page shows up to.
Frame == [kind : {"delta"}, message : Reply, chunk : Nat]
\* What is on the wire: an event of the log or a frame of text, with its number.
Item == [number : Nat, event : Event \cup Frame]

\* The events on the wire are those that follow the page, one by one.
InOrder(w, from) ==
    \A j \in 1 .. Len(w) :
        w[j].number <= from + 1 \/ \E i \in 1 .. j - 1 : w[i].number = w[j].number - 1

\* What is on the wire as an event is the event of the log with that number.
Genuine(w, log) ==
    \A j \in 1 .. Len(w) :
        IF w[j].number = 0 THEN w[j].event \in Frame
        ELSE w[j].number \in 1 .. Len(log) /\ w[j].event = log[w[j].number]

\* The newest event sent is on the wire, or the page has it already.
LastSent(w, from, sent) == sent <= from \/ \E i \in 1 .. Len(w) : w[i].number = sent

\* A wire has a first item, and the rest of it is a wire.
LEMMA Numbered ==
    ASSUME NEW w \in Seq(Item)
    PROVE  \A j \in 1 .. Len(w) : w[j].number \in Nat
<1>1. \A j \in 1 .. Len(w) : w[j] \in Item
  OBVIOUS
<1>2. \A item \in Item : item.number \in Nat
  BY DEF Item
<1> QED
  BY <1>1, <1>2

\* A page that is further on has a shorter way to go.
LEMMA OrderFurther ==
    ASSUME NEW w \in Seq(Item), NEW from \in Nat, NEW further \in Nat, from <= further,
           NEW sent \in Nat, InOrder(w, from), LastSent(w, from, sent)
    PROVE  InOrder(w, further) /\ LastSent(w, further, sent)
<1>1. \A j \in 1 .. Len(w) : w[j].number \in Nat
  BY Numbered
<1>2. \A j \in 1 .. Len(w) : w[j].number <= from + 1 => w[j].number <= further + 1
  BY <1>1
<1>3. sent <= from => sent <= further
  OBVIOUS
<1> QED
  BY <1>2, <1>3 DEF InOrder, LastSent

\* Sending the event after the newest one keeps the order.
LEMMA OrderSent ==
    ASSUME NEW w \in Seq(Item), NEW from \in Nat, NEW sent \in Nat, NEW item \in Item,
           InOrder(w, from), LastSent(w, from, sent), item.number = 0 \/ item.number = sent + 1
    PROVE  /\ InOrder(Append(w, item), from)
           /\ LastSent(Append(w, item), from, IF item.number = 0 THEN sent ELSE sent + 1)
<1> DEFINE new == Append(w, item)
<1>1. /\ Len(new) = Len(w) + 1 /\ Len(w) \in Nat /\ new[Len(w) + 1] = item
      /\ \A i \in 1 .. Len(w) : new[i] = w[i]
  OBVIOUS
<1> HIDE DEF new
<1>2. ASSUME NEW j \in 1 .. Len(new)
      PROVE  new[j].number <= from + 1 \/ \E i \in 1 .. j - 1 : new[i].number = new[j].number - 1
  <2>1. CASE j \in 1 .. Len(w)
    BY <1>1, <2>1 DEF InOrder
  <2>2. CASE j = Len(w) + 1 /\ item.number = 0
    BY <1>1, <2>2
  <2>3. CASE j = Len(w) + 1 /\ item.number = sent + 1
    BY SMTT(30), <1>1, <2>3 DEF LastSent
  <2> QED
    BY <1>1, <2>1, <2>2, <2>3
<1>3. LastSent(new, from, IF item.number = 0 THEN sent ELSE sent + 1)
  <2>1. CASE item.number = 0
    <3>1. CASE sent <= from
      BY <2>1, <3>1 DEF LastSent
    <3>2. ASSUME NEW i \in 1 .. Len(w), w[i].number = sent  PROVE LastSent(new, from, sent)
      BY <1>1, <3>2 DEF LastSent
    <3> QED
      BY <2>1, <3>1, <3>2 DEF LastSent
  <2>2. CASE item.number = sent + 1
    <3>1. Len(new) \in 1 .. Len(new) /\ new[Len(new)].number = sent + 1
      BY <1>1, <2>2
    <3> QED
      BY <2>2, <3>1 DEF LastSent
  <2> QED
    BY <2>1, <2>2
<1> QED
  BY <1>2, <1>3 DEF InOrder, new

\* Handling the first item keeps the order of the rest.
LEMMA OrderHandled ==
    ASSUME NEW w \in Seq(Item), w /= <<>>, NEW from \in Nat, NEW sent \in Nat, NEW further \in Nat,
           InOrder(w, from), LastSent(w, from, sent), from <= further, Head(w).number <= further
    PROVE  InOrder(Tail(w), further) /\ LastSent(Tail(w), further, sent)
<1> DEFINE rest == Tail(w)
<1>1. /\ Len(rest) = Len(w) - 1 /\ Len(w) \in Nat /\ Len(w) >= 1 /\ Head(w) = w[1]
      /\ \A i \in 1 .. Len(rest) : rest[i] = w[i + 1]
      /\ \A i \in 1 .. Len(w) : w[i].number \in Nat
  BY Numbered
<1> HIDE DEF rest
<1>2. ASSUME NEW j \in 1 .. Len(rest)
      PROVE  rest[j].number <= further + 1 \/ \E i \in 1 .. j - 1 : rest[i].number = rest[j].number - 1
  <2>1. j + 1 \in 1 .. Len(w) /\ rest[j] = w[j + 1] /\ w[j + 1].number \in Nat
    BY <1>1
  <2>2. CASE w[j + 1].number <= from + 1
    BY <2>1, <2>2
  <2>3. ASSUME NEW i \in 1 .. j, w[i].number = w[j + 1].number - 1
        PROVE  rest[j].number <= further + 1 \/ \E k \in 1 .. j - 1 : rest[k].number = rest[j].number - 1
    <3>1. CASE i = 1
      BY <1>1, <2>1, <2>3, <3>1
    <3>2. CASE i > 1
      <4>1. i - 1 \in 1 .. j - 1 /\ rest[i - 1] = w[i]
        BY <1>1, <3>2
      <4> QED
        BY <2>1, <2>3, <4>1
    <3> QED
      BY <3>1, <3>2
  <2> QED
    BY <2>1, <2>2, <2>3 DEF InOrder
<1>3. LastSent(rest, further, sent)
  <2>1. ASSUME NEW i \in 1 .. Len(w), w[i].number = sent  PROVE LastSent(rest, further, sent)
    <3>1. CASE i = 1
      BY <1>1, <2>1, <3>1 DEF LastSent
    <3>2. CASE i > 1
      <4>1. i - 1 \in 1 .. Len(rest) /\ rest[i - 1] = w[i]
        BY <1>1, <3>2
      <4> QED
        BY <2>1, <4>1 DEF LastSent
    <3> QED
      BY <3>1, <3>2
  <2> QED
    BY <2>1 DEF LastSent
<1> QED
  BY <1>2, <1>3 DEF InOrder, rest
------------------------------------------------------------------------------
\* A chunk of a reply that is not a message yet.
Chunk == [message : Reply, chunk : Nat]
PageRow == [seq : Nat, rev : Nat, status : Nat, messages : SUBSET Reply, control : Nat,
            text : SUBSET Chunk, gap : BOOLEAN]
ReadRow == [at : {"none", "rows", "answered"}, seq : Nat, rev : Nat, status : Nat,
            messages : SUBSET Reply, control : Nat]

\* The log, the wire, the page and the reads of rows keep their shapes.
StreamShapes ==
    /\ events \in Seq(Event) /\ frames \in Seq(Frame) /\ wire \in Seq(Item)
    /\ page \in PageRow /\ reads \in [Reader -> ReadRow]

\* The log tells the row: its revisions rise with it and the newest of them is the row's.
LogTells ==
    /\ Rising(events) /\ Shows(events, table, Len(events))
    /\ ShowsSelection(events, table.control, Len(events))

\* A snapshot under way shows the run at its number.
ReadTrue(r) ==
    r.at /= "none" =>
        /\ r.seq <= Len(events) /\ r.rev <= table.rev /\ Shows(events, r, r.seq)
        /\ r.at = "answered" => ShowsSelection(events, r.control, r.seq)

\* The page shows the state after the events it has taken, with no gap it does not know of.
PageTrue ==
    /\ ~page.gap /\ page.seq <= Len(events) /\ page.rev <= table.rev
    /\ Shows(events, page, page.seq) /\ ShowsSelection(events, page.control, page.seq)
    /\ \A t \in page.text : t.message \notin page.messages

\* What is on its way reaches the page in order, without a hole.
WireTrue ==
    /\ Genuine(wire, events) /\ InOrder(wire, page.seq)
    /\ link.sent <= Len(events)
    /\ link.at /= "open" => wire = <<>>
    /\ link.at = "open" => LastSent(wire, page.seq, link.sent)
    /\ reads["loop"].at /= "none" => link.at \in {"mounting", "recovering"}

\* The inductive invariant of the stream.
StreamInv ==
    /\ StreamTypeOK /\ StreamShapes /\ LogTells
    /\ \A who \in Reader : ReadTrue(reads[who])
    /\ PageTrue /\ WireTrue

\* The invariant makes what the page shows true.
LEMMA StreamView == StreamInv => ViewTrue
<1> SUFFICES ASSUME StreamInv PROVE ViewTrue
  OBVIOUS
<1>1. page.seq \in Nat /\ PageTrue
  BY DEF StreamInv, StreamShapes, PageRow
<1>2. \A kind : First(page.seq, kind) = Among(events, page.seq, kind)
  BY DEF First, Among
<1>3. \A i \in Among(events, page.seq, "run") : page.status >= events[i].rev
  <2>1. \A i \in Among(events, page.seq, "run") : events[i].rev <= page.status
    BY <1>1 DEF PageTrue, Shows
  <2> QED
    BY <2>1
<1>4. \A i \in Among(events, page.seq, "control") : page.control >= events[i].rev
  BY <1>1 DEF PageTrue, ShowsSelection
<1>5. /\ page.status \in {0} \cup {events[i].rev : i \in Among(events, page.seq, "run")}
      /\ page.messages = {events[i].message : i \in Among(events, page.seq, "message")}
  BY <1>1 DEF PageTrue, Shows
<1> QED
  BY <1>1, <1>2, <1>3, <1>4, <1>5 DEF ViewTrue, PageTrue

------------------------------------------------------------------------------
\* A run that was just made, and a page that has not asked for it.
LEMMA StreamStarts == StreamInit => StreamInv
<1> SUFFICES ASSUME StreamInit PROVE StreamInv
  OBVIOUS
<1> USE DEF StreamInit
<1>1. OfRun(1) \in Event /\ events = <<OfRun(1)>> /\ events \in Seq(Event) /\ Len(events) = 1
  BY DEF OfRun, Event
<1>2. events[1].kind = "run" /\ events[1].rev = 1
  BY <1>1 DEF OfRun
<1>3. StreamTypeOK
  BY <1>1, StreamAssumption DEF StreamTypeOK, EmptyPage, Link, NoRead, Reader
<1>4. StreamShapes
  <2>1. page \in PageRow
    BY DEF EmptyPage, PageRow
  <2>2. NoRead \in ReadRow
    BY DEF NoRead, ReadRow
  <2> QED
    BY <1>1, <2>1, <2>2 DEF StreamShapes
<1>5. /\ Among(events, 1, "run") = {1} /\ Among(events, 1, "message") = {} /\ Among(events, 1, "control") = {}
      /\ \A kind : Among(events, 0, kind) = {}
  BY <1>1, <1>2 DEF Among
<1>6. LogTells
  <2>1. Rising(events)
    BY <1>1, <1>5 DEF Rising
  <2>2. Shows(events, table, 1)
    BY <1>1, <1>2, <1>5 DEF Shows
  <2>3. ShowsSelection(events, table.control, 1)
    BY <1>5 DEF ShowsSelection
  <2> QED
    BY <1>1, <2>1, <2>2, <2>3 DEF LogTells
<1>7. PageTrue
  <2>1. Shows(events, page, 0)
    BY <1>1, <1>2, <1>5 DEF Shows, EmptyPage
  <2>2. ShowsSelection(events, page.control, 0)
    BY <1>5 DEF ShowsSelection, EmptyPage
  <2> QED
    BY <1>1, <2>1, <2>2 DEF PageTrue, EmptyPage
<1>8. WireTrue
  BY <1>1 DEF WireTrue, Genuine, InOrder, Link, NoRead, Reader
<1>9. \A who \in Reader : ReadTrue(reads[who])
  BY DEF ReadTrue, NoRead
<1> QED
  BY <1>3, <1>4, <1>6, <1>7, <1>8, <1>9 DEF StreamInv
------------------------------------------------------------------------------
\* The database's steps: the log and the row move together, and what is shown or under way
\* remains true of its number.
LEMMA CommitKeeps ==
    ASSUME StreamInv, NEW written, NEW e \in Event, Commits(written, e),
           written \in [rev : Nat, status : Nat, touches : 0 .. MaxTouches, control : Nat, messages : SUBSET Reply],
           written.rev >= table.rev, e.kind = "run" => e.rev > table.rev,
           Rising(Append(events, e)), Shows(Append(events, e), written, Len(events) + 1),
           ShowsSelection(Append(events, e), written.control, Len(events) + 1)
    PROVE  StreamInv'
<1> DEFINE new == Append(events, e)
<1>1. /\ Len(events) < MaxEvents /\ table' = written /\ events' = new
      /\ UNCHANGED <<frames, page, link, wire, reads, session, drops, refreshes>>
  BY DEF Commits
<1>2. /\ new \in Seq(Event) /\ Len(new) = Len(events) + 1 /\ Len(events) \in Nat
      /\ \A i \in 1 .. Len(events) : new[i] = events[i]
  BY Logged DEF StreamInv, StreamShapes
<1>3. table.rev \in Nat /\ written.rev \in Nat /\ page \in PageRow /\ \A who \in Reader : reads[who] \in ReadRow
  BY DEF StreamInv, StreamTypeOK, StreamShapes
<1>4. ASSUME NEW shown, NEW n \in Nat, n <= Len(events), Shows(events, shown, n), shown.rev <= table.rev
      PROVE  Shows(new, shown, n)
  <2>1. e.kind = "run" => e.rev > shown.rev
    BY <1>3, <1>4 DEF Shows, Event
  <2> QED
    BY <1>4, <2>1, ShownLater DEF StreamInv, StreamShapes
<1>5. ASSUME NEW control, NEW n \in Nat, n <= Len(events), ShowsSelection(events, control, n)
      PROVE  ShowsSelection(new, control, n)
  BY <1>5, SelectionLater DEF StreamInv, StreamShapes
<1> HIDE DEF new
<1>6. StreamTypeOK'
  <2>1. MaxEvents \in Nat
    BY StreamAssumption
  <2>2. Len(new) \in 1 .. MaxEvents
    BY <1>1, <1>2, <2>1
  <2> QED
    BY <1>1, <2>2 DEF StreamInv, StreamTypeOK
<1>7. StreamShapes'
  BY <1>1, <1>2 DEF StreamInv, StreamShapes
<1>8. LogTells'
  <2>1. /\ Rising(new) /\ Shows(new, written, Len(events) + 1)
        /\ ShowsSelection(new, written.control, Len(events) + 1)
    BY DEF new
  <2> QED
    BY <1>1, <1>2, <2>1 DEF LogTells
<1>9. ASSUME NEW who \in Reader  PROVE ReadTrue(reads[who])'
  <2> DEFINE r == reads[who]
  <2>1. r.seq \in Nat /\ r.rev \in Nat
    BY <1>3 DEF ReadRow
  <2>2. ReadTrue(r)
    BY DEF StreamInv
  <2> HIDE DEF r
  <2>3. ASSUME r.at /= "none"
        PROVE  /\ r.seq <= Len(new) /\ r.rev <= written.rev /\ Shows(new, r, r.seq)
               /\ r.at = "answered" => ShowsSelection(new, r.control, r.seq)
    <3>1. r.seq <= Len(events) /\ r.rev <= table.rev /\ Shows(events, r, r.seq)
      BY <2>2, <2>3 DEF ReadTrue
    <3>2. Shows(new, r, r.seq)
      BY <1>4, <2>1, <3>1
    <3>3. r.at = "answered" => ShowsSelection(new, r.control, r.seq)
      BY <1>5, <2>1, <2>2, <3>1 DEF ReadTrue
    <3> QED
      BY <1>2, <1>3, <2>1, <3>1, <3>2, <3>3
  <2>4. reads[who]' = r
    BY <1>1 DEF r
  <2> QED
    BY <1>1, <2>3, <2>4 DEF ReadTrue
<1>10. PageTrue'
  <2>1. page.seq \in Nat /\ page.rev \in Nat /\ PageTrue
    BY <1>3 DEF PageRow, StreamInv
  <2>2. Shows(new, page, page.seq) /\ ShowsSelection(new, page.control, page.seq)
    BY <1>4, <1>5, <2>1 DEF PageTrue
  <2> QED
    BY <1>1, <1>2, <1>3, <2>1, <2>2 DEF PageTrue
<1>11. WireTrue'
  <2>1. Genuine(wire, new)
    BY <1>2 DEF StreamInv, WireTrue, Genuine
  <2>2. link.sent \in Nat
    BY DEF StreamInv, StreamTypeOK
  <2> QED
    BY <1>1, <1>2, <2>1, <2>2 DEF StreamInv, WireTrue
<1> QED
  BY <1>6, <1>7, <1>8, <1>9, <1>10, <1>11 DEF StreamInv

\* The row a change commits follows from the one before it.
LEMMA RowFollows ==
    ASSUME StreamInv, NEW e \in Event,
           e.kind = "run" => e.rev = table.rev + 1,
           e.kind = "control" => e.rev = table.control + 1
    PROVE  /\ Rising(Append(events, e)) /\ Shows(Append(events, e), table, Len(events))
           /\ ShowsSelection(Append(events, e), table.control, Len(events))
           /\ Append(events, e) \in Seq(Event) /\ Append(events, e)[Len(events) + 1] = e
           /\ Len(Append(events, e)) = Len(events) + 1 /\ Len(events) \in Nat
<1>1. /\ events \in Seq(Event) /\ Rising(events) /\ Shows(events, table, Len(events))
      /\ ShowsSelection(events, table.control, Len(events)) /\ Len(events) \in Nat
      /\ table.rev \in Nat /\ table.control \in Nat
  BY DEF StreamInv, StreamTypeOK, StreamShapes, LogTells
<1>2. \A i \in Among(events, Len(events), "run") : events[i].rev <= table.rev /\ events[i].rev \in Nat
  <2>1. \A i \in Among(events, Len(events), "run") : events[i].rev \in Nat
    BY <1>1 DEF Among, Event
  <2> QED
    BY <1>1, <2>1 DEF Shows
<1>3. \A i \in Among(events, Len(events), "control") : events[i].rev <= table.control /\ events[i].rev \in Nat
  <2>1. \A i \in Among(events, Len(events), "control") : events[i].rev \in Nat
    BY <1>1 DEF Among, Event
  <2> QED
    BY <1>1, <2>1 DEF ShowsSelection
<1>4. \A kind \in {"run", "control"} : \A i \in Among(events, Len(events), kind) :
          e.kind = kind => events[i].rev < e.rev
  BY <1>1, <1>2, <1>3
<1>5. e.kind = "run" => e.rev > table.rev
  BY <1>1
<1> QED
  BY <1>1, <1>4, <1>5, RisesOn, ShownLater, SelectionLater, Logged

\* Store.transition: the run's row and its event.
LEMMA TransitionKeeps == StreamInv /\ Transition => StreamInv'
<1> SUFFICES ASSUME StreamInv, Transition PROVE StreamInv'
  OBVIOUS
<1> DEFINE e == OfRun(table.rev + 1)
           written == [table EXCEPT !.rev = @ + 1, !.status = table.rev + 1]
           new == Append(events, e)
           n == Len(events)
<1>1. /\ table \in [rev : Nat, status : Nat, touches : 0 .. MaxTouches, control : Nat, messages : SUBSET Reply]
      /\ table.rev \in Nat /\ table.rev + 1 \in Nat
  BY DEF StreamInv, StreamTypeOK
<1>2. /\ written \in [rev : Nat, status : Nat, touches : 0 .. MaxTouches, control : Nat, messages : SUBSET Reply]
      /\ written.rev = table.rev + 1 /\ written.status = table.rev + 1
      /\ written.messages = table.messages /\ written.control = table.control
  BY <1>1
<1>3. e \in Event /\ e.kind = "run" /\ e.rev = table.rev + 1
  BY <1>1 DEF OfRun, Event
<1>4. Commits(written, e)
  BY DEF Transition
<1>5. /\ Rising(new) /\ Shows(new, table, n) /\ ShowsSelection(new, table.control, n)
      /\ new \in Seq(Event) /\ new[n + 1] = e /\ Len(new) = n + 1 /\ n \in Nat
  <2>1. e.kind = "run" => e.rev = table.rev + 1
    BY <1>3
  <2>2. e.kind = "control" => e.rev = table.control + 1
    BY <1>3
  <2> HIDE DEF e
  <2> QED
    BY <1>3, <2>1, <2>2, RowFollows
<1> HIDE DEF e, written, new, n
<1>6. Shows(new, written, n + 1)
  BY <1>2, <1>3, <1>5, RunShown
<1>7. ShowsSelection(new, written.control, n + 1)
  <2>1. new[n + 1].kind /= "control"
    BY <1>3, <1>5
  <2> QED
    BY <1>2, <1>5, <2>1, SelectionShown
<1> QED
  BY <1>1, <1>2, <1>3, <1>4, <1>5, <1>6, <1>7, CommitKeeps DEF new, n

\* A change of the model selection and its event.
LEMMA ControlKeeps == StreamInv /\ ControlChanges => StreamInv'
<1> SUFFICES ASSUME StreamInv, ControlChanges PROVE StreamInv'
  OBVIOUS
<1> DEFINE e == OfControl(table.control + 1)
           written == [table EXCEPT !.control = @ + 1]
           new == Append(events, e)
           n == Len(events)
<1>1. /\ table \in [rev : Nat, status : Nat, touches : 0 .. MaxTouches, control : Nat, messages : SUBSET Reply]
      /\ table.rev \in Nat /\ table.control \in Nat /\ table.control + 1 \in Nat
  BY DEF StreamInv, StreamTypeOK
<1>2. /\ written \in [rev : Nat, status : Nat, touches : 0 .. MaxTouches, control : Nat, messages : SUBSET Reply]
      /\ written.rev = table.rev /\ written.status = table.status
      /\ written.messages = table.messages /\ written.control = table.control + 1
  BY <1>1
<1>3. e \in Event /\ e.kind = "control" /\ e.rev = table.control + 1
  BY <1>1 DEF OfControl, Event
<1>4. Commits(written, e)
  BY DEF ControlChanges
<1>5. /\ Rising(new) /\ Shows(new, table, n) /\ ShowsSelection(new, table.control, n)
      /\ new \in Seq(Event) /\ new[n + 1] = e /\ Len(new) = n + 1 /\ n \in Nat
  <2>1. e.kind = "run" => e.rev = table.rev + 1
    BY <1>3
  <2>2. e.kind = "control" => e.rev = table.control + 1
    BY <1>3
  <2> HIDE DEF e
  <2> QED
    BY <1>3, <2>1, <2>2, RowFollows
<1> HIDE DEF e, written, new, n
<1>6. Shows(new, written, n + 1)
  <2>1. new[n + 1].kind /= "run" /\ new[n + 1].kind /= "message"
    BY <1>3, <1>5
  <2>2. written.messages = table.messages \cup
            (IF new[n + 1].kind = "message" THEN {new[n + 1].message} ELSE {})
    BY <1>2, <2>1
  <2> QED
    BY SMTT(30), <1>2, <1>5, <2>1, <2>2, OtherShown
<1>7. ShowsSelection(new, written.control, n + 1)
  <2>1. new[n + 1].kind = "control" /\ new[n + 1].rev = written.control
    BY <1>2, <1>3, <1>5
  <2> QED
    BY <1>5, <2>1, SelectionShown
<1>8. written.rev >= table.rev
  BY <1>1, <1>2
<1>9. e.kind = "run" => e.rev > table.rev
  BY <1>3
<1> QED
  BY <1>2, <1>3, <1>4, <1>5, <1>6, <1>7, <1>8, <1>9, CommitKeeps DEF new, n

\* A message and its event.
LEMMA MessageKeeps ==
    ASSUME StreamInv, NEW m \in Reply, CommitMessage(m) PROVE StreamInv'
<1> DEFINE written == [table EXCEPT !.messages = @ \cup {m}]
           n == Len(events)
<1> PICK size \in {"small", "large"} : Commits(written, OfMessage(m, size))
  BY DEF CommitMessage
<1> DEFINE e == OfMessage(m, size)
           new == Append(events, e)
<1>1. /\ table \in [rev : Nat, status : Nat, touches : 0 .. MaxTouches, control : Nat, messages : SUBSET Reply]
      /\ table.rev \in Nat /\ table.messages \cup {m} \in SUBSET Reply
  BY DEF StreamInv, StreamTypeOK
<1>2. /\ written \in [rev : Nat, status : Nat, touches : 0 .. MaxTouches, control : Nat, messages : SUBSET Reply]
      /\ written.rev = table.rev /\ written.status = table.status
      /\ written.messages = table.messages \cup {m} /\ written.control = table.control
  BY <1>1
<1>3. e \in Event /\ e.kind = "message" /\ e.message = m
  BY DEF OfMessage, Event
<1>4. Commits(written, e)
  OBVIOUS
<1>5. /\ Rising(new) /\ Shows(new, table, n) /\ ShowsSelection(new, table.control, n)
      /\ new \in Seq(Event) /\ new[n + 1] = e /\ Len(new) = n + 1 /\ n \in Nat
  <2>1. e.kind = "run" => e.rev = table.rev + 1
    BY <1>3
  <2>2. e.kind = "control" => e.rev = table.control + 1
    BY <1>3
  <2> HIDE DEF e
  <2> QED
    BY <1>3, <2>1, <2>2, RowFollows
<1> HIDE DEF e, written, new, n
<1>6. Shows(new, written, n + 1)
  <2>1. new[n + 1].kind /= "run" /\ new[n + 1].kind = "message" /\ new[n + 1].message = m
    BY <1>3, <1>5
  <2>2. written.messages = table.messages \cup
            (IF new[n + 1].kind = "message" THEN {new[n + 1].message} ELSE {})
    BY <1>2, <2>1
  <2> QED
    BY <1>2, <1>5, <2>1, <2>2, OtherShown
<1>7. ShowsSelection(new, written.control, n + 1)
  <2>1. new[n + 1].kind /= "control"
    BY <1>3, <1>5
  <2> QED
    BY <1>2, <1>5, <2>1, SelectionShown
<1>8. written.rev >= table.rev
  BY <1>1, <1>2
<1>9. e.kind = "run" => e.rev > table.rev
  BY <1>3
<1> QED
  BY <1>2, <1>3, <1>4, <1>5, <1>6, <1>7, <1>8, <1>9, CommitKeeps DEF new, n

------------------------------------------------------------------------------
\* The other steps of the database: revisions without an event, and frames.
LEMMA TouchedKeeps == StreamInv /\ Touched => StreamInv'
<1> SUFFICES ASSUME StreamInv, Touched PROVE StreamInv'
  OBVIOUS
<1>1. /\ table' = [table EXCEPT !.rev = @ + 1, !.touches = @ + 1] /\ table.touches < MaxTouches
      /\ UNCHANGED <<events, frames, page, link, wire, reads, session, drops, refreshes>>
  BY DEF Touched
<1>2. table \in [rev : Nat, status : Nat, touches : 0 .. MaxTouches, control : Nat, messages : SUBSET Reply]
  BY DEF StreamInv, StreamTypeOK
<1>3. /\ table' \in [rev : Nat, status : Nat, touches : 0 .. MaxTouches, control : Nat, messages : SUBSET Reply]
      /\ table'.rev = table.rev + 1 /\ table'.status = table.status
      /\ table'.messages = table.messages /\ table'.control = table.control
  <2>1. table.touches + 1 \in 0 .. MaxTouches /\ table.rev + 1 \in Nat
    BY <1>1, <1>2, StreamAssumption
  <2> QED
    BY <1>1, <1>2, <2>1
<1>4. table.rev \in Nat /\ page \in PageRow /\ \A who \in Reader : reads[who] \in ReadRow
  BY <1>2 DEF StreamInv, StreamShapes
<1>5. Shows(events, table', Len(events))
  <2>1. Shows(events, table, Len(events)) /\ Len(events) \in Nat
    BY DEF StreamInv, LogTells, StreamTypeOK
  <2>2. \A i \in Among(events, Len(events), "run") : ~(i > Len(events))
    BY <2>1 DEF Among
  <2>3. table'.rev \in Nat /\ table'.status <= table'.rev
    BY <1>2, <1>3, <2>1 DEF Shows
  <2> QED
    BY <1>3, <2>1, <2>2, <2>3 DEF Shows
<1>6. StreamTypeOK'
  BY <1>1, <1>3 DEF StreamInv, StreamTypeOK
<1>7. StreamShapes'
  BY <1>1 DEF StreamInv, StreamShapes
<1>8. LogTells'
  BY <1>1, <1>3, <1>5 DEF StreamInv, LogTells
<1>9. ASSUME NEW who \in Reader  PROVE ReadTrue(reads[who])'
  <2>1. ReadTrue(reads[who]) /\ reads[who].rev \in Nat
    BY <1>4 DEF StreamInv, ReadRow
  <2> QED
    BY <1>1, <1>3, <1>4, <2>1 DEF ReadTrue
<1>10. PageTrue'
  <2>1. page.rev \in Nat
    BY <1>4 DEF PageRow
  <2> QED
    BY <1>1, <1>3, <1>4, <2>1 DEF StreamInv, PageTrue
<1>11. WireTrue'
  BY <1>1 DEF StreamInv, WireTrue
<1> QED
  BY <1>6, <1>7, <1>8, <1>9, <1>10, <1>11 DEF StreamInv

\* A chunk of a reply goes to whoever listens and into no log.
LEMMA DeltaKeeps == ASSUME StreamInv, NEW m \in Reply, PublishDelta(m) PROVE StreamInv'
<1> DEFINE chunk == Cardinality({i \in 1 .. Len(frames) : frames[i].message = m}) + 1
           f == [kind |-> "delta", message |-> m, chunk |-> chunk]
<1>1. /\ frames' = Append(frames, f)
      /\ UNCHANGED <<table, events, page, link, wire, reads, session, drops, refreshes>>
  BY DEF PublishDelta
<1>2. frames \in Seq(Frame) /\ Len(frames) \in Nat
  BY DEF StreamInv, StreamShapes
<1>3. chunk \in Nat
  <2>1. IsFiniteSet({i \in 1 .. Len(frames) : frames[i].message = m})
    <3>1. IsFiniteSet(1 .. Len(frames))
      BY <1>2, FS_Interval
    <3>2. {i \in 1 .. Len(frames) : frames[i].message = m} \subseteq 1 .. Len(frames)
      OBVIOUS
    <3> QED
      BY <3>1, <3>2, FS_Subset
  <2> QED
    BY <2>1, FS_CardinalityType
<1> HIDE DEF chunk
<1>4. f \in Frame
  BY <1>3 DEF Frame
<1>5. frames' \in Seq(Frame)
  BY <1>1, <1>2, <1>4
<1>6. StreamTypeOK' /\ StreamShapes'
  BY <1>1, <1>5 DEF StreamInv, StreamTypeOK, StreamShapes
<1>7. LogTells' /\ PageTrue' /\ WireTrue' /\ \A who \in Reader : ReadTrue(reads[who])'
  BY <1>1 DEF StreamInv, LogTells, PageTrue, WireTrue, ReadTrue
<1> QED
  BY <1>6, <1>7 DEF StreamInv

------------------------------------------------------------------------------
\* Snapshots: what is read shows the run at its number, the selection no older.
LEMMA RowsRead ==
    ASSUME StreamInv, NEW who \in Reader, ReadRows(who),
           UNCHANGED <<table, events, frames, page, link, wire, session, drops>>,
           refreshes' \in 0 .. MaxRefreshes,
           who = "loop" => link.at \in {"mounting", "recovering"}
    PROVE  StreamInv'
<1> DEFINE r == [at |-> "rows", seq |-> Len(events), rev |-> table.rev, status |-> table.status,
                 messages |-> table.messages, control |-> 0]
<1>1. reads' = [reads EXCEPT ![who] = r] /\ reads \in [Reader -> ReadRow]
  BY DEF ReadRows, StreamInv, StreamShapes
<1>2. r \in ReadRow
  BY DEF StreamInv, StreamTypeOK, ReadRow
<1>3. /\ r.at = "rows" /\ r.seq = Len(events) /\ r.rev = table.rev /\ r.status = table.status
      /\ r.messages = table.messages
  OBVIOUS
<1> HIDE DEF r
<1>4. reads' \in [Reader -> ReadRow] /\ reads'[who] = r
      /\ \A other \in Reader : other /= who => reads'[other] = reads[other]
  BY <1>1, <1>2
<1>5. Shows(events, r, Len(events))
  BY <1>3 DEF StreamInv, LogTells, Shows
<1>6. ASSUME NEW other \in Reader  PROVE ReadTrue(reads[other])'
  <2>1. CASE other = who
    <3>1. reads'[other] = r /\ table' = table /\ events' = events
      BY <1>4, <2>1
    <3>2. table.rev \in Nat /\ Len(events) \in Nat
      BY DEF StreamInv, StreamTypeOK
    <3> QED
      BY <1>3, <1>5, <3>1, <3>2 DEF ReadTrue
  <2>2. CASE other /= who
    BY <1>4, <2>2 DEF StreamInv, ReadTrue
  <2> QED
    BY <2>1, <2>2
<1>7. \A other \in Reader : reads'[other].at \in {"none", "rows", "answered"}
  BY <1>4 DEF ReadRow
<1>8. StreamTypeOK' /\ StreamShapes'
  BY <1>4, <1>7 DEF StreamInv, StreamTypeOK, StreamShapes
<1>9. LogTells' /\ PageTrue'
  BY DEF StreamInv, LogTells, PageTrue
<1>10. WireTrue'
  <2>1. reads'["loop"].at /= "none" => link.at \in {"mounting", "recovering"}
    BY <1>4 DEF StreamInv, WireTrue, Reader
  <2> QED
    BY <2>1 DEF StreamInv, WireTrue
<1> QED
  BY <1>6, <1>8, <1>9, <1>10 DEF StreamInv

\* The page asks for a snapshot, on its own or to refresh.
LEMMA AsksKeep == StreamInv /\ (LoopAsks \/ RefreshAsks) => StreamInv'
<1> SUFFICES ASSUME StreamInv, LoopAsks \/ RefreshAsks PROVE StreamInv'
  OBVIOUS
<1>1. refreshes \in 0 .. MaxRefreshes /\ "loop" \in Reader /\ "refresh" \in Reader
  BY DEF StreamInv, StreamTypeOK, Reader
<1>2. CASE LoopAsks
  <2>1. refreshes' \in 0 .. MaxRefreshes
    BY <1>1, <1>2 DEF LoopAsks
  <2> QED
    BY <1>1, <1>2, <2>1, RowsRead DEF LoopAsks
<1>3. CASE RefreshAsks
  <2>1. refreshes' \in 0 .. MaxRefreshes
    BY <1>1, <1>3, StreamAssumption DEF RefreshAsks
  <2> QED
    BY <1>1, <1>3, <2>1, RowsRead DEF RefreshAsks
<1> QED
  BY <1>2, <1>3

\* The snapshot's second read: the selection, later than the rows.
LEMMA ControlRead == ASSUME StreamInv, NEW who \in Reader, ReadControl(who) PROVE StreamInv'
<1> DEFINE r == [reads[who] EXCEPT !.at = "answered", !.control = table.control]
<1>1. reads[who] \in ReadRow /\ reads \in [Reader -> ReadRow] /\ reads[who].at = "rows" /\ table.control \in Nat
  BY DEF StreamInv, StreamShapes, StreamTypeOK, ReadControl
<1>2. /\ reads' = [reads EXCEPT ![who] = r]
      /\ UNCHANGED <<table, events, frames, page, link, wire, session, drops, refreshes>>
  BY <1>1 DEF ReadControl
<1>3. /\ r \in ReadRow /\ r.at = "answered" /\ r.seq = reads[who].seq /\ r.rev = reads[who].rev
      /\ r.status = reads[who].status /\ r.messages = reads[who].messages /\ r.control = table.control
  BY <1>1 DEF ReadRow
<1> HIDE DEF r
<1>4. reads' \in [Reader -> ReadRow] /\ reads'[who] = r
      /\ \A other \in Reader : other /= who => reads'[other] = reads[other]
  BY <1>1, <1>2, <1>3
<1>5. ReadTrue(reads[who]) /\ reads[who].at /= "none"
  BY <1>1 DEF StreamInv
<1>6. ASSUME NEW other \in Reader  PROVE ReadTrue(reads[other])'
  <2>1. CASE other = who
    <3>1. Shows(events, r, r.seq)
      BY <1>3, <1>5 DEF ReadTrue, Shows
    <3>2. r.seq \in Nat /\ r.seq <= Len(events) /\ r.rev <= table.rev
      BY <1>3, <1>5 DEF ReadTrue, ReadRow
    <3>3. ShowsSelection(events, r.control, r.seq)
      <4>1. ShowsSelection(events, table.control, Len(events)) /\ Len(events) \in Nat
        BY DEF StreamInv, LogTells, StreamTypeOK
      <4>2. Among(events, r.seq, "control") \subseteq Among(events, Len(events), "control")
        BY <3>2, <4>1 DEF Among
      <4> QED
        BY <1>3, <4>1, <4>2 DEF ShowsSelection
    <3>4. reads'[other] = r /\ table' = table /\ events' = events
      BY <1>2, <1>4, <2>1
    <3> QED
      BY <3>1, <3>2, <3>3, <3>4 DEF ReadTrue
  <2>2. CASE other /= who
    BY <1>2, <1>4, <2>2 DEF StreamInv, ReadTrue
  <2> QED
    BY <2>1, <2>2
<1>7. \A other \in Reader : reads'[other].at \in {"none", "rows", "answered"}
  BY <1>4 DEF ReadRow
<1>8. StreamTypeOK' /\ StreamShapes'
  BY <1>2, <1>4, <1>7 DEF StreamInv, StreamTypeOK, StreamShapes
<1>9. LogTells' /\ PageTrue'
  BY <1>2 DEF StreamInv, LogTells, PageTrue
<1>10. WireTrue'
  <2>1. reads'["loop"].at /= "none" => reads["loop"].at /= "none"
    BY <1>1, <1>4 DEF Reader
  <2> QED
    BY <1>2, <2>1 DEF StreamInv, WireTrue
<1> QED
  BY <1>6, <1>8, <1>9, <1>10 DEF StreamInv

\* An answer that arrives: an older one is dropped, a newer one is the page.
LEMMA SnapshotKeeps == ASSUME StreamInv, NEW who \in Reader, SnapshotArrives(who) PROVE StreamInv'
<1> DEFINE r == reads[who]
<1>1. /\ page' = ApplySnapshot(r) /\ reads' = [reads EXCEPT ![who] = NoRead] /\ r.at = "answered"
      /\ link' = (IF who = "loop" THEN Link("connecting") ELSE link)
      /\ UNCHANGED <<table, events, frames, wire, session, drops, refreshes>>
  BY DEF SnapshotArrives
<1>2. /\ r \in ReadRow /\ reads \in [Reader -> ReadRow] /\ page \in PageRow /\ NoRead \in ReadRow
      /\ page.seq \in Nat /\ r.seq \in Nat
  BY DEF StreamInv, StreamShapes, ReadRow, PageRow, NoRead
<1>3. ReadTrue(r) /\ PageTrue
  BY DEF StreamInv
<1>4. /\ reads' \in [Reader -> ReadRow] /\ reads'[who] = NoRead
      /\ \A other \in Reader : other /= who => reads'[other] = reads[other]
  BY <1>1, <1>2
<1>5. page' \in PageRow /\ page.seq <= page'.seq /\ PageTrue'
  <2>1. CASE r.seq < page.seq
    <3>1. page' = page
      BY <1>1, <2>1 DEF ApplySnapshot
    <3> QED
      BY <1>1, <1>2, <1>3, <3>1 DEF PageTrue
  <2>2. CASE ~(r.seq < page.seq)
    <3> HIDE DEF r
    <3>1. page' = [seq |-> r.seq, rev |-> r.rev, status |-> r.status, messages |-> r.messages,
                   control |-> r.control, text |-> {}, gap |-> FALSE]
      BY <1>1, <2>2 DEF ApplySnapshot, ApplySnapshotAnyAge
    <3>2. page' \in PageRow
      BY <1>2, <3>1 DEF PageRow, ReadRow
    <3>3. Shows(events, page', r.seq)
      BY <1>1, <1>3, <3>1 DEF ReadTrue, Shows
    <3>4. ShowsSelection(events, page'.control, r.seq)
      BY <1>1, <1>3, <3>1 DEF ReadTrue
    <3>5. r.seq <= Len(events) /\ r.rev <= table.rev
      BY <1>1, <1>3 DEF ReadTrue
    <3>6. page'.seq = r.seq /\ page'.rev = r.rev /\ page'.text = {} /\ ~page'.gap
      BY <3>1
    <3>7. page.seq <= r.seq
      BY <1>2, <2>2
    <3> QED
      BY <1>1, <3>2, <3>3, <3>4, <3>5, <3>6, <3>7 DEF PageTrue
  <2> QED
    BY <2>1, <2>2
<1>6. ASSUME NEW other \in Reader  PROVE ReadTrue(reads[other])'
  <2>1. CASE other = who
    BY <1>4, <2>1 DEF ReadTrue, NoRead
  <2>2. CASE other /= who
    BY <1>1, <1>4, <2>2 DEF StreamInv, ReadTrue
  <2> QED
    BY <2>1, <2>2
<1>7. StreamTypeOK'
  <2>1. link' \in [at : {"mounting", "connecting", "open", "recovering", "failed", "refused"},
                   sent : 0 .. MaxEvents, framed : Nat]
    BY <1>1, StreamAssumption DEF StreamInv, StreamTypeOK, Link
  <2>2. page'.seq \in 0 .. MaxEvents /\ page'.messages \subseteq Reply /\ page'.gap \in BOOLEAN
    <3>1. page'.seq \in Nat /\ page'.seq <= Len(events) /\ Len(events) \in 1 .. MaxEvents
      BY <1>1, <1>5 DEF PageRow, PageTrue, StreamInv, StreamTypeOK
    <3> QED
      BY <1>5, <3>1, StreamAssumption DEF PageRow
  <2>3. \A other \in Reader : reads'[other].at \in {"none", "rows", "answered"}
    BY <1>4 DEF ReadRow
  <2> QED
    BY <1>1, <2>1, <2>2, <2>3 DEF StreamInv, StreamTypeOK
<1>8. StreamShapes'
  BY <1>1, <1>4, <1>5 DEF StreamInv, StreamShapes
<1>9. LogTells'
  BY <1>1 DEF StreamInv, LogTells
<1>10. WireTrue'
  <2>1. link.sent \in Nat /\ page'.seq \in Nat /\ wire \in Seq(Item)
    BY <1>5 DEF StreamInv, StreamTypeOK, StreamShapes, PageRow
  <2>2. CASE who = "loop"
    <3>1. link.at \in {"mounting", "recovering"}
      BY <1>1, <2>2 DEF StreamInv, WireTrue
    <3>2. wire' = <<>> /\ link'.at = "connecting" /\ link'.sent = 0 /\ reads'["loop"].at = "none"
      BY <1>1, <1>4, <2>2, <3>1 DEF StreamInv, WireTrue, Link, NoRead
    <3>3. Len(events') \in Nat
      BY <1>1 DEF StreamInv, StreamTypeOK
    <3> QED
      BY <3>2, <3>3 DEF WireTrue, Genuine, InOrder
  <2>3. CASE who /= "loop"
    <3>1. link' = link /\ reads'["loop"] = reads["loop"]
      BY <1>1, <1>4, <2>3 DEF Reader
    <3>2. Genuine(wire, events) /\ InOrder(wire, page.seq) /\ link.sent <= Len(events)
      BY DEF StreamInv, WireTrue
    <3>3. InOrder(wire, page'.seq)
      <4>1. LastSent(wire, page.seq, 0)
        BY <1>2 DEF LastSent
      <4> QED
        BY <1>2, <1>5, <2>1, <3>2, <4>1, OrderFurther
    <3>4. link.at = "open" => LastSent(wire, page'.seq, link.sent)
      BY <1>2, <1>5, <2>1, <3>2, OrderFurther DEF StreamInv, WireTrue
    <3> QED
      BY <1>1, <3>1, <3>2, <3>3, <3>4 DEF StreamInv, WireTrue
  <2> QED
    BY <2>2, <2>3
<1> QED
  BY <1>5, <1>6, <1>7, <1>8, <1>9, <1>10 DEF StreamInv

------------------------------------------------------------------------------
\* The stream's steps change what is on its way, and what the page has taken.
LEMMA WireMoves ==
    ASSUME StreamInv, UNCHANGED <<table, events, frames, page, session, refreshes>>, WireTrue',
           drops' \in 0 .. MaxDrops, wire' \in Seq(Item), Len(wire') <= MaxWire,
           link' \in [at : {"mounting", "connecting", "open", "recovering", "failed", "refused"},
                      sent : 0 .. MaxEvents, framed : Nat],
           reads' = reads \/ reads' = [reads EXCEPT !["loop"] = NoRead]
    PROVE  StreamInv'
<1>1. NoRead \in ReadRow /\ reads \in [Reader -> ReadRow] /\ "loop" \in Reader
  BY DEF StreamInv, StreamShapes, ReadRow, NoRead, Reader
<1>2. reads' \in [Reader -> ReadRow] /\ \A who \in Reader : reads'[who] = reads[who] \/ reads'[who] = NoRead
  BY <1>1
<1>3. ASSUME NEW who \in Reader  PROVE ReadTrue(reads[who])'
  BY <1>2 DEF StreamInv, ReadTrue, NoRead
<1>4. \A who \in Reader : reads'[who].at \in {"none", "rows", "answered"}
  BY <1>2 DEF ReadRow
<1>5. StreamTypeOK' /\ StreamShapes'
  BY <1>2, <1>4 DEF StreamInv, StreamTypeOK, StreamShapes
<1>6. LogTells' /\ PageTrue'
  BY DEF StreamInv, LogTells, PageTrue
<1> QED
  BY <1>3, <1>5, <1>6 DEF StreamInv

\* The connection fails, is made again or drops what is on it.
LEMMA LinkKeeps ==
    StreamInv /\ (LoopFails \/ LoopRefused \/ Connects \/ ServerCloses \/ Dropped) => StreamInv'
<1> SUFFICES ASSUME StreamInv, LoopFails \/ LoopRefused \/ Connects \/ ServerCloses \/ Dropped
             PROVE  StreamInv'
  OBVIOUS
<1>1. /\ drops \in 0 .. MaxDrops /\ MaxDrops \in Nat /\ MaxEvents \in Nat /\ MaxWire \in Nat
      /\ Len(events) \in 1 .. MaxEvents /\ page.seq \in 0 .. MaxEvents
      /\ wire \in Seq(Item) /\ Len(wire) <= MaxWire /\ frames \in Seq(Frame) /\ page.seq <= Len(events)
  BY StreamAssumption DEF StreamInv, StreamTypeOK, StreamShapes, PageTrue
<1>2. /\ <<>> \in Seq(Item) /\ Len(<<>>) <= MaxWire
      /\ \A from, log : Genuine(<<>>, log) /\ InOrder(<<>>, from)
  BY <1>1 DEF Genuine, InOrder
<1>3. CASE LoopFails
  <2>1. wire' = <<>> /\ link'.at /= "open" /\ link'.sent = 0 /\ reads'["loop"].at = "none"
    <3>1. wire = <<>>
      BY <1>3 DEF LoopFails, StreamInv, WireTrue
    <3>2. reads' = [reads EXCEPT !["loop"] = NoRead] /\ "loop" \in DOMAIN reads
      BY <1>3 DEF LoopFails, StreamInv, StreamShapes, Reader
    <3> QED
      BY <1>3, <3>1, <3>2 DEF LoopFails, Link, NoRead
  <2>2. WireTrue'
    BY <1>1, <1>2, <1>3, <2>1 DEF WireTrue, LoopFails
  <2>3. drops' \in 0 .. MaxDrops /\ link' \in [at : {"mounting", "connecting", "open", "recovering", "failed", "refused"},
                      sent : 0 .. MaxEvents, framed : Nat]
    BY <1>1, <1>3 DEF LoopFails, Link
  <2> QED
    BY <1>2, <1>3, <2>1, <2>2, <2>3, WireMoves DEF LoopFails
<1>4. CASE Connects
  <2>1. wire = <<>> /\ reads["loop"].at = "none"
    BY <1>4 DEF Connects, StreamInv, WireTrue, StreamShapes, ReadRow, Reader
  <2>2. link' = [at |-> "open", sent |-> page.seq, framed |-> Len(frames)]
    BY <1>1, <1>4 DEF Connects
  <2>3. WireTrue'
    BY <1>1, <1>2, <1>4, <2>1, <2>2 DEF WireTrue, Connects, LastSent
  <2>4. link' \in [at : {"mounting", "connecting", "open", "recovering", "failed", "refused"},
                      sent : 0 .. MaxEvents, framed : Nat]
    BY <1>1, <2>2
  <2> QED
    BY <1>1, <1>4, <2>3, <2>4, WireMoves DEF Connects
<1>5. CASE Dropped
  <2>1. link' = Link("connecting") /\ wire' = <<>> /\ reads["loop"].at = "none" /\ reads' = reads
    BY <1>5 DEF Dropped, StreamInv, WireTrue
  <2>2. WireTrue'
    BY <1>1, <1>2, <1>5, <2>1 DEF WireTrue, Dropped, Link
  <2>3. drops' \in 0 .. MaxDrops /\ link' \in [at : {"mounting", "connecting", "open", "recovering", "failed", "refused"},
                      sent : 0 .. MaxEvents, framed : Nat]
    BY <1>1, <1>5, <2>1 DEF Dropped, Link
  <2> QED
    BY <1>2, <1>5, <2>1, <2>2, <2>3, WireMoves DEF Dropped
<1>6. CASE LoopRefused
  <2>1. wire = <<>> /\ reads["loop"].at = "none" /\ link.at /= "open"
    BY <1>6 DEF LoopRefused, StreamInv, WireTrue
  <2>2. \E at \in {"failed", "refused"} : link' = Link(at)
    BY <1>6 DEF LoopRefused
  <2>3. WireTrue'
    BY <1>1, <1>2, <1>6, <2>1, <2>2 DEF WireTrue, LoopRefused, Link
  <2>4. link' \in [at : {"mounting", "connecting", "open", "recovering", "failed", "refused"},
                      sent : 0 .. MaxEvents, framed : Nat]
    BY <1>1, <2>2 DEF Link
  <2> QED
    BY <1>1, <1>6, <2>3, <2>4, WireMoves DEF LoopRefused
<1>7. CASE ServerCloses
  <2>1. link' = Link("connecting") /\ wire = <<>> /\ wire' = wire /\ reads["loop"].at = "none" /\ reads' = reads
    BY <1>7 DEF ServerCloses, StreamInv, WireTrue
  <2>2. WireTrue'
    BY <1>1, <1>2, <1>7, <2>1 DEF WireTrue, ServerCloses, Link
  <2>3. link' \in [at : {"mounting", "connecting", "open", "recovering", "failed", "refused"},
                      sent : 0 .. MaxEvents, framed : Nat]
    BY <1>1, <2>1 DEF Link
  <2> QED
    BY <1>1, <1>7, <2>2, <2>3, WireMoves DEF ServerCloses
<1> QED
  BY <1>3, <1>4, <1>5, <1>6, <1>7

\* Sending a genuine item keeps the wire genuine.
LEMMA GenuineSent ==
    ASSUME NEW w \in Seq(Item), NEW log, NEW item \in Item, Genuine(w, log),
           IF item.number = 0 THEN item.event \in Frame
           ELSE item.number \in 1 .. Len(log) /\ item.event = log[item.number]
    PROVE  Genuine(Append(w, item), log)
<1> DEFINE new == Append(w, item)
<1>1. /\ Len(new) = Len(w) + 1 /\ Len(w) \in Nat /\ new[Len(w) + 1] = item
      /\ \A i \in 1 .. Len(w) : new[i] = w[i]
  OBVIOUS
<1> HIDE DEF new
<1>2. ASSUME NEW j \in 1 .. Len(new)
      PROVE  IF new[j].number = 0 THEN new[j].event \in Frame
             ELSE new[j].number \in 1 .. Len(log) /\ new[j].event = log[new[j].number]
  <2>1. CASE j \in 1 .. Len(w)
    BY <1>1, <2>1 DEF Genuine
  <2>2. CASE j = Len(w) + 1
    BY <1>1, <2>2
  <2> QED
    BY <1>1, <2>1, <2>2
<1> QED
  BY <1>2 DEF Genuine, new

\* The server sends the next event, or a frame.
LEMMA SendKeeps == StreamInv /\ (SendEvent \/ SendFrame) => StreamInv'
<1> SUFFICES ASSUME StreamInv, SendEvent \/ SendFrame PROVE StreamInv'
  OBVIOUS
<1>1. /\ wire \in Seq(Item) /\ Len(wire) \in Nat /\ Len(wire) < MaxWire /\ MaxWire \in Nat
      /\ link.at = "open" /\ link.sent \in Nat /\ link.sent <= Len(events) /\ link.framed \in Nat
      /\ page.seq \in Nat /\ reads["loop"].at = "none" /\ frames \in Seq(Frame) /\ events \in Seq(Event)
      /\ Len(events) \in 1 .. MaxEvents /\ drops \in 0 .. MaxDrops /\ MaxEvents \in Nat
      /\ Genuine(wire, events) /\ InOrder(wire, page.seq) /\ LastSent(wire, page.seq, link.sent)
      /\ link \in [at : {"mounting", "connecting", "open", "recovering", "failed", "refused"},
                   sent : 0 .. MaxEvents, framed : Nat]
  <2>1. /\ MaxWire \in Nat /\ MaxEvents \in Nat /\ Len(events) \in 1 .. MaxEvents
        /\ drops \in 0 .. MaxDrops /\ Len(wire) < MaxWire /\ link.at = "open"
    BY StreamAssumption DEF StreamInv, StreamTypeOK, SendEvent, SendFrame
  <2>2. wire \in Seq(Item) /\ frames \in Seq(Frame) /\ events \in Seq(Event) /\ page.seq \in Nat
    BY DEF StreamInv, StreamShapes, PageRow
  <2>3. link \in [at : {"mounting", "connecting", "open", "recovering", "failed", "refused"},
                   sent : 0 .. MaxEvents, framed : Nat]
    BY DEF StreamInv, StreamTypeOK
  <2>4. link.sent \in Nat /\ link.framed \in Nat
    BY <2>3
  <2>5. /\ link.sent <= Len(events) /\ Genuine(wire, events) /\ InOrder(wire, page.seq)
        /\ LastSent(wire, page.seq, link.sent) /\ reads["loop"].at = "none"
    BY <2>1 DEF StreamInv, WireTrue
  <2> QED
    BY <2>1, <2>2, <2>3, <2>4, <2>5
<1>2. ASSUME NEW item \in Item,
             IF item.number = 0 THEN item.event \in Frame
             ELSE item.number \in 1 .. Len(events) /\ item.event = events[item.number],
             item.number = 0 \/ item.number = link.sent + 1
      PROVE  LET new == Append(wire, item) IN
             /\ new \in Seq(Item) /\ Len(new) <= MaxWire /\ Genuine(new, events) /\ InOrder(new, page.seq)
             /\ LastSent(new, page.seq, IF item.number = 0 THEN link.sent ELSE link.sent + 1)
  <2>1. Append(wire, item) \in Seq(Item) /\ Len(Append(wire, item)) <= MaxWire
    BY <1>1
  <2> QED
    BY <1>1, <1>2, <2>1, OrderSent, GenuineSent
<1>3. CASE SendEvent
  <2> DEFINE item == [number |-> link.sent + 1, event |-> events[link.sent + 1]]
  <2>1. /\ link.sent < Len(events) /\ wire' = Append(wire, item) /\ link' = [link EXCEPT !.sent = @ + 1]
        /\ UNCHANGED <<table, events, frames, page, reads, session, drops, refreshes>>
    BY <1>3 DEF SendEvent
  <2>2. link.sent + 1 \in 1 .. Len(events) /\ link.sent + 1 \in Nat /\ link.sent + 1 /= 0
        /\ link.sent + 1 \in 0 .. MaxEvents
    BY <1>1, <2>1
  <2>3. item \in Item
    BY <1>1, <2>2 DEF Item
  <2>4. item.number = link.sent + 1 /\ item.event = events[item.number]
    OBVIOUS
  <2> HIDE DEF item
  <2>5. /\ wire' \in Seq(Item) /\ Len(wire') <= MaxWire /\ Genuine(wire', events) /\ InOrder(wire', page.seq)
        /\ LastSent(wire', page.seq, link.sent + 1)
    BY <1>2, <2>1, <2>2, <2>3, <2>4
  <2>6. link'.at = "open" /\ link'.sent = link.sent + 1
        /\ link' \in [at : {"mounting", "connecting", "open", "recovering", "failed", "refused"},
                      sent : 0 .. MaxEvents, framed : Nat]
    BY <1>1, <2>1, <2>2
  <2>7. WireTrue'
    BY <1>1, <2>1, <2>2, <2>5, <2>6 DEF WireTrue
  <2> QED
    BY <1>1, <2>1, <2>5, <2>6, <2>7, WireMoves
<1>4. CASE SendFrame
  <2> DEFINE item == [number |-> 0, event |-> frames[link.framed + 1]]
  <2>1. /\ link.framed < Len(frames) /\ (wire' = Append(wire, item) \/ wire' = wire)
        /\ link' = [link EXCEPT !.framed = @ + 1]
        /\ UNCHANGED <<table, events, frames, page, reads, session, drops, refreshes>>
    BY <1>4 DEF SendFrame
  <2>2. frames[link.framed + 1] \in Frame /\ link.framed + 1 \in Nat
    BY <1>1, <2>1
  <2>3. item \in Item
    BY <2>2 DEF Item
  <2>4. item.number = 0 /\ item.event \in Frame
    BY <2>2
  <2> HIDE DEF item
  <2>5. /\ wire' \in Seq(Item) /\ Len(wire') <= MaxWire /\ Genuine(wire', events) /\ InOrder(wire', page.seq)
        /\ LastSent(wire', page.seq, link.sent)
    <3>1. CASE wire' = wire
      BY <1>1, <3>1
    <3>2. CASE wire' = Append(wire, item)
      BY <1>2, <2>3, <2>4, <3>2
    <3> QED
      BY <2>1, <3>1, <3>2
  <2>6. link'.at = "open" /\ link'.sent = link.sent
        /\ link' \in [at : {"mounting", "connecting", "open", "recovering", "failed", "refused"},
                      sent : 0 .. MaxEvents, framed : Nat]
    BY <1>1, <2>1, <2>2
  <2>7. WireTrue'
    BY <1>1, <2>1, <2>5, <2>6 DEF WireTrue
  <2> QED
    BY <1>1, <2>1, <2>5, <2>6, <2>7, WireMoves
<1> QED
  BY <1>3, <1>4

\* The page takes the next item: a duplicate, the next event or a frame, never a gap.
LEMMA Taken ==
    ASSUME StreamInv, NEW item \in Item,
           IF item.number = 0 THEN item.event \in Frame
           ELSE item.number \in 1 .. Len(events) /\ item.event = events[item.number],
           item.number <= page.seq + 1,
           NEW next, next = IF item.number = 0 THEN ApplyDelta(item.event)
                            ELSE ApplyDurable(item.number, item.event)
    PROVE  /\ next \in PageRow /\ ~next.gap /\ page.seq <= next.seq /\ item.number <= next.seq
           /\ next.seq <= Len(events) /\ next.rev <= table.rev
           /\ Shows(events, next, next.seq) /\ ShowsSelection(events, next.control, next.seq)
           /\ \A t \in next.text : t.message \notin next.messages
<1>1. /\ page \in PageRow /\ PageTrue /\ page.seq \in Nat /\ item.number \in Nat /\ events \in Seq(Event)
      /\ page.rev \in Nat /\ Len(events) \in Nat
  BY DEF StreamInv, StreamShapes, PageRow, Item
<1>2. CASE next = page /\ item.number <= page.seq
  BY <1>1, <1>2 DEF PageTrue
<1>3. CASE item.number = 0 /\ next /= page
  <2> DEFINE f == item.event
  <2>1. /\ f \in Frame /\ f.message \notin page.messages
        /\ next = [page EXCEPT !.text = @ \cup {[message |-> f.message, chunk |-> f.chunk]}]
    BY <1>3 DEF ApplyDelta
  <2>2. [message |-> f.message, chunk |-> f.chunk] \in Chunk
    BY <2>1 DEF Frame, Chunk
  <2>3. /\ next \in PageRow /\ next.gap = page.gap /\ next.seq = page.seq /\ next.rev = page.rev
        /\ next.status = page.status /\ next.messages = page.messages /\ next.control = page.control
        /\ next.text = page.text \cup {[message |-> f.message, chunk |-> f.chunk]}
    BY <1>1, <2>1, <2>2 DEF PageRow
  <2>4. Shows(events, next, next.seq)
    BY <1>1, <2>3 DEF PageTrue, Shows
  <2>5. \A t \in next.text : t.message \notin next.messages
    BY <1>1, <2>1, <2>3 DEF PageTrue
  <2>6. ~next.gap /\ next.seq <= Len(events) /\ next.rev <= table.rev
        /\ ShowsSelection(events, next.control, next.seq)
    BY <1>1, <2>3 DEF PageTrue
  <2>7. item.number <= next.seq /\ page.seq <= next.seq
    BY <1>1, <1>3, <2>3
  <2> QED
    BY <2>3, <2>4, <2>5, <2>6, <2>7
<1>4. CASE item.number = page.seq + 1
  <2> DEFINE e == events[page.seq + 1]
             n == page.seq
  <2>1. /\ n \in Nat /\ n < Len(events) /\ e \in Event /\ n + 1 \in 1 .. Len(events)
        /\ next = ApplyDurable(n + 1, e) /\ ~(n + 1 <= page.seq)
    BY <1>1, <1>4
  <2>2. Rising(events) /\ Shows(events, page, n) /\ ShowsSelection(events, page.control, n)
    BY <1>1 DEF StreamInv, LogTells, PageTrue
  <2>3. n + 1 \in Nat /\ n + 1 <= Len(events) /\ page.seq <= n + 1
    BY <2>1
  <2>4. CASE e.kind = "run"
    <3>1. e.rev \in Nat /\ e.rev > page.rev /\ e.rev <= table.rev
      <4>1. n + 1 \in Among(events, Len(events), "run") /\ n + 1 > n /\ e.rev \in Nat
        BY <2>1, <2>4 DEF Among, Event
      <4>2. e.rev > page.rev
        BY <2>2, <4>1 DEF Shows
      <4>3. e.rev <= table.status /\ table.status <= table.rev /\ table.rev \in Nat /\ table.status \in Nat
        BY <4>1 DEF StreamInv, LogTells, Shows
      <4> QED
        BY <4>1, <4>2, <4>3
    <3>2. next = [page EXCEPT !.seq = n + 1, !.rev = e.rev, !.status = e.rev]
      BY <1>1, <2>1, <2>4, <3>1 DEF ApplyDurable
    <3> HIDE DEF e
    <3>3. /\ next \in PageRow /\ next.gap = page.gap /\ next.seq = n + 1 /\ next.rev = e.rev
          /\ next.status = e.rev /\ next.messages = page.messages /\ next.control = page.control
          /\ next.text = page.text
      BY <1>1, <2>3, <3>1, <3>2 DEF PageRow
    <3>4. Shows(events, next, n + 1)
      BY <1>1, <2>1, <2>2, <2>4, <3>3, RunShown DEF e
    <3>5. ShowsSelection(events, next.control, n + 1)
      <4>1. events[n + 1].kind /= "control"
        BY <2>4 DEF e
      <4> QED
        BY <1>1, <2>1, <2>2, <3>3, <4>1, SelectionShown
    <3> QED
      BY <1>1, <1>4, <2>3, <3>1, <3>3, <3>4, <3>5 DEF PageTrue
  <2>5. CASE e.kind = "control"
    <3>1. next = [page EXCEPT !.seq = n + 1, !.control = e.rev] /\ e.rev \in Nat
      BY <1>1, <2>1, <2>5 DEF ApplyDurable, Event
    <3> HIDE DEF e
    <3>2. /\ next \in PageRow /\ next.gap = page.gap /\ next.seq = n + 1 /\ next.rev = page.rev
          /\ next.status = page.status /\ next.messages = page.messages /\ next.control = e.rev
          /\ next.text = page.text
      BY <1>1, <2>3, <3>1 DEF PageRow
    <3>3. Shows(events, next, n + 1)
      <4>1. events[n + 1].kind /= "run" /\ events[n + 1].kind /= "message"
        BY <2>5 DEF e
      <4>2. next.messages = page.messages \cup
               (IF events[n + 1].kind = "message" THEN {events[n + 1].message} ELSE {})
        BY <3>2, <4>1
      <4> QED
        BY <1>1, <2>1, <2>2, <3>2, <4>1, <4>2, OtherShown
    <3>4. ShowsSelection(events, next.control, n + 1)
      <4>1. events[n + 1].kind = "control" /\ events[n + 1].rev = next.control
        BY <2>5, <3>2 DEF e
      <4> QED
        BY <1>1, <2>1, <2>2, <4>1, SelectionShown
    <3> QED
      BY <1>1, <1>4, <2>3, <3>2, <3>3, <3>4 DEF PageTrue
  <2>6. CASE e.kind = "message"
    <3>1. /\ next = [page EXCEPT !.seq = n + 1, !.messages = @ \cup {e.message},
                                 !.text = {t \in @ : t.message /= e.message}]
          /\ e.message \in Reply
      BY <1>1, <2>1, <2>6 DEF ApplyDurable, Event
    <3> HIDE DEF e
    <3>2. /\ next \in PageRow /\ next.gap = page.gap /\ next.seq = n + 1 /\ next.rev = page.rev
          /\ next.status = page.status /\ next.messages = page.messages \cup {e.message}
          /\ next.control = page.control /\ next.text = {t \in page.text : t.message /= e.message}
      <4>1. page.messages \cup {e.message} \in SUBSET Reply
        BY <1>1, <3>1 DEF PageRow
      <4>2. {t \in page.text : t.message /= e.message} \in SUBSET Chunk
        BY <1>1 DEF PageRow
      <4> QED
        BY <1>1, <2>3, <3>1, <4>1, <4>2 DEF PageRow
    <3>3. Shows(events, next, n + 1)
      <4>1. events[n + 1].kind /= "run" /\ events[n + 1].kind = "message" /\ events[n + 1].message = e.message
        BY <2>6 DEF e
      <4>2. next.messages = page.messages \cup
               (IF events[n + 1].kind = "message" THEN {events[n + 1].message} ELSE {})
        BY <3>2, <4>1
      <4> QED
        BY <1>1, <2>1, <2>2, <3>2, <4>1, <4>2, OtherShown
    <3>4. ShowsSelection(events, next.control, n + 1)
      <4>1. events[n + 1].kind /= "control"
        BY <2>6 DEF e
      <4> QED
        BY <1>1, <2>1, <2>2, <3>2, <4>1, SelectionShown
    <3> QED
      BY <1>1, <1>4, <2>3, <3>2, <3>3, <3>4 DEF PageTrue
  <2> QED
    BY <2>1, <2>4, <2>5, <2>6 DEF Event
<1>5. item.number = 0 \/ item.number <= page.seq \/ item.number = page.seq + 1
  BY <1>1
<1>6. item.number /= 0 /\ item.number <= page.seq => next = page
  BY DEF ApplyDurable
<1> QED
  BY <1>1, <1>2, <1>3, <1>4, <1>5, <1>6

\* The page handles what arrives: the next event, one it has, or one beyond a gap.
LEMMA HandlesKeeps == StreamInv /\ Handles => StreamInv'
<1> SUFFICES ASSUME StreamInv, Handles PROVE StreamInv'
  OBVIOUS
<1> DEFINE item == Head(wire)
           next == IF item.number = 0 THEN ApplyDelta(item.event)
                   ELSE ApplyDurable(item.number, item.event)
<1>1. /\ wire /= <<>> /\ wire \in Seq(Item) /\ ~page.gap /\ link.at = "open"
      /\ UNCHANGED <<table, events, frames, reads, session, drops, refreshes>>
  BY DEF Handles, StreamInv, StreamShapes, PageTrue
<1>2. /\ page' = next /\ link' = (IF next.gap THEN Link("recovering") ELSE link)
      /\ wire' = (IF next.gap THEN <<>> ELSE Tail(wire))
  BY <1>1 DEF Handles
<1>3. 1 \in 1 .. Len(wire) /\ item = wire[1] /\ item \in Item /\ Tail(wire) \in Seq(Item)
      /\ Len(Tail(wire)) = Len(wire) - 1 /\ Len(wire) \in Nat
      /\ \A i \in 1 .. Len(Tail(wire)) : Tail(wire)[i] = wire[i + 1] /\ i + 1 \in 1 .. Len(wire)
  BY <1>1
<1>4. /\ IF item.number = 0 THEN item.event \in Frame
         ELSE item.number \in 1 .. Len(events) /\ item.event = events[item.number]
      /\ item.number <= page.seq + 1
  <2>1. Genuine(wire, events) /\ InOrder(wire, page.seq)
    BY DEF StreamInv, WireTrue
  <2> HIDE DEF item
  <2>2. item.number <= page.seq + 1
    BY <1>3, <2>1 DEF InOrder
  <2> QED
    BY <1>3, <2>1, <2>2 DEF Genuine
<1> HIDE DEF item
<1>5. /\ next \in PageRow /\ ~next.gap /\ page.seq <= next.seq /\ item.number <= next.seq
      /\ next.seq <= Len(events) /\ next.rev <= table.rev
      /\ Shows(events, next, next.seq) /\ ShowsSelection(events, next.control, next.seq)
      /\ \A t \in next.text : t.message \notin next.messages
  BY <1>3, <1>4, Taken
<1> HIDE DEF next
<1>6. page' = next /\ link' = link /\ wire' = Tail(wire)
  BY <1>2, <1>5
<1>7. page.seq \in Nat /\ next.seq \in Nat /\ link.sent \in Nat /\ Len(events) \in 1 .. MaxEvents /\ MaxEvents \in Nat
  BY <1>5, StreamAssumption DEF StreamInv, StreamShapes, StreamTypeOK, PageRow
<1>8. InOrder(wire', next.seq) /\ LastSent(wire', next.seq, link.sent)
  BY <1>1, <1>5, <1>6, <1>7, OrderHandled DEF StreamInv, WireTrue, item
<1>9. Genuine(wire', events)
  BY <1>3, <1>6 DEF StreamInv, WireTrue, Genuine
<1>10. WireTrue'
  BY <1>1, <1>6, <1>8, <1>9 DEF StreamInv, WireTrue
<1>11. PageTrue'
  BY <1>1, <1>5, <1>6 DEF PageTrue
<1>12. StreamTypeOK'
  <2>1. next.seq \in 0 .. MaxEvents /\ next.messages \subseteq Reply /\ next.gap \in BOOLEAN
    BY <1>5, <1>7 DEF PageRow
  <2>2. Len(wire') <= MaxWire
    BY <1>3, <1>6, StreamAssumption DEF StreamInv, StreamTypeOK
  <2> QED
    BY <1>1, <1>6, <2>1, <2>2 DEF StreamInv, StreamTypeOK
<1>13. StreamShapes' /\ LogTells' /\ \A who \in Reader : ReadTrue(reads[who])'
  BY <1>1, <1>3, <1>5, <1>6 DEF StreamInv, StreamShapes, LogTells, ReadTrue
<1> QED
  BY <1>10, <1>11, <1>12, <1>13 DEF StreamInv

\* Every step of the store, the server, the network and the page keeps the stream.
LEMMA StreamKept == StreamInv /\ [StreamNext]_evars => StreamInv'
<1> SUFFICES ASSUME StreamInv, [StreamNext]_evars PROVE StreamInv'
  OBVIOUS
<1>1. CASE UNCHANGED evars
  BY <1>1 DEF evars, StreamInv, StreamTypeOK, StreamShapes, LogTells, ReadTrue, PageTrue, WireTrue
<1>2. CASE Transition \/ ControlChanges \/ Touched
  BY <1>2, TransitionKeeps, ControlKeeps, TouchedKeeps
<1>3. CASE \E m \in Reply : CommitMessage(m) \/ PublishDelta(m)
  BY <1>3, MessageKeeps, DeltaKeeps
<1>4. CASE LoopAsks \/ RefreshAsks
  BY <1>4, AsksKeep
<1>5. CASE LoopFails \/ LoopRefused \/ Connects \/ ServerCloses \/ Dropped
  BY <1>5, LinkKeeps
<1>6. CASE SendEvent \/ SendFrame \/ Handles
  BY <1>6, SendKeeps, HandlesKeeps
<1>7. CASE \E who \in Reader : ReadControl(who) \/ SnapshotArrives(who)
  BY <1>7, ControlRead, SnapshotKeeps
<1>8. CASE SessionEnds
  BY <1>8 DEF SessionEnds, StreamInv, StreamTypeOK, StreamShapes, LogTells, ReadTrue, PageTrue, WireTrue
<1> QED
  BY <1>1, <1>2, <1>3, <1>4, <1>5, <1>6, <1>7, <1>8 DEF StreamNext, Follows

\* runReducer, connectEvents, events(): whatever snapshots, duplicates, reconnects and late frames come when,
\* the page misses no event and shows the run as it was at the page's number.
THEOREM StreamHolds == StreamSpec => [](StreamTypeOK /\ ViewTrue)
<1>1. StreamInv => StreamTypeOK /\ ViewTrue
  BY StreamView DEF StreamInv
<1> QED
  BY <1>1, StreamStarts, StreamKept, PTL DEF StreamSpec
===============================================================================
