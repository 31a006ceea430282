------------------------------- MODULE ModelSetup -------------------------------
(***************************************************************************)
(* Setting up a model (server/model_setup.py): a request is admitted,       *)
(* prepared from the stored profile, verified by a probe of the provider,   *)
(* and a save publishes profile, credential reference and default model.    *)
(*                                                                         *)
(* Equal configurations share one probe while it runs (_flights) and its    *)
(* report for a while after (_cache), under a fingerprint of configuration, *)
(* secret and probe options; a report's token is the receipt the client     *)
(* presents when it saves.  A request waits for the probe and for nothing   *)
(* else, so each step below runs from one await to the next.                *)
(*                                                                         *)
(* One profile is followed.  The rate window of twelve requests a minute    *)
(* and the diagnostic budget of a probe (BudgetLedger) are left out.        *)
(***************************************************************************)
EXTENDS Integers, FiniteSets

CONSTANTS
    SetupReq,          \* bound: setup requests
    Config,            \* configurations a user may try: model, endpoint and key
    MaxFlights,        \* bound: probes
    MaxActive,         \* requests admitted at once (2 in the code)
    VerificationReuse, \* settings.verification_reuse
    MaxSaves,          \* bound: revisions of the profile
    MaxSetupDeaths     \* bound: deaths of the API process

ASSUME SetupAssumption ==
    /\ Config /= {}
    /\ MaxFlights \in Nat \ {0} /\ MaxActive \in Nat \ {0} /\ VerificationReuse \in BOOLEAN
    /\ MaxSaves \in Nat \ {0} /\ MaxSetupDeaths \in Nat

VARIABLES
    sreq,              \* the requests
    flight,            \* probes started: fingerprint, task, requests waiting
    table,             \* _flights: the probe of each fingerprint
    cache,             \* _cache: token (the probe that made it) by fingerprint
    profiles,          \* namespace model_profiles, by revision
    current,           \* config/models: the profile's revision
    default,           \* the default agent's revision of the profile, 0 for another
    vault,             \* credential vault: the entries written, one per save
    lost,              \* entries whose deletion failed or whose process died
    setupDeaths

pvars == <<sreq, flight, table, cache, profiles, current, default, vault, lost, setupDeaths>>

Mode == {"agent", "connectivity"}
Fingerprint == Config \X Mode
FlightId == 1 .. MaxFlights
ProfileRev == 1 .. MaxSaves

\* What a probe finds: everything, required checks only, or less than these.
Report == {"full", "required", "poor"}

NoFlight == [print |-> CHOOSE f \in Fingerprint : TRUE, task |-> "none", users |-> 0]
NoProfile == [report |-> "none", mode |-> "agent", accepted |-> FALSE, cred |-> 0]
NewReq == [at |-> "new", kind |-> "test", print |-> CHOOSE f \in Fingerprint : TRUE, activate |-> FALSE,
           base |-> 0, retained |-> 0, token |-> 0, accept |-> FALSE, flight |-> 0, report |-> "none"]

Open == {r \in SetupReq : sreq[r].at \notin {"new", "over"}}
End(r) == [sreq EXCEPT ![r].at = "over"]

------------------------------------------------------------------------------
\* Admission and preparation, one step without an await

Prepared(r, kind, print, activate, token, accept) ==
    [NewReq EXCEPT !.at = "verify", !.kind = kind, !.print = print, !.activate = activate,
                   !.base = current, !.token = token, !.accept = accept,
                   !.retained = IF current = 0 THEN 0 ELSE profiles[current].cred]

\* A key that is not typed again is the stored one (retained); a typed one is stored anew. A
\* client that presents a receipt (token) was given it with a report, now or long ago; accept says
\* that the capabilities it does without are those the report it is saved with will miss.
SetupAdmitted(r) ==
    /\ sreq[r].at = "new" /\ Cardinality(Open) < MaxActive
    /\ \E kind \in {"test", "save"}, print \in Fingerprint, activate, typed, accept \in BOOLEAN,
          token \in {0} \cup {f \in FlightId : flight[f].task \in Report} :
         /\ accept => activate /\ token > 0
         /\ (kind = "save" /\ activate) => print[2] = "agent"
         /\ kind = "test" => ~activate
         /\ current = 0 => typed
         /\ (kind = "save" /\ ~activate /\ current > 0) => profiles[current].report = "none"
         /\ sreq' = [sreq EXCEPT ![r] =
                        [Prepared(r, kind, print, activate, token, accept) EXCEPT
                           !.at = IF kind = "save" /\ ~activate THEN "publish" ELSE "verify",
                           !.retained = IF typed THEN 0 ELSE @]]
    /\ UNCHANGED <<flight, table, cache, profiles, current, default, vault, lost, setupDeaths>>

------------------------------------------------------------------------------
\* _verified: the receipt, the cache, the shared probe

FingerprintOf(r) == sreq[r].print
Verifying(r) == sreq[r].at = "verify"

ReceiptExpired(r) ==
    /\ Verifying(r) /\ sreq[r].token > 0 /\ cache[FingerprintOf(r)] /= sreq[r].token
    /\ sreq' = End(r)
    /\ UNCHANGED <<flight, table, cache, profiles, current, default, vault, lost, setupDeaths>>

ReceiptHolds(r) == sreq[r].token = 0 \/ cache[FingerprintOf(r)] = sreq[r].token

\* A cache that forgets the probe's options.
ReusesAnyMode(r) ==
    /\ Verifying(r)
    /\ \E m \in Mode : LET f == cache[<<FingerprintOf(r)[1], m>>]
                       IN  f > 0 /\ sreq' = [sreq EXCEPT ![r].at = "publish", ![r].flight = f,
                                                         ![r].report = flight[f].task]
    /\ UNCHANGED <<flight, table, cache, profiles, current, default, vault, lost, setupDeaths>>

\* A report is reused, whichever request it was made for.
Reuses(r) ==
    /\ VerificationReuse
    /\ Verifying(r) /\ ReceiptHolds(r) /\ cache[FingerprintOf(r)] > 0
    /\ sreq' = [sreq EXCEPT ![r].at = "publish", ![r].flight = cache[FingerprintOf(r)],
                            ![r].report = flight[cache[FingerprintOf(r)]].task]
    /\ UNCHANGED <<flight, table, cache, profiles, current, default, vault, lost, setupDeaths>>

\* No report to reuse, or none may be: then the one kept is dropped.
NeedsProbe(r) ==
    /\ Verifying(r) /\ ReceiptHolds(r) /\ (cache[FingerprintOf(r)] = 0 \/ ~VerificationReuse)
    /\ cache' = [cache EXCEPT ![FingerprintOf(r)] = 0]

Joins(r) ==
    /\ NeedsProbe(r) /\ table[FingerprintOf(r)] > 0
    /\ flight' = [flight EXCEPT ![table[FingerprintOf(r)]].users = @ + 1]
    /\ sreq' = [sreq EXCEPT ![r].at = "waiting", ![r].flight = table[FingerprintOf(r)]]
    /\ UNCHANGED <<table, profiles, current, default, vault, lost, setupDeaths>>

StartsProbe(r) ==
    /\ NeedsProbe(r) /\ table[FingerprintOf(r)] = 0
    /\ \E f \in FlightId :
         /\ flight[f].task = "none" /\ \A g \in FlightId : g < f => flight[g].task /= "none"
         /\ flight' = [flight EXCEPT ![f] = [print |-> FingerprintOf(r), task |-> "running", users |-> 1]]
         /\ table' = [table EXCEPT ![FingerprintOf(r)] = f]
         /\ sreq' = [sreq EXCEPT ![r].at = "waiting", ![r].flight = f]
    /\ UNCHANGED <<profiles, current, default, vault, lost, setupDeaths>>

\* The provider answers every check, some, or the probe raises.
ProbeEnds(f) ==
    /\ flight[f].task = "running"
    /\ \E result \in Report \cup {"raised"} : flight' = [flight EXCEPT ![f].task = result]
    /\ UNCHANGED <<sreq, table, cache, profiles, current, default, vault, lost, setupDeaths>>

\* finally: the last request to leave takes the fingerprint out of the table.
Leaves(r) ==
    LET f == sreq[r].flight
    IN  /\ flight' = [flight EXCEPT ![f].users = @ - 1]
        /\ table' = IF flight[f].users = 1 THEN [table EXCEPT ![FingerprintOf(r)] = 0] ELSE table

\* The awaiting request goes on with the report, and keeps it for the others.
ProbeAnswers(r) ==
    LET f == sreq[r].flight
    IN  /\ sreq[r].at = "waiting" /\ flight[f].task \in Report
        /\ cache' = [cache EXCEPT ![FingerprintOf(r)] = IF @ = 0 THEN f ELSE @]
        /\ sreq' = [sreq EXCEPT ![r].at = IF sreq[r].kind = "save" THEN "publish" ELSE "over",
                                ![r].report = flight[f].task]
        /\ Leaves(r)
        /\ UNCHANGED <<profiles, current, default, vault, lost, setupDeaths>>

\* The probe raised, or was cancelled under a request that joined it meanwhile.
ProbeRaises(r) ==
    /\ sreq[r].at = "waiting" /\ flight[sreq[r].flight].task \in {"raised", "cancelled"}
    /\ sreq' = End(r)
    /\ Leaves(r)
    /\ UNCHANGED <<cache, profiles, current, default, vault, lost, setupDeaths>>

\* A test's client leaves during the wait; with nobody else the probe is cancelled and
\* awaited, still in the table.
Disconnects(r) ==
    LET f == sreq[r].flight
        alone == flight[f].users = 1 /\ flight[f].task = "running"
    IN  /\ sreq[r].at = "waiting" /\ sreq[r].kind = "test"
        /\ IF alone
           THEN /\ flight' = [flight EXCEPT ![f].users = 0, ![f].task = "cancelling"]
                /\ sreq' = [sreq EXCEPT ![r].at = "reaping"] /\ UNCHANGED table
           ELSE Leaves(r) /\ sreq' = End(r)
        /\ UNCHANGED <<cache, profiles, current, default, vault, lost, setupDeaths>>

ProbeCancelled(f) ==
    /\ flight[f].task = "cancelling"
    /\ flight' = [flight EXCEPT ![f].task = "cancelled"]
    /\ UNCHANGED <<sreq, table, cache, profiles, current, default, vault, lost, setupDeaths>>

\* The cancelled probe has ended: its fingerprint leaves the table, whichever probe is there.
Reaped(r) ==
    /\ sreq[r].at = "reaping" /\ flight[sreq[r].flight].task = "cancelled"
    /\ table' = [table EXCEPT ![FingerprintOf(r)] = 0]
    /\ sreq' = End(r)
    /\ UNCHANGED <<flight, cache, profiles, current, default, vault, lost, setupDeaths>>

ReceiptRunsOut(print) ==
    /\ cache[print] > 0
    /\ cache' = [cache EXCEPT ![print] = 0]
    /\ UNCHANGED <<sreq, flight, table, profiles, current, default, vault, lost, setupDeaths>>

------------------------------------------------------------------------------
\* save(): from the report to the published revision without an await

\* A default model has passed what the assistant needs; what else is missing the client
\* accepted, exactly, having seen a report it presents the receipt of.
Acceptable(r) ==
    \/ ~sreq[r].activate
    \/ sreq[r].report = "full"
    \/ sreq[r].report = "required" /\ sreq[r].token > 0 /\ sreq[r].accept

Unpublishable(r) ==
    /\ sreq[r].at = "publish" /\ (sreq[r].kind = "test" \/ ~Acceptable(r))
    /\ sreq' = End(r)
    /\ UNCHANGED <<flight, table, cache, profiles, current, default, vault, lost, setupDeaths>>

Publishing(r) == sreq[r].at = "publish" /\ sreq[r].kind = "save" /\ Acceptable(r)
Entry(r) == IF sreq[r].retained > 0 THEN sreq[r].retained ELSE Cardinality(vault \cup lost) + 1
NewEntry(r) == IF sreq[r].retained > 0 THEN {} ELSE {Entry(r)}

\* What the report was made for.
ProbedMode(r) == IF sreq[r].flight > 0 THEN flight[sreq[r].flight].print[2] ELSE FingerprintOf(r)[2]

\* One transaction: the stored revision is the one the request was prepared from.
Publishes(r) ==
    /\ Publishing(r) /\ current = sreq[r].base /\ current < MaxSaves
    /\ vault' = vault \cup NewEntry(r)
    /\ current' = current + 1
    /\ profiles' = [profiles EXCEPT ![current + 1] =
                       [report |-> sreq[r].report, mode |-> ProbedMode(r),
                        accepted |-> sreq[r].accept, cred |-> Entry(r)]]
    /\ default' = IF sreq[r].activate THEN current + 1 ELSE default
    /\ sreq' = End(r)
    /\ UNCHANGED <<flight, table, cache, lost, setupDeaths>>

\* Maintenance began, the vault refused, another save came first or the transaction failed
\* otherwise: the credential is taken back, which may fail.
PublishFails(r) ==
    /\ Publishing(r)
    /\ \/ UNCHANGED <<vault, lost>>
       \/ NewEntry(r) /= {} /\ vault' = vault \cup NewEntry(r) /\ lost' = lost \cup NewEntry(r)
    /\ sreq' = End(r)
    /\ UNCHANGED <<flight, table, cache, profiles, current, default, setupDeaths>>

\* The process dies, perhaps between the vault and the transaction.
SetupDies ==
    /\ setupDeaths < MaxSetupDeaths
    /\ setupDeaths' = setupDeaths + 1
    /\ \/ UNCHANGED <<vault, lost>>
       \/ \E r \in SetupReq :
            /\ Publishing(r) /\ NewEntry(r) /= {}
            /\ vault' = vault \cup NewEntry(r) /\ lost' = lost \cup NewEntry(r)
    /\ sreq' = [r \in SetupReq |-> IF sreq[r].at = "new" THEN sreq[r] ELSE [NewReq EXCEPT !.at = "over"]]
    /\ flight' = [f \in FlightId |-> IF flight[f].task = "none" THEN flight[f]
                                     ELSE [NoFlight EXCEPT !.task = "cancelled"]]
    /\ table' = [p \in Fingerprint |-> 0] /\ cache' = [p \in Fingerprint |-> 0]
    /\ UNCHANGED <<profiles, current, default>>

SetupInit ==
    /\ sreq = [r \in SetupReq |-> NewReq]
    /\ flight = [f \in FlightId |-> NoFlight]
    /\ table = [p \in Fingerprint |-> 0] /\ cache = [p \in Fingerprint |-> 0]
    /\ profiles = [v \in ProfileRev |-> NoProfile]
    /\ current = 0 /\ default = 0
    /\ vault = {} /\ lost = {} /\ setupDeaths = 0

SetupNext ==
    \/ \E r \in SetupReq :
         \/ SetupAdmitted(r) \/ ReceiptExpired(r) \/ Reuses(r) \/ Joins(r) \/ StartsProbe(r)
         \/ ProbeAnswers(r) \/ ProbeRaises(r) \/ Disconnects(r) \/ Reaped(r)
         \/ Unpublishable(r) \/ Publishes(r) \/ PublishFails(r)
    \/ \E f \in FlightId : ProbeEnds(f) \/ ProbeCancelled(f)
    \/ \E p \in Fingerprint : ReceiptRunsOut(p)
    \/ SetupDies

SetupSpec == SetupInit /\ [][SetupNext]_pvars

------------------------------------------------------------------------------
\* Requests, probes, profiles and credentials keep their shapes (ModelSetupService).
SetupTypeOK ==
    /\ \A r \in SetupReq : sreq[r].at \in {"new", "verify", "waiting", "reaping", "publish", "over"}
    /\ flight \in [FlightId -> [print : Fingerprint, users : 0 .. MaxActive,
         task : {"none", "running", "cancelling", "cancelled", "raised"} \cup Report]]
    /\ table \in [Fingerprint -> 0 .. MaxFlights] /\ cache \in [Fingerprint -> 0 .. MaxFlights]
    /\ profiles \in [ProfileRev -> [report : Report \cup {"none"}, mode : Mode, accepted : BOOLEAN, cred : Nat]]
    /\ current \in 0 .. MaxSaves /\ default \in 0 .. current
    /\ lost \subseteq vault

\* save(): through shared probes, reused reports, lost receipts and racing saves, the default
\* model has passed the full suite's required checks, and lacks only what was accepted.
DefaultVerified ==
    default > 0 =>
        /\ profiles[default].mode = "agent"
        /\ profiles[default].report \in {"full", "required"}
        /\ profiles[default].report = "required" => profiles[default].accepted

\* save(): every published revision's credential stays in the vault; one nobody refers to is
\* left only by a death or a failed deletion.
CredentialsKept ==
    LET used == {profiles[v].cred : v \in 1 .. current}
    IN  used \subseteq vault /\ vault \subseteq used \cup lost
=============================================================================
