------------------------------ MODULE EventStream ------------------------------
(***************************************************************************)
(* What a browser shows of a run (server/app.py, events; storage/store.py,   *)
(* event and snapshot; Services.dispatch, get_run; apps/web/src: use-run.ts, *)
(* event-stream.ts, run-reducer.ts).  Every change of the run is stored with *)
(* a numbered event in one transaction; the page starts from a snapshot,     *)
(* follows the numbered events over a stream it reopens with its cursor,     *)
(* and shows the text of a reply before it is committed from frames that     *)
(* have no number and may be lost.  Snapshots are fetched beside the stream, *)
(* by the user and when the run ends, and answers overtake each other.  Every *)
(* request needs a session, which expires or is revoked; a loop that is       *)
(* refused for that ends for good.                                           *)
(*                                                                         *)
(* One run and one page are followed, with one session.  Tools, interactions, *)
(* artifacts and children are kept by the same rules as messages.  The status *)
(* of a run is told apart by the revision of the row that set it.             *)
(***************************************************************************)
EXTENDS Integers, Sequences, FiniteSets

CONSTANTS
    Reply,             \* bound: messages of the model
    MaxEvents,         \* bound: durable events
    MaxTouches,        \* bound: revisions of the row without an event
    MaxChunks,         \* bound: frames of a reply
    MaxWire,           \* bound: what is sent and not yet handled
    MaxDrops,          \* bound: failures of the network
    MaxRefreshes       \* bound: snapshots fetched beside the stream

ASSUME StreamAssumption ==
    /\ \A n \in {MaxEvents, MaxTouches, MaxChunks, MaxWire, MaxDrops, MaxRefreshes} : n \in Nat
    /\ MaxEvents > 0

VARIABLES
    table,             \* the run's row, its messages, and the revision of its model selection
    events,            \* run_events, by number
    frames,            \* ephemeral_frames, by id
    page,              \* the projection: what the user sees
    link,              \* connectEvents, and the server's two cursors of the open stream
    wire,              \* sent by the server, not yet handled by the page
    reads,             \* snapshots under way: the loop's own, and one beside it
    session,           \* the browser's session is still accepted
    drops, refreshes

evars == <<table, events, frames, page, link, wire, reads, session, drops, refreshes>>

\* connectEvents, out of a stream: what the server kept for the stream is gone.
Link(at) == [at |-> at, sent |-> 0, framed |-> 0]

Reader == {"loop", "refresh"}
NoRead == [at |-> "none", seq |-> 0, rev |-> 0, status |-> 0, messages |-> {}, control |-> 0]
EmptyPage == [seq |-> 0, rev |-> 0, status |-> 0, messages |-> {}, control |-> 0, text |-> {}, gap |-> FALSE]

\* An event: of the run's status, of the model selection, or a committed message, whose text
\* may make it larger than what the server sends at once (1 MiB).
OfRun(n) == [kind |-> "run", rev |-> n]
OfControl(n) == [kind |-> "control", rev |-> n]
OfMessage(m, size) == [kind |-> "message", message |-> m, size |-> size]

TooLarge(n) == events[n].kind = "message" /\ events[n].size = "large"

------------------------------------------------------------------------------
\* The database: each change and its event are one transaction

Commits(row, event) ==
    /\ Len(events) < MaxEvents
    /\ table' = row /\ events' = Append(events, event)
    /\ UNCHANGED <<frames, page, link, wire, reads, session, drops, refreshes>>

Transition ==
    Commits([table EXCEPT !.rev = @ + 1, !.status = table.rev + 1], OfRun(table.rev + 1))

ControlChanges == Commits([table EXCEPT !.control = @ + 1], OfControl(table.control + 1))

CommitMessage(m) ==
    /\ m \notin table.messages
    /\ \E size \in {"small", "large"} :
         Commits([table EXCEPT !.messages = @ \cup {m}], OfMessage(m, size))

\* checkpoint_ref, input_revision and cancel_requested are written without an event.
Touched ==
    /\ table.touches < MaxTouches
    /\ table' = [table EXCEPT !.rev = @ + 1, !.touches = @ + 1]
    /\ UNCHANGED <<events, frames, page, link, wire, reads, session, drops, refreshes>>

PublishDelta(m) ==
    LET chunk == Cardinality({i \in 1 .. Len(frames) : frames[i].message = m}) + 1 IN
    /\ m \notin table.messages /\ chunk <= MaxChunks
    /\ frames' = Append(frames, [kind |-> "delta", message |-> m, chunk |-> chunk])
    /\ UNCHANGED <<table, events, page, link, wire, reads, session, drops, refreshes>>

------------------------------------------------------------------------------
\* The reducer

\* A late answer is dropped; any other replaces everything shown.
ApplySnapshotAnyAge(s) ==
    [seq |-> s.seq, rev |-> s.rev, status |-> s.status, messages |-> s.messages,
     control |-> s.control, text |-> {}, gap |-> FALSE]

ApplySnapshot(s) == IF s.seq < page.seq THEN page ELSE ApplySnapshotAnyAge(s)

\* A duplicate is dropped, a gap stops the page, the next event is applied.
ApplyDurable(n, e) ==
    IF n <= page.seq THEN page
    ELSE IF n /= page.seq + 1 THEN [page EXCEPT !.gap = TRUE]
    ELSE CASE e.kind = "run" ->
                  IF e.rev >= page.rev THEN [page EXCEPT !.seq = n, !.rev = e.rev, !.status = e.rev]
                  ELSE [page EXCEPT !.seq = n]
           [] e.kind = "control" -> [page EXCEPT !.seq = n, !.control = e.rev]
           [] e.kind = "message" ->
                  [page EXCEPT !.seq = n, !.messages = @ \cup {e.message},
                               !.text = {t \in @ : t.message /= e.message}]

\* A frame is text of a reply that is not committed yet.
ApplyDelta(f) ==
    IF f.message \in page.messages THEN page
    ELSE [page EXCEPT !.text = @ \cup {[message |-> f.message, chunk |-> f.chunk]}]

------------------------------------------------------------------------------
\* Snapshots: rows and number in one transaction, the model selection in a later one

ReadRows(who) ==
    reads' = [reads EXCEPT ![who] =
        [at |-> "rows", seq |-> Len(events), rev |-> table.rev, status |-> table.status,
         messages |-> table.messages, control |-> 0]]

\* authenticate(), before any request: the session expired, or was revoked by a logout.
SessionEnds ==
    /\ session
    /\ session' = FALSE
    /\ UNCHANGED <<table, events, frames, page, link, wire, reads, drops, refreshes>>

LoopAsks ==
    /\ session
    /\ link.at \in {"mounting", "recovering"} /\ reads["loop"].at = "none"
    /\ ReadRows("loop")
    /\ UNCHANGED <<table, events, frames, page, link, wire, session, drops, refreshes>>

\* The user, or the event that ended the run; nobody waits for the answer, and a refusal or a
\* failure is only shown.
RefreshAsks ==
    /\ session
    /\ link.at /= "mounting" /\ reads["refresh"].at = "none" /\ refreshes < MaxRefreshes
    /\ ReadRows("refresh")
    /\ refreshes' = refreshes + 1
    /\ UNCHANGED <<table, events, frames, page, link, wire, session, drops>>

ReadControl(who) ==
    /\ reads[who].at = "rows"
    /\ reads' = [reads EXCEPT ![who].at = "answered", ![who].control = table.control]
    /\ UNCHANGED <<table, events, frames, page, link, wire, session, drops, refreshes>>

SnapshotArrives(who) ==
    /\ reads[who].at = "answered"
    /\ page' = ApplySnapshot(reads[who])
    /\ reads' = [reads EXCEPT ![who] = NoRead]
    /\ link' = IF who = "loop" THEN Link("connecting") ELSE link
    /\ UNCHANGED <<table, events, frames, wire, session, drops, refreshes>>

\* The loop's snapshot fails in the network or the server.  The first failure is shown and ends
\* the loop; a later one is retried.
LoopFails ==
    /\ link.at \in {"mounting", "recovering"} /\ drops < MaxDrops
    /\ link' = Link(IF link.at = "mounting" THEN "failed" ELSE "connecting")
    /\ reads' = [reads EXCEPT !["loop"] = NoRead]
    /\ drops' = drops + 1
    /\ UNCHANGED <<table, events, frames, page, wire, session, refreshes>>

\* A snapshot or a stream asked for without a session is refused (401), which ends the loop.
LoopRefused ==
    /\ ~session
    /\ \/ link.at \in {"mounting", "recovering"} /\ reads["loop"].at = "none"
       \/ link.at = "connecting"
    /\ link' = Link(IF link.at = "mounting" THEN "failed" ELSE "refused")
    /\ UNCHANGED <<table, events, frames, page, wire, reads, session, drops, refreshes>>

------------------------------------------------------------------------------
\* The stream

\* It begins after the newest event, whatever the page has.
ConnectsFromNow ==
    /\ link.at = "connecting" /\ session
    /\ link' = [at |-> "open", sent |-> Len(events), framed |-> Len(frames)]
    /\ UNCHANGED <<table, events, frames, page, wire, reads, session, drops, refreshes>>

\* It begins after the page's cursor, and after the newest frame; a cursor the server has not
\* reached is refused (INVALID_CURSOR), and the page reads a snapshot.
Connects ==
    /\ link.at = "connecting" /\ session
    /\ link' = IF page.seq > Len(events) THEN Link("recovering")
               ELSE [at |-> "open", sent |-> page.seq, framed |-> Len(frames)]
    /\ UNCHANGED <<table, events, frames, page, wire, reads, session, drops, refreshes>>

SendEvent ==
    /\ link.at = "open" /\ link.sent < Len(events) /\ Len(wire) < MaxWire
    /\ ~TooLarge(link.sent + 1)
    /\ wire' = Append(wire, [number |-> link.sent + 1, event |-> events[link.sent + 1]])
    /\ link' = [link EXCEPT !.sent = @ + 1]
    /\ UNCHANGED <<table, events, frames, page, reads, session, drops, refreshes>>

\* A frame that has expired is passed over.
SendFrame ==
    /\ link.at = "open" /\ link.framed < Len(frames) /\ Len(wire) < MaxWire
    /\ \/ wire' = Append(wire, [number |-> 0, event |-> frames[link.framed + 1]])
       \/ UNCHANGED wire
    /\ link' = [link EXCEPT !.framed = @ + 1]
    /\ UNCHANGED <<table, events, frames, page, reads, session, drops, refreshes>>

\* onEvent: after a gap the stream is left and a snapshot read.
Handles ==
    /\ link.at = "open" /\ wire /= <<>>
    /\ LET item == Head(wire)
           next == IF page.gap THEN page
                   ELSE IF item.number = 0 THEN ApplyDelta(item.event)
                   ELSE ApplyDurable(item.number, item.event)
       IN /\ page' = next
          /\ link' = IF next.gap THEN Link("recovering") ELSE link
          /\ wire' = IF next.gap THEN <<>> ELSE Tail(wire)
    /\ UNCHANGED <<table, events, frames, reads, session, drops, refreshes>>

\* The server closes the stream before an event that is too large, and at a heartbeat, when
\* nothing is left to send, if the session ended.  What it sent is handled first.
ServerCloses ==
    /\ link.at = "open" /\ wire = <<>>
    /\ \/ link.sent < Len(events) /\ TooLarge(link.sent + 1)
       \/ link.sent = Len(events) /\ link.framed = Len(frames) /\ ~session
    /\ link' = Link("connecting")
    /\ UNCHANGED <<table, events, frames, page, wire, reads, session, drops, refreshes>>

\* The connection breaks, or the server closes it after a batch that was too large in all.
Dropped ==
    /\ link.at = "open" /\ drops < MaxDrops
    /\ link' = Link("connecting")
    /\ wire' = <<>>
    /\ drops' = drops + 1
    /\ UNCHANGED <<table, events, frames, page, reads, session, refreshes>>

StreamInit ==
    /\ table = [rev |-> 1, status |-> 1, touches |-> 0, control |-> 0, messages |-> {}]
    /\ events = <<OfRun(1)>> /\ frames = <<>>
    /\ page = EmptyPage
    /\ link = Link("mounting")
    /\ wire = <<>>
    /\ reads = [who \in Reader |-> NoRead]
    /\ session = TRUE
    /\ drops = 0 /\ refreshes = 0

\* What goes on by itself: the page's loop, the server's, and answers under way.
Follows ==
    \/ LoopAsks \/ LoopRefused \/ Connects \/ SendEvent \/ SendFrame \/ Handles \/ ServerCloses
    \/ \E who \in Reader : ReadControl(who) \/ SnapshotArrives(who)

StreamNext ==
    \/ Transition \/ ControlChanges \/ Touched
    \/ \E m \in Reply : CommitMessage(m) \/ PublishDelta(m)
    \/ Follows \/ RefreshAsks \/ LoopFails \/ Dropped \/ SessionEnds

StreamSpec == StreamInit /\ [][StreamNext]_evars /\ WF_evars(Follows)

------------------------------------------------------------------------------
\* The projection and the stream keep their shapes (RunProjection, EventStream).
StreamTypeOK ==
    /\ table \in [rev : Nat, status : Nat, touches : 0 .. MaxTouches, control : Nat, messages : SUBSET Reply]
    /\ Len(events) \in 1 .. MaxEvents /\ Len(wire) <= MaxWire
    /\ page.seq \in 0 .. MaxEvents /\ page.messages \subseteq Reply /\ page.gap \in BOOLEAN
    /\ link \in [at : {"mounting", "connecting", "open", "recovering", "failed", "refused"},
                 sent : 0 .. MaxEvents, framed : Nat]
    /\ session \in BOOLEAN
    /\ \A who \in Reader : reads[who].at \in {"none", "rows", "answered"}
    /\ drops \in 0 .. MaxDrops /\ refreshes \in 0 .. MaxRefreshes

\* The events of a kind among the first n.
First(n, kind) == {i \in 1 .. n : events[i].kind = kind}

\* runReducer: whichever of snapshots, duplicates, reconnects and late frames came when, no
\* event is missed, the page shows the status and messages the run had at its number, a
\* model selection no older than that, and no preview of a message it shows.
ViewTrue ==
    /\ ~page.gap /\ page.seq <= Len(events)
    /\ page.status \in {0} \cup {events[i].rev : i \in First(page.seq, "run")}
    /\ \A i \in First(page.seq, "run") : page.status >= events[i].rev
    /\ page.messages = {events[i].message : i \in First(page.seq, "message")}
    /\ \A i \in First(page.seq, "control") : page.control >= events[i].rev
    /\ \A t \in page.text : t.message \notin page.messages

\* events(): an event the server will not send lies ahead of the page; only a snapshot gets past it.
Barred == \E n \in page.seq + 1 .. Len(events) : TooLarge(n)

\* connectEvents, events(): as long as the session lasts, a page whose first snapshot arrived comes to
\* show the newest state and stays there, whatever breaks, unless an event too large to be sent bars
\* it; and the loop of a page whose session ended ends with it and does not ask for ever.
ViewCatchesUp ==
    /\ [](link.at \notin {"mounting", "failed"} => <>[](page.seq = Len(events) \/ Barred \/ ~session))
    /\ [](~session => <>(link.at \in {"failed", "refused"}))
================================================================================
