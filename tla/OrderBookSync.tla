---------------------------- MODULE OrderBookSync ----------------------------
(***************************************************************************)
(* OrderBookSynchronizer (app/market_data/realtime/order_book_sync.py)     *)
(* and the stream that drives it, BinanceFuturesOrderBookStream, for one   *)
(* symbol: the local book of an exchange that publishes its updates as     *)
(* depth events, some of which never arrive, and answers requests for a    *)
(* snapshot at a moment of its own.  The book is brought in step by a      *)
(* _resync task; the dispatch loop starts one whenever it sees a gap, also *)
(* while others run.                                                       *)
(*                                                                         *)
(* Everything runs on one event loop: the drain of apply_snapshot, the one *)
(* loop of the code that takes several steps here, keeps it to itself.     *)
(***************************************************************************)
EXTENDS Integers, Sequences

CONSTANTS
    Levels,      \* price levels of both sides
    Quantities,  \* quantities of a level, 0 an absent level
    BookAt,      \* the exchange's book after each update
    Tasks,       \* bound: _resync tasks alive at once
    FirstTask,   \* the one order_book() starts
    MaxAttempts, \* max_resync_attempts
    BufferMax,   \* max_buffer of the synchronizer
    StreamMax,   \* queue_maxsize of the transport
    MaxId,       \* bound: updates of the exchange
    Disconnects, \* whether depth events may never arrive
    FetchFaults  \* whether the REST snapshot may fail

Ids == 0 .. MaxId

Books == [Levels -> Quantities]

EmptyBook == [l \in Levels |-> 0]

ASSUME BoundsAssumption ==
    {MaxAttempts, BufferMax, StreamMax} \subseteq Nat \ {0} /\ MaxId \in Nat
ASSUME BookAssumption == 0 \in Quantities /\ BookAt \in [Ids -> Books]
ASSUME TaskAssumption == FirstTask \in Tasks
ASSUME FlagAssumption == {Disconnects, FetchFaults} \subseteq BOOLEAN

VARIABLES
    head,      \* the exchange's last update id
    emitted,   \* its last update id sent as a depth event
    stream,    \* WebSocketTransport._queue
    state,     \* OrderBookSynchronizer._state
    buffer,    \* _buffer
    book,      \* _book: its levels
    lastId,    \* and its last_update_id
    task,      \* the _resync tasks
    draining,  \* buffered events apply_snapshot has still to apply
    published  \* the last book put into the reader's queue

exchangeVars == <<head, emitted>>
bookVars == <<book, lastId>>
syncVars == <<state, buffer, bookVars, draining>>
vars == <<exchangeVars, stream, syncVars, task, published>>

----------------------------------------------------------------------------

\* A depth event carries the updates first .. last; its pu is first - 1.
Events == [first : Ids, last : Ids]

NoTask == [pc |-> "idle", attempt |-> 0, snap |-> 0]

NoBook == [id |-> 0, book |-> EmptyBook]

\* The levels an event carries, each with its quantity after the event.
Changed(e) ==
    {l \in Levels : \E j, k \in (e.first - 1) .. e.last : BookAt[j][l] # BookAt[k][l]}

Applied(b, e) == [l \in Levels |-> IF l \in Changed(e) THEN BookAt[e.last][l] ELSE b[l]]

\* previous_final_update_id is the last applied update.
Continues(e) == e.first - 1 = lastId

\* Wrong: any event that reaches beyond the snapshot will do.
Reaches(e, id) == id <= e.last

Bridges(e, id) == e.first <= id /\ id <= e.last

\* A full queue drops its oldest entry.
DropOldest(q, max, e) == Append(IF Len(q) < max THEN q ELSE Tail(q), e)

\* No callback of the loop is in the middle of apply_snapshot.
LoopFree == \A t \in Tasks : task[t].pc # "draining"

Init ==
    /\ head = 0
    /\ emitted = 0
    /\ stream = <<>>
    /\ state = "UNSYNCED"
    /\ buffer = <<>>
    /\ book = EmptyBook
    /\ lastId = 0
    /\ task = [t \in Tasks |-> IF t = FirstTask THEN [NoTask EXCEPT !.pc = "spawned"] ELSE NoTask]
    /\ draining = <<>>
    /\ published = NoBook

----------------------------------------------------------------------------
(* The exchange and the connection (external).                             *)

Update ==
    /\ head < MaxId
    /\ head' = head + 1
    /\ UNCHANGED <<emitted, stream, syncVars, task, published>>

\* The updates since the last event leave as one; it is lost when no
\* connection is up, and queued by the transport's read loop otherwise.
EmitEvent(lost) ==
    LET e == [first |-> emitted + 1, last |-> head]
    IN  /\ emitted < head
        /\ lost => Disconnects
        /\ emitted' = head
        /\ stream' = IF lost THEN stream ELSE DropOldest(stream, StreamMax, e)
        /\ UNCHANGED <<head, syncVars, task, published>>

\* The moment of the snapshot lies between its request and its answer.
AnswerSnapshot(t) ==
    /\ task[t].pc = "fetching"
    /\ task' = [task EXCEPT ![t] = [pc |-> "answered", attempt |-> @.attempt, snap |-> head]]
    /\ UNCHANGED <<exchangeVars, stream, syncVars, published>>

----------------------------------------------------------------------------
(* _dispatch_loop: one depth event, on_delta and what follows from it.     *)

TakeEvent ==
    /\ LoopFree
    /\ stream # <<>>
    /\ stream' = Tail(stream)
    /\ UNCHANGED <<exchangeVars, draining>>

Spawn(t) ==
    /\ task[t].pc = "idle"
    /\ task' = [task EXCEPT ![t].pc = "spawned"]

Publish(id, b) == published' = [id |-> id, book |-> b]

BufferDelta ==
    /\ TakeEvent
    /\ state = "BUFFERING"
    /\ buffer' = DropOldest(buffer, BufferMax, Head(stream))
    /\ UNCHANGED <<state, bookVars, task, published>>

IgnoreDelta ==
    /\ TakeEvent
    /\ state = "UNSYNCED"
    /\ UNCHANGED <<state, buffer, bookVars, task, published>>

ApplyDelta ==
    LET e == Head(stream)
    IN  /\ TakeEvent
        /\ state = "SYNCED"
        /\ Continues(e)
        /\ book' = Applied(book, e)
        /\ lastId' = e.last
        /\ Publish(e.last, book')
        /\ UNCHANGED <<state, buffer, task>>

\* Wrong: the gap is noticed and nobody acts on it.
DetectGapOnly(t) ==
    /\ TakeEvent
    /\ state = "SYNCED"
    /\ ~Continues(Head(stream))
    /\ state' = "RESYNC_REQUIRED"
    /\ book' = EmptyBook
    /\ lastId' = 0
    /\ UNCHANGED <<buffer, task, published>>

\* The local book is discarded and a resynchronisation is scheduled.
DetectGap(t) ==
    /\ TakeEvent
    /\ state = "SYNCED"
    /\ ~Continues(Head(stream))
    /\ state' = "RESYNC_REQUIRED"
    /\ book' = EmptyBook
    /\ lastId' = 0
    /\ Spawn(t)
    /\ UNCHANGED <<buffer, published>>

\* Until the scheduled task has its first turn, or while a task sleeps after
\* a gap among the buffered events, each further event schedules another.
ScheduleAgain(t) ==
    /\ TakeEvent
    /\ state = "RESYNC_REQUIRED"
    /\ Spawn(t)
    /\ UNCHANGED <<state, buffer, bookVars, published>>

Dispatch ==
    \/ BufferDelta \/ IgnoreDelta \/ ApplyDelta
    \/ \E t \in Tasks : DetectGap(t) \/ ScheduleAgain(t)

----------------------------------------------------------------------------
(* _resync.                                                                *)

StartBuffering == state' = "BUFFERING" /\ buffer' = <<>>

BeginResync(t) ==
    /\ LoopFree
    /\ task[t].pc = "spawned"
    /\ StartBuffering
    /\ task' = [task EXCEPT ![t] = [pc |-> "fetching", attempt |-> 1, snap |-> 0]]
    /\ UNCHANGED <<exchangeVars, stream, bookVars, draining, published>>

\* Wrong: one attempt too many.
AttemptFailsLate(t, s, b) ==
    IF task[t].attempt <= MaxAttempts
    THEN /\ state' = s
         /\ buffer' = b
         /\ task' = [task EXCEPT ![t].pc = "sleeping"]
    ELSE /\ StartBuffering
         /\ task' = [task EXCEPT ![t] = NoTask]

\* The attempt leaves the synchronizer in state s with buffer b.  After the
\* last one start_buffering() is called once more and the task ends.
AttemptFails(t, s, b) ==
    IF task[t].attempt < MaxAttempts
    THEN /\ state' = s
         /\ buffer' = b
         /\ task' = [task EXCEPT ![t].pc = "sleeping"]
    ELSE /\ StartBuffering
         /\ task' = [task EXCEPT ![t] = NoTask]

\* MarketDataError.
FetchFails(t) ==
    /\ FetchFaults
    /\ LoopFree
    /\ task[t].pc = "fetching"
    /\ AttemptFails(t, state, buffer)
    /\ UNCHANGED <<exchangeVars, stream, bookVars, draining, published>>

\* The sleep after a failed attempt is over.
NextAttempt(t) ==
    /\ LoopFree
    /\ task[t].pc = "sleeping"
    /\ StartBuffering
    /\ task' = [task EXCEPT ![t] = [pc |-> "fetching", attempt |-> @.attempt + 1, snap |-> 0]]
    /\ UNCHANGED <<exchangeVars, stream, bookVars, draining, published>>

\* apply_snapshot: no buffered event bridges the snapshot.
SnapshotUnbridged(t) ==
    /\ LoopFree
    /\ task[t].pc = "answered"
    /\ \A i \in DOMAIN buffer : ~Bridges(buffer[i], task[t].snap)
    /\ AttemptFails(t, "UNSYNCED", <<>>)
    /\ UNCHANGED <<exchangeVars, stream, bookVars, draining, published>>

\* Wrong: the buffer is kept for the next snapshot.
SnapshotBridgedAgain(t, i) ==
    LET snap == task[t].snap
    IN  /\ LoopFree
        /\ task[t].pc = "answered"
        /\ i \in DOMAIN buffer
        /\ Bridges(buffer[i], snap)
        /\ \A j \in 1 .. i - 1 : ~Bridges(buffer[j], snap)
        /\ book' = Applied(BookAt[snap], buffer[i])
        /\ lastId' = buffer[i].last
        /\ state' = "SYNCED"
        /\ draining' = SubSeq(buffer, i + 1, Len(buffer))
        /\ task' = [task EXCEPT ![t].pc = "draining"]
        /\ UNCHANGED <<exchangeVars, stream, buffer, published>>

\* The first event that bridges it is applied to the snapshot, exempt from
\* the continuity check; the events after it remain to be drained.
SnapshotBridged(t, i) ==
    LET snap == task[t].snap
    IN  /\ LoopFree
        /\ task[t].pc = "answered"
        /\ i \in DOMAIN buffer
        /\ Bridges(buffer[i], snap)
        /\ \A j \in 1 .. i - 1 : ~Bridges(buffer[j], snap)
        /\ book' = Applied(BookAt[snap], buffer[i])
        /\ lastId' = buffer[i].last
        /\ state' = "SYNCED"
        /\ buffer' = <<>>
        /\ draining' = SubSeq(buffer, i + 1, Len(buffer))
        /\ task' = [task EXCEPT ![t].pc = "draining"]
        /\ UNCHANGED <<exchangeVars, stream, published>>

DrainEvent(t) ==
    LET e == Head(draining)
    IN  /\ task[t].pc = "draining"
        /\ draining # <<>>
        /\ Continues(e)
        /\ book' = Applied(book, e)
        /\ lastId' = e.last
        /\ draining' = Tail(draining)
        /\ UNCHANGED <<exchangeVars, stream, state, buffer, task, published>>

DrainFindsGap(t) ==
    /\ task[t].pc = "draining"
    /\ draining # <<>>
    /\ ~Continues(Head(draining))
    /\ draining' = <<>>
    /\ AttemptFails(t, "RESYNC_REQUIRED", buffer)
    /\ UNCHANGED <<exchangeVars, stream, bookVars, published>>

ResyncSucceeds(t) ==
    /\ task[t].pc = "draining"
    /\ draining = <<>>
    /\ Publish(lastId, book)
    /\ task' = [task EXCEPT ![t] = NoTask]
    /\ UNCHANGED <<exchangeVars, stream, syncVars>>

Resync(t) ==
    \/ BeginResync(t) \/ AnswerSnapshot(t) \/ FetchFails(t) \/ NextAttempt(t)
    \/ SnapshotUnbridged(t) \/ (\E i \in DOMAIN buffer : SnapshotBridged(t, i))
    \/ DrainEvent(t) \/ DrainFindsGap(t) \/ ResyncSucceeds(t)

----------------------------------------------------------------------------

Next ==
    \/ Update
    \/ \E lost \in BOOLEAN : EmitEvent(lost)
    \/ Dispatch
    \/ \E t \in Tasks : Resync(t)

Spec == Init /\ [][Next]_vars

\* The loop runs every ready callback, a request is answered or fails, a
\* sleep ends.  Nothing is asked of the exchange or of the connection.
FairSpec == Spec /\ WF_vars(Dispatch) /\ \A t \in Tasks : WF_vars(Resync(t))

----------------------------------------------------------------------------
(* Properties.                                                             *)

TaskStates == [pc : {"idle", "spawned", "fetching", "answered", "draining", "sleeping"},
               attempt : 0 .. MaxAttempts, snap : Ids]

\* Every variable has its type.
TypeOK ==
    /\ head \in Ids
    /\ emitted \in Ids
    /\ stream \in Seq(Events)
    /\ state \in {"UNSYNCED", "BUFFERING", "SYNCED", "RESYNC_REQUIRED"}
    /\ buffer \in Seq(Events)
    /\ book \in Books
    /\ lastId \in Ids
    /\ task \in [Tasks -> TaskStates]
    /\ draining \in Seq(Events)
    /\ published \in [id : Ids, book : Books]

\* "Never applies a delta blindly": a book that says SYNCED is the
\* exchange's book at its update id, whatever was lost, dropped or fetched
\* by several resynchronisations at once.
SyncedBookIsExact == state = "SYNCED" => book = BookAt[lastId]

\* The stream implements OrderBookFeed: what the reader gets is exact and
\* never goes back, across gaps, stale snapshots and concurrent tasks.
Feed == INSTANCE OrderBookFeed

ImplementsFeed == Feed!Spec

GivenUp == state = "BUFFERING" /\ \A t \in Tasks : task[t].pc = "idle"

\* A gap is never left alone: the book is in step again, or the attempts of
\* a resynchronisation are used up.
EveryGapIsAnswered == state = "RESYNC_REQUIRED" ~> state = "SYNCED" \/ GivenUp

\* "book stays unsynced until the next depth event triggers another attempt".
NextEventRetries ==
    [][Dispatch /\ GivenUp => \E t \in Tasks : task'[t].pc # "idle"]_vars

==============================================================================
