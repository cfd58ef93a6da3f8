-------------------------- MODULE OrderBookSyncProofs --------------------------
(***************************************************************************)
(* What OrderBookSync guarantees for every exchange history, every set of  *)
(* _resync tasks and every size of the two queues, whatever is lost.       *)
(***************************************************************************)
EXTENDS OrderBookSync, SequenceTheorems, TLAPS

----------------------------------------------------------------------------
(* Queues of depth events.                                                 *)

In(q) == {q[i] : i \in DOMAIN q}

\* Each event of q is older than each event of r.
Before(q, r) == \A d \in In(q), e \in In(r) : d.last < e.first

Ordered(q) == \A i, j \in DOMAIN q : i < j => q[i].last < q[j].first

\* Taking the first event off a queue leaves the others, in order.
LEMMA HeadAndTail ==
    ASSUME NEW q \in Seq(Events), q # <<>>
    PROVE  /\ Head(q) \in Events
           /\ Head(q) \in In(q)
           /\ Tail(q) \in Seq(Events)
           /\ In(Tail(q)) \subseteq In(q)
           /\ Ordered(q) => Ordered(Tail(q))
           /\ Ordered(q) => \A e \in In(Tail(q)) : Head(q).last < e.first
<1>1. Len(q) \in Nat /\ Len(q) >= 1 /\ DOMAIN q = 1 .. Len(q) /\ Head(q) = q[1]
  OBVIOUS
<1>2. /\ Head(q) \in Events
      /\ Tail(q) \in Seq(Events)
      /\ Len(Tail(q)) = Len(q) - 1
      /\ \A i \in 1 .. Len(Tail(q)) : Tail(q)[i] = q[i + 1]
  BY HeadTailProperties
<1>3. DOMAIN Tail(q) = 1 .. Len(q) - 1
  BY <1>2
<1>4. \A i \in DOMAIN Tail(q) : i + 1 \in DOMAIN q /\ Tail(q)[i] = q[i + 1]
  BY <1>1, <1>2, <1>3
<1>5. In(Tail(q)) \subseteq In(q)
  BY <1>4 DEF In
<1>6. Ordered(q) => Ordered(Tail(q))
  BY <1>1, <1>3, <1>4 DEF Ordered
<1>7. Ordered(q) => \A e \in In(Tail(q)) : Head(q).last < e.first
  BY <1>1, <1>3, <1>4 DEF Ordered, In
<1> QED
  BY <1>1, <1>2, <1>5, <1>6, <1>7 DEF In

\* Appending an event adds just it, and keeps the order if it is the newest.
LEMMA Appended ==
    ASSUME NEW q \in Seq(Events), NEW e \in Events
    PROVE  /\ Append(q, e) \in Seq(Events)
           /\ In(Append(q, e)) = In(q) \cup {e}
           /\ Ordered(q) /\ (\A d \in In(q) : d.last < e.first) => Ordered(Append(q, e))
<1> DEFINE r == Append(q, e)
<1>1. /\ r \in Seq(Events)
      /\ Len(r) = Len(q) + 1
      /\ \A i \in 1 .. Len(q) : r[i] = q[i]
      /\ r[Len(q) + 1] = e
  BY AppendProperties
<1>2. Len(q) \in Nat /\ DOMAIN q = 1 .. Len(q) /\ DOMAIN r = 1 .. Len(q) + 1
  BY <1>1
<1> HIDE DEF r
<1>3. In(r) = In(q) \cup {e}
  BY <1>1, <1>2 DEF In
<1>4. Ordered(q) /\ (\A d \in In(q) : d.last < e.first) => Ordered(r)
  BY <1>1, <1>2 DEF Ordered, In
<1> QED
  BY <1>1, <1>3, <1>4 DEF r

\* A bounded queue holds nothing but what it held and the new event, in order.
LEMMA DropOldestHolds ==
    ASSUME NEW q \in Seq(Events), NEW max \in Nat \ {0}, NEW e \in Events
    PROVE  /\ DropOldest(q, max, e) \in Seq(Events)
           /\ In(DropOldest(q, max, e)) \subseteq In(q) \cup {e}
           /\ Ordered(q) /\ (\A d \in In(q) : d.last < e.first) =>
                  Ordered(DropOldest(q, max, e))
<1>1. CASE Len(q) < max
  BY <1>1, Appended DEF DropOldest
<1>2. CASE ~(Len(q) < max)
  <2>1. q # <<>>
    BY <1>2
  <2>2. /\ Tail(q) \in Seq(Events)
        /\ In(Tail(q)) \subseteq In(q)
        /\ Ordered(q) => Ordered(Tail(q))
    BY <2>1, HeadAndTail
  <2>3. DropOldest(q, max, e) = Append(Tail(q), e)
    BY <1>2 DEF DropOldest
  <2>4. /\ Append(Tail(q), e) \in Seq(Events)
        /\ In(Append(Tail(q), e)) = In(Tail(q)) \cup {e}
    BY <2>2, Appended
  <2>5. ASSUME Ordered(q), \A d \in In(q) : d.last < e.first
        PROVE  Ordered(Append(Tail(q), e))
    <3>1. \A d \in In(Tail(q)) : d.last < e.first
      BY <2>2, <2>5
    <3> QED
      BY <2>2, <2>5, <3>1, Appended
  <2> QED
    BY <2>2, <2>3, <2>4, <2>5
<1> QED
  BY <1>1, <1>2

\* What is left of a buffer after its i-th event.
LEMMA RestHolds ==
    ASSUME NEW q \in Seq(Events), NEW i \in DOMAIN q
    PROVE  /\ SubSeq(q, i + 1, Len(q)) \in Seq(Events)
           /\ In(SubSeq(q, i + 1, Len(q))) \subseteq In(q)
<1> DEFINE r == SubSeq(q, i + 1, Len(q))
<1>1. i \in 1 .. Len(q) /\ Len(q) \in Nat /\ DOMAIN q = 1 .. Len(q)
  OBVIOUS
<1>2. \A k \in i + 1 .. Len(q) : q[k] \in Events
  BY <1>1
<1>3. /\ r \in Seq(Events)
      /\ Len(r) = IF i + 1 <= Len(q) THEN Len(q) - (i + 1) + 1 ELSE 0
      /\ \A k \in 1 .. Len(q) - (i + 1) + 1 : r[k] = q[i + 1 + k - 1]
  BY <1>1, <1>2, SubSeqProperties
<1> HIDE DEF r
<1>4. DOMAIN r = 1 .. Len(q) - i
  BY <1>1, <1>3
<1>5. \A k \in DOMAIN r : r[k] = q[i + k] /\ i + k \in DOMAIN q
  <2> SUFFICES ASSUME NEW k \in DOMAIN r PROVE r[k] = q[i + k] /\ i + k \in DOMAIN q
    OBVIOUS
  <2>1. k \in 1 .. Len(q) - i /\ k \in 1 .. Len(q) - (i + 1) + 1
    BY <1>1, <1>4
  <2>2. r[k] = q[i + 1 + k - 1]
    BY <1>3, <2>1
  <2>3. i + 1 + k - 1 = i + k /\ i + k \in DOMAIN q
    BY <1>1, <2>1
  <2> QED
    BY <2>2, <2>3
<1>6. In(r) \subseteq In(q)
  BY <1>5 DEF In
<1> QED
  BY <1>3, <1>6 DEF r

----------------------------------------------------------------------------
(* One event on a book it continues, or on a snapshot it bridges.          *)

\* An event applied to the exchange's book just before it, or at an update
\* it carries, gives the exchange's book just after it.
LEMMA AppliedExact ==
    ASSUME NEW e \in Events, NEW id \in Ids, e.first >= 1,
           e.first - 1 <= id, id <= e.last
    PROVE  Applied(BookAt[id], e) = BookAt[e.last]
<1>1. e.first \in Ids /\ e.last \in Ids /\ MaxId \in Nat
  BY BoundsAssumption DEF Events
<1>2. id \in (e.first - 1) .. e.last /\ e.last \in (e.first - 1) .. e.last
  BY <1>1 DEF Ids
<1>3. BookAt[id] \in [Levels -> Quantities] /\ BookAt[e.last] \in [Levels -> Quantities]
  BY <1>1, BookAssumption DEF Books
<1>4. \A l \in Levels \ Changed(e) : BookAt[id][l] = BookAt[e.last][l]
  BY <1>2 DEF Changed
<1>5. \A l \in Levels : Applied(BookAt[id], e)[l] = BookAt[e.last][l]
  BY <1>4 DEF Applied
<1> QED
  BY <1>3, <1>5 DEF Applied

----------------------------------------------------------------------------
(* The invariant: what each queue may hold, relative to what was published *)
(* and what is still to come.                                              *)

\* Events are proper and were sent.
Sent == \A e \in In(stream) \cup In(buffer) \cup In(draining) :
            1 <= e.first /\ e.first <= e.last /\ e.last <= emitted

\* The events still to be delivered follow each other and all others.
InOrder ==
    /\ emitted <= head
    /\ Ordered(stream)
    /\ Before(buffer, stream)
    /\ Before(draining, stream)

\* Nothing that can still be published is as old as what was.
Fresh ==
    /\ published.id <= emitted
    /\ \A e \in In(stream) \cup In(buffer) : published.id < e.first

\* A task inside apply_snapshot is alone there, with a book newer than the
\* published one and older than the events to come.
Drainer ==
    \A t \in Tasks : task[t].pc = "draining" =>
        /\ \A u \in Tasks : task[u].pc = "draining" => u = t
        /\ state = "SYNCED"
        /\ published.id < lastId
        /\ lastId <= emitted
        /\ \A e \in In(stream) : lastId < e.first

\* A task that sleeps has an attempt left.
Retrying == \A t \in Tasks : task[t].pc = "sleeping" => task[t].attempt < MaxAttempts

\* Only a buffering synchronizer has buffered events.
BufferedOnly == state # "BUFFERING" => buffer = <<>>

FeedInv == TypeOK /\ Sent /\ InOrder /\ Fresh /\ Drainer /\ Retrying /\ BufferedOnly /\ SyncedBookIsExact

\* The stream starts in the invariant.
LEMMA FeedInit == Init => FeedInv
<1> SUFFICES ASSUME Init PROVE FeedInv
  OBVIOUS
<1>1. EmptyBook \in Books
  BY BookAssumption DEF EmptyBook, Books
<1>2. 0 \in Ids /\ 0 \in 0 .. MaxAttempts /\ MaxId \in Nat
  BY BoundsAssumption DEF Ids
<1>3. TypeOK
  BY <1>1, <1>2 DEF Init, TypeOK, TaskStates, NoTask, NoBook
<1>4. In(<<>>) = {}
  BY DEF In
<1>5. Sent /\ InOrder /\ Fresh
  BY <1>4 DEF Init, Sent, InOrder, Fresh, Ordered, Before, NoBook
<1>6. Drainer /\ Retrying /\ BufferedOnly /\ SyncedBookIsExact
  BY DEF Init, Drainer, Retrying, BufferedOnly, SyncedBookIsExact, NoTask
<1> QED
  BY <1>3, <1>5, <1>6 DEF FeedInv

\* The exchange sends an event, and it arrives or not.
LEMMA FeedEmit ==
    ASSUME FeedInv, NEW lost \in BOOLEAN, EmitEvent(lost)
    PROVE  FeedInv'
<1> DEFINE e == [first |-> emitted + 1, last |-> head]
<1> USE DEF FeedInv
<1>1. /\ e \in Events
      /\ emitted \in Nat /\ head \in Nat /\ emitted < head
      /\ e.first = emitted + 1 /\ e.last = head
      /\ emitted' = head /\ UNCHANGED <<head, state, buffer, book, lastId, draining, task, published>>
  BY BoundsAssumption DEF EmitEvent, TypeOK, Events, Ids, syncVars, bookVars
<1>2. stream \in Seq(Events) /\ StreamMax \in Nat \ {0}
  BY BoundsAssumption DEF TypeOK
<1>3. stream' = IF lost THEN stream ELSE DropOldest(stream, StreamMax, e)
  BY DEF EmitEvent
<1> HIDE DEF e
<1>4. \A d \in In(stream) \cup In(buffer) \cup In(draining) :
         /\ d \in Events /\ d.first \in Nat /\ d.last \in Nat
         /\ 1 <= d.first /\ d.first <= d.last /\ d.last <= emitted
  <2>1. In(stream) \cup In(buffer) \cup In(draining) \subseteq Events
    BY DEF TypeOK, In
  <2>2. \A d \in Events : d.first \in Nat /\ d.last \in Nat
    BY BoundsAssumption DEF Events, Ids
  <2> QED
    BY <2>1, <2>2 DEF Sent
<1>5. \A d \in In(stream) \cup In(buffer) \cup In(draining) : d.last < e.first
  BY <1>1, <1>4
<1>6. /\ stream' \in Seq(Events)
      /\ In(stream') \subseteq In(stream) \cup {e}
      /\ Ordered(stream')
  BY <1>1, <1>2, <1>3, <1>5, DropOldestHolds DEF InOrder
<1>7. TypeOK'
  BY <1>1, <1>6 DEF TypeOK
<1>8. Sent'
  <2>1. \A d \in In(stream') \cup In(buffer) \cup In(draining) :
           d \in In(stream) \cup In(buffer) \cup In(draining) \/ d = e
    BY <1>6
  <2>2. \A d \in In(stream') \cup In(buffer) \cup In(draining) :
           1 <= d.first /\ d.first <= d.last /\ d.last <= head
    BY <1>1, <1>4, <2>1
  <2> QED
    BY <1>1, <2>2 DEF Sent
<1>9. InOrder'
  <2>1. Before(buffer, stream)' /\ Before(draining, stream)'
    BY <1>1, <1>5, <1>6 DEF InOrder, Before
  <2> QED
    BY <1>1, <1>6, <2>1 DEF InOrder
<1>10. Fresh'
  <2>1. published.id \in Nat
    BY BoundsAssumption DEF TypeOK, Ids
  <2>2. published.id <= emitted /\ \A d \in In(stream) \cup In(buffer) : published.id < d.first
    BY DEF Fresh
  <2>3. \A d \in In(stream') \cup In(buffer) : published.id < d.first
    BY <1>1, <1>6, <2>1, <2>2
  <2> QED
    BY <1>1, <2>1, <2>2, <2>3 DEF Fresh
<1>11. Drainer'
  <2>1. lastId \in Nat
    BY BoundsAssumption DEF TypeOK, Ids
  <2>2. ASSUME NEW t \in Tasks, task[t].pc = "draining"
        PROVE  lastId <= head /\ \A d \in In(stream') : lastId < d.first
    BY <1>1, <1>6, <2>1, <2>2 DEF Drainer
  <2> QED
    BY <1>1, <2>2 DEF Drainer
<1>12. Retrying' /\ BufferedOnly' /\ SyncedBookIsExact'
  BY <1>1 DEF Retrying, BufferedOnly, SyncedBookIsExact
<1> QED
  BY <1>7, <1>8, <1>9, <1>10, <1>11, <1>12

\* Steps that only change tasks outside apply_snapshot, the state and the
\* buffer: the buffer is kept or emptied.
LEMMA FeedQuiet ==
    ASSUME FeedInv, LoopFree,
           state' \in {"UNSYNCED", "BUFFERING", "SYNCED", "RESYNC_REQUIRED"},
           buffer' = <<>> \/ (buffer' = buffer /\ state' = state),
           state' = "SYNCED" => state = "SYNCED",
           task' \in [Tasks -> TaskStates],
           \A t \in Tasks : task'[t].pc # "draining",
           Retrying',
           head' \in Ids, emitted <= head',
           UNCHANGED <<emitted, stream, book, lastId, draining, published>>
    PROVE  FeedInv'
<1> USE DEF FeedInv
<1>1. In(<<>>) = {}
  BY DEF In
<1>2. buffer' \in Seq(Events) /\ In(buffer') \subseteq In(buffer)
  <2>1. CASE buffer' = <<>>
    BY <1>1, <2>1
  <2>2. CASE buffer' = buffer
    BY <2>2 DEF TypeOK
  <2> QED
    BY <2>1, <2>2
<1>3. TypeOK'
  BY <1>2 DEF TypeOK
<1>4. Sent'
  BY <1>2 DEF Sent
<1>5. InOrder'
  BY <1>2 DEF InOrder, Before
<1>6. Fresh'
  BY <1>2 DEF Fresh
<1>7. Drainer' /\ BufferedOnly' /\ SyncedBookIsExact'
  BY DEF Drainer, BufferedOnly, SyncedBookIsExact
<1> QED
  BY <1>3, <1>4, <1>5, <1>6, <1>7

\* The dispatch loop takes an event off the queue.
LEMMA FeedDispatch ==
    ASSUME FeedInv, Dispatch
    PROVE  /\ FeedInv'
           /\ published' # published => Feed!Next
<1> DEFINE e == Head(stream)
<1> USE DEF FeedInv
<1>1. /\ LoopFree /\ stream # <<>> /\ stream' = Tail(stream)
      /\ UNCHANGED <<head, emitted, draining>>
  BY DEF Dispatch, BufferDelta, IgnoreDelta, ApplyDelta, DetectGap, ScheduleAgain, TakeEvent, exchangeVars
<1>2. stream \in Seq(Events) /\ Ordered(stream)
  BY DEF TypeOK, InOrder
<1>3. /\ e \in Events /\ e \in In(stream)
      /\ stream' \in Seq(Events)
      /\ In(stream') \subseteq In(stream)
      /\ Ordered(stream')
      /\ \A d \in In(stream') : e.last < d.first
  BY <1>1, <1>2, HeadAndTail
<1>4. /\ e.first \in Nat /\ e.last \in Nat /\ emitted \in Nat /\ head \in Nat
      /\ e.first \in Ids /\ e.last \in Ids /\ lastId \in Ids /\ lastId \in Nat
      /\ published.id \in Nat
  BY <1>3, BoundsAssumption DEF TypeOK, Events, Ids
<1>5. /\ 1 <= e.first /\ e.first <= e.last /\ e.last <= emitted /\ emitted <= head
      /\ published.id < e.first
  BY <1>3 DEF Sent, InOrder, Fresh
<1> HIDE DEF e
<1>6. \A t \in Tasks : task'[t].pc # "draining"
  BY <1>1 DEF LoopFree, TypeOK, TaskStates, Dispatch, BufferDelta, IgnoreDelta, ApplyDelta,
              DetectGap, ScheduleAgain, Spawn
<1>7. task' \in [Tasks -> TaskStates]
  <2>1. task' = task \/ \E t \in Tasks : Spawn(t)
    BY DEF Dispatch, BufferDelta, IgnoreDelta, ApplyDelta, DetectGap, ScheduleAgain
  <2>2. ASSUME NEW t \in Tasks, Spawn(t)
        PROVE  task' \in [Tasks -> TaskStates]
    <3>1. task \in [Tasks -> TaskStates] /\ [task[t] EXCEPT !.pc = "spawned"] \in TaskStates
      BY DEF TypeOK, TaskStates
    <3> QED
      BY <2>2, <3>1 DEF Spawn
  <2> QED
    BY <2>1, <2>2 DEF TypeOK
<1>75. Retrying'
  BY DEF Retrying, TypeOK, TaskStates, Dispatch, BufferDelta, IgnoreDelta, ApplyDelta,
         DetectGap, ScheduleAgain, Spawn
<1>8. CASE BufferDelta
  <2>1. /\ state = "BUFFERING" /\ buffer' = DropOldest(buffer, BufferMax, e)
        /\ UNCHANGED <<state, book, lastId, task, published>>
    BY <1>8 DEF BufferDelta, bookVars, e
  <2>2. buffer' \in Seq(Events) /\ In(buffer') \subseteq In(buffer) \cup {e}
    BY <1>3, <2>1, DropOldestHolds, BoundsAssumption DEF TypeOK
  <2>3. TypeOK'
    BY <1>1, <1>3, <1>7, <2>1, <2>2 DEF TypeOK
  <2>4. Sent'
    BY <1>1, <1>3, <2>2 DEF Sent
  <2>5. InOrder'
    BY <1>1, <1>3, <1>5, <2>2 DEF InOrder, Before
  <2>6. Fresh'
    BY <1>1, <1>3, <2>1, <2>2 DEF Fresh
  <2> QED
    BY <1>6, <1>75, <2>1, <2>3, <2>4, <2>5, <2>6 DEF Drainer, BufferedOnly, SyncedBookIsExact
<1>9. CASE IgnoreDelta \/ \E t \in Tasks : DetectGap(t) \/ ScheduleAgain(t)
  <2>1. /\ UNCHANGED <<buffer, published>>
        /\ state' \in {"UNSYNCED", "RESYNC_REQUIRED"}
        /\ state' # "SYNCED" /\ state # "BUFFERING"
        /\ book' \in Books /\ lastId' \in Ids
    <3>1. EmptyBook \in Books /\ 0 \in Ids
      BY BookAssumption, BoundsAssumption DEF EmptyBook, Books, Ids
    <3>2. CASE IgnoreDelta
      BY <3>2 DEF IgnoreDelta, bookVars, TypeOK
    <3>3. CASE \E t \in Tasks : DetectGap(t)
      BY <3>1, <3>3 DEF DetectGap
    <3>4. CASE \E t \in Tasks : ScheduleAgain(t)
      BY <3>4 DEF ScheduleAgain, bookVars, TypeOK
    <3> QED
      BY <1>9, <3>2, <3>3, <3>4
  <2>2. TypeOK'
    BY <1>1, <1>3, <1>7, <2>1 DEF TypeOK
  <2>3. Sent' /\ InOrder' /\ Fresh'
    BY <1>1, <1>3, <2>1 DEF Sent, InOrder, Fresh, Before
  <2>4. Drainer' /\ BufferedOnly' /\ SyncedBookIsExact'
    BY <1>6, <2>1 DEF Drainer, BufferedOnly, SyncedBookIsExact
  <2> QED
    BY <1>75, <2>1, <2>2, <2>3, <2>4
<1>10. CASE ApplyDelta
  <2>1. /\ state = "SYNCED" /\ e.first - 1 = lastId
        /\ book' = Applied(book, e) /\ lastId' = e.last
        /\ published' = [id |-> e.last, book |-> book']
        /\ UNCHANGED <<state, buffer, task>>
    BY <1>10 DEF ApplyDelta, Continues, Publish, e
  <2>2. buffer = <<>> /\ book = BookAt[lastId]
    BY <2>1 DEF BufferedOnly, SyncedBookIsExact
  <2>3. book' = BookAt[e.last]
    BY <1>3, <1>4, <1>5, <2>1, <2>2, AppliedExact
  <2>4. book' \in Books
    BY <1>4, <2>3, BookAssumption
  <2>5. TypeOK'
    BY <1>1, <1>3, <1>4, <1>7, <2>1, <2>4 DEF TypeOK
  <2>6. Sent' /\ InOrder'
    BY <1>1, <1>3, <2>1 DEF Sent, InOrder, Before
  <2>7. In(buffer') = {}
    BY <2>1, <2>2 DEF In
  <2>8. published'.id = e.last /\ published'.book = BookAt[e.last]
    BY <2>1, <2>3
  <2>9. Fresh'
    BY <1>1, <1>3, <1>5, <2>7, <2>8 DEF Fresh
  <2>10. Drainer' /\ BufferedOnly' /\ SyncedBookIsExact'
    BY <1>6, <2>1, <2>2, <2>3 DEF Drainer, BufferedOnly, SyncedBookIsExact
  <2>11. Feed!Publish(e.last)
    BY <1>1, <1>4, <1>5, <2>1, <2>3 DEF Feed!Publish
  <2>12. e.last \in 1 .. MaxId
    BY <1>4, <1>5, BoundsAssumption DEF Ids
  <2> QED
    BY <1>75, <2>5, <2>6, <2>9, <2>10, <2>11, <2>12 DEF Feed!Next
<1> QED
  BY <1>8, <1>9, <1>10 DEF Dispatch

\* A _resync task before and after its snapshot is applied.
LEMMA FeedWaiting ==
    ASSUME FeedInv, NEW t \in Tasks,
           BeginResync(t) \/ FetchFails(t) \/ NextAttempt(t) \/ SnapshotUnbridged(t)
    PROVE  FeedInv' /\ UNCHANGED <<head, published>>
<1> USE DEF FeedInv
<1>1. /\ LoopFree
      /\ UNCHANGED <<head, emitted, stream, book, lastId, draining, published>>
  BY DEF BeginResync, FetchFails, NextAttempt, SnapshotUnbridged, exchangeVars, bookVars
<1>2. MaxAttempts \in Nat \ {0} /\ 0 \in Ids
  BY BoundsAssumption DEF Ids
<1>3. /\ state' \in {"UNSYNCED", "BUFFERING", "SYNCED", "RESYNC_REQUIRED"}
      /\ buffer' = <<>> \/ (buffer' = buffer /\ state' = state)
      /\ state' = "SYNCED" => state = "SYNCED"
  BY DEF TypeOK, BeginResync, FetchFails, NextAttempt, SnapshotUnbridged, AttemptFails, StartBuffering
<1>4. PICK u \in TaskStates :
          /\ u.pc # "draining"
          /\ u.pc = "sleeping" => u.attempt < MaxAttempts
          /\ task' = [task EXCEPT ![t] = u]
  <2>1. /\ task[t] \in TaskStates
        /\ task[t].attempt \in 0 .. MaxAttempts
        /\ task[t].snap \in Ids
    BY DEF TypeOK, TaskStates
  <2>2. CASE BeginResync(t)
    <3> DEFINE u == [pc |-> "fetching", attempt |-> 1, snap |-> 0]
    <3>1. task' = [task EXCEPT ![t] = u]
      BY <2>2 DEF BeginResync
    <3>2. 1 \in 0 .. MaxAttempts
      BY <1>2
    <3>3. u \in TaskStates /\ u.pc = "fetching"
      BY <1>2, <3>2 DEF TaskStates
    <3> QED
      BY <3>1, <3>3
  <2>3. CASE FetchFails(t) \/ SnapshotUnbridged(t)
    <3>1. CASE task[t].attempt < MaxAttempts
      <4>1. task' = [task EXCEPT ![t] = [task[t] EXCEPT !.pc = "sleeping"]]
        BY <2>1, <2>3, <3>1 DEF FetchFails, SnapshotUnbridged, AttemptFails, TypeOK, TaskStates
      <4>2. /\ [task[t] EXCEPT !.pc = "sleeping"] \in TaskStates
            /\ [task[t] EXCEPT !.pc = "sleeping"].pc # "draining"
            /\ [task[t] EXCEPT !.pc = "sleeping"].attempt < MaxAttempts
        BY <2>1, <3>1 DEF TaskStates
      <4> QED
        BY <4>1, <4>2
    <3>2. CASE ~(task[t].attempt < MaxAttempts)
      <4>1. task' = [task EXCEPT ![t] = NoTask]
        BY <2>3, <3>2 DEF FetchFails, SnapshotUnbridged, AttemptFails
      <4>2. NoTask \in TaskStates /\ NoTask.pc = "idle"
        BY <1>2 DEF NoTask, TaskStates
      <4> QED
        BY <4>1, <4>2
    <3> QED
      BY <3>1, <3>2
  <2>4. CASE NextAttempt(t)
    <3> DEFINE u == [pc |-> "fetching", attempt |-> task[t].attempt + 1, snap |-> 0]
    <3>1. task' = [task EXCEPT ![t] = u]
      BY <2>4 DEF NextAttempt
    <3>2. task[t].attempt < MaxAttempts
      BY <2>4 DEF NextAttempt, Retrying
    <3>3. task[t].attempt + 1 \in 0 .. MaxAttempts
      BY <1>2, <2>1, <3>2
    <3>4. u \in TaskStates /\ u.pc = "fetching"
      BY <1>2, <3>3 DEF TaskStates
    <3> QED
      BY <3>1, <3>4
  <2> QED
    BY <2>2, <2>3, <2>4
<1>5. /\ task' \in [Tasks -> TaskStates]
      /\ \A v \in Tasks : task'[v].pc # "draining"
      /\ Retrying'
  BY <1>1, <1>4 DEF TypeOK, LoopFree, Retrying
<1>6. head' \in Ids /\ emitted <= head'
  BY <1>1 DEF TypeOK, InOrder
<1> QED
  BY <1>1, <1>3, <1>5, <1>6, FeedQuiet

\* The exchange answers a request, with its book of this moment.
LEMMA FeedAnswer ==
    ASSUME FeedInv, NEW t \in Tasks, AnswerSnapshot(t)
    PROVE  FeedInv' /\ UNCHANGED <<head, published>>
<1> USE DEF FeedInv
<1>1. /\ task[t].pc = "fetching"
      /\ UNCHANGED <<head, emitted, stream, state, buffer, book, lastId, draining, published>>
  BY DEF AnswerSnapshot, exchangeVars, syncVars, bookVars
<1> DEFINE u == [pc |-> "answered", attempt |-> task[t].attempt, snap |-> head]
<1>2. task' = [task EXCEPT ![t] = u] /\ u \in TaskStates
  <2>1. task[t] \in TaskStates /\ head \in Ids
    BY DEF TypeOK
  <2>2. task' = [task EXCEPT ![t] = u]
    BY DEF AnswerSnapshot
  <2>3. u \in TaskStates
    BY <2>1 DEF TaskStates
  <2> QED
    BY <2>2, <2>3
<1>3. TypeOK'
  BY <1>1, <1>2 DEF TypeOK
<1>4. \A v \in Tasks :
          /\ task'[v].pc = "draining" => task[v].pc = "draining"
          /\ task'[v].pc = "sleeping" => task'[v] = task[v]
  BY <1>1, <1>2 DEF TypeOK
<1>5. Sent' /\ InOrder' /\ Fresh' /\ BufferedOnly' /\ SyncedBookIsExact'
  BY <1>1 DEF Sent, InOrder, Fresh, Before, BufferedOnly, SyncedBookIsExact
<1>6. Drainer'
  BY <1>1, <1>4 DEF Drainer
<1>7. Retrying'
  BY <1>1, <1>4 DEF Retrying
<1> QED
  BY <1>1, <1>3, <1>5, <1>6, <1>7

\* The snapshot with the event that bridges it.
LEMMA FeedBridged ==
    ASSUME FeedInv, NEW t \in Tasks, NEW i \in DOMAIN buffer, SnapshotBridged(t, i)
    PROVE  FeedInv' /\ UNCHANGED <<head, published>>
<1> DEFINE e == buffer[i]
           snap == task[t].snap
<1> USE DEF FeedInv
<1>1. /\ LoopFree /\ e.first <= snap /\ snap <= e.last
      /\ book' = Applied(BookAt[snap], e) /\ lastId' = e.last
      /\ state' = "SYNCED" /\ buffer' = <<>>
      /\ draining' = SubSeq(buffer, i + 1, Len(buffer))
      /\ task' = [task EXCEPT ![t].pc = "draining"]
      /\ UNCHANGED <<head, emitted, stream, published>>
  BY DEF SnapshotBridged, Bridges, exchangeVars
<1>2. buffer \in Seq(Events) /\ e \in In(buffer)
  BY DEF TypeOK, In
<1>3. /\ e \in Events /\ snap \in Ids
      /\ e.first \in Nat /\ e.last \in Ids /\ e.last \in Nat /\ snap \in Nat
      /\ published.id \in Nat /\ emitted \in Nat
  <2>1. e \in Events /\ snap \in Ids
    BY <1>2 DEF TypeOK, TaskStates
  <2> QED
    BY <2>1, BoundsAssumption DEF TypeOK, Events, Ids
<1>4. /\ 1 <= e.first /\ e.first <= e.last /\ e.last <= emitted
      /\ published.id < e.first
  BY <1>2 DEF Sent, Fresh
<1>5. \A d \in In(stream) : e.last < d.first
  BY <1>2 DEF InOrder, Before
<1> HIDE DEF e, snap
<1>6. book' = BookAt[e.last] /\ book' \in Books
  BY <1>1, <1>3, <1>4, AppliedExact, BookAssumption
<1>7. draining' \in Seq(Events) /\ In(draining') \subseteq In(buffer)
  BY <1>1, <1>2, RestHolds
<1>8. In(buffer') = {}
  BY <1>1 DEF In
<1>9. task' \in [Tasks -> TaskStates]
  BY <1>1 DEF TypeOK, TaskStates
<1>10. TypeOK'
  BY <1>1, <1>3, <1>6, <1>7, <1>9 DEF TypeOK
<1>11. Sent' /\ InOrder' /\ Fresh'
  BY <1>1, <1>7, <1>8 DEF Sent, InOrder, Fresh, Before
<1>12. \A v \in Tasks : task'[v].pc = "sleeping" => task'[v] = task[v]
  BY <1>1 DEF TypeOK
<1>13. Drainer'
  <2>1. published.id < e.last
    BY <1>3, <1>4
  <2>2. \A v \in Tasks : task'[v].pc = "draining" => \A w \in Tasks : task'[w].pc = "draining" => w = v
    <3>1. \A v \in Tasks \ {t} : task'[v] = task[v]
      BY <1>1 DEF TypeOK
    <3>2. \A v \in Tasks : task'[v].pc = "draining" => v = t
      BY <1>1, <3>1 DEF LoopFree
    <3> QED
      BY <3>2
  <2>3. /\ state' = "SYNCED" /\ published'.id < lastId' /\ lastId' <= emitted'
        /\ \A d \in In(stream') : lastId' < d.first
    BY <1>1, <1>4, <1>5, <2>1
  <2> QED
    BY <2>2, <2>3 DEF Drainer
<1>14. Retrying' /\ BufferedOnly' /\ SyncedBookIsExact'
  BY <1>1, <1>6, <1>12 DEF Retrying, BufferedOnly, SyncedBookIsExact
<1> QED
  BY <1>1, <1>10, <1>11, <1>13, <1>14

\* One more buffered event, one that follows.
LEMMA FeedDrain ==
    ASSUME FeedInv, NEW t \in Tasks, DrainEvent(t)
    PROVE  FeedInv' /\ UNCHANGED <<head, published>>
<1> DEFINE e == Head(draining)
<1> USE DEF FeedInv
<1>1. /\ task[t].pc = "draining" /\ draining # <<>> /\ e.first - 1 = lastId
      /\ book' = Applied(book, e) /\ lastId' = e.last /\ draining' = Tail(draining)
      /\ UNCHANGED <<head, emitted, stream, state, buffer, task, published>>
  BY DEF DrainEvent, Continues, exchangeVars
<1>2. draining \in Seq(Events)
  BY DEF TypeOK
<1>3. /\ e \in Events /\ e \in In(draining)
      /\ draining' \in Seq(Events) /\ In(draining') \subseteq In(draining)
  BY <1>1, <1>2, HeadAndTail
<1>4. /\ e.first \in Nat /\ e.last \in Ids /\ e.last \in Nat /\ lastId \in Ids /\ lastId \in Nat
      /\ published.id \in Nat /\ emitted \in Nat
  BY <1>3, BoundsAssumption DEF TypeOK, Events, Ids
<1>5. /\ 1 <= e.first /\ e.first <= e.last /\ e.last <= emitted
      /\ \A d \in In(stream) : e.last < d.first
  BY <1>3 DEF Sent, InOrder, Before
<1> HIDE DEF e
<1>6. state = "SYNCED" /\ published.id < lastId /\ book = BookAt[lastId]
  BY <1>1 DEF Drainer, SyncedBookIsExact
<1>7. book' = BookAt[e.last] /\ book' \in Books
  BY <1>1, <1>3, <1>4, <1>5, <1>6, AppliedExact, BookAssumption
<1>8. TypeOK'
  BY <1>1, <1>3, <1>4, <1>7 DEF TypeOK
<1>9. Sent' /\ InOrder' /\ Fresh'
  BY <1>1, <1>3 DEF Sent, InOrder, Fresh, Before
<1>10. published.id < e.last
  BY <1>1, <1>4, <1>5, <1>6
<1>11. Drainer'
  BY <1>1, <1>5, <1>10 DEF Drainer
<1>12. Retrying' /\ BufferedOnly' /\ SyncedBookIsExact'
  BY <1>1, <1>7 DEF Retrying, BufferedOnly, SyncedBookIsExact
<1> QED
  BY <1>1, <1>8, <1>9, <1>11, <1>12

\* A hole among the buffered events: the synchronizer starts over.
LEMMA FeedHole ==
    ASSUME FeedInv, NEW t \in Tasks, DrainFindsGap(t)
    PROVE  FeedInv' /\ UNCHANGED <<head, published>>
<1> USE DEF FeedInv
<1>1. /\ task[t].pc = "draining" /\ draining' = <<>>
      /\ UNCHANGED <<head, emitted, stream, book, lastId, published>>
  BY DEF DrainFindsGap, exchangeVars, bookVars
<1>2. state = "SYNCED" /\ buffer = <<>>
  BY <1>1 DEF Drainer, BufferedOnly
<1>3. /\ state' \in {"RESYNC_REQUIRED", "BUFFERING"} /\ buffer' = <<>>
  BY <1>2 DEF DrainFindsGap, AttemptFails, StartBuffering
<1>4. PICK u \in TaskStates :
          /\ u.pc # "draining"
          /\ u.pc = "sleeping" => u.attempt < MaxAttempts
          /\ task' = [task EXCEPT ![t] = u]
  <2>1. task[t] \in TaskStates
    BY DEF TypeOK
  <2>2. CASE task[t].attempt < MaxAttempts
    <3>1. task' = [task EXCEPT ![t] = [task[t] EXCEPT !.pc = "sleeping"]]
      BY <2>1, <2>2 DEF DrainFindsGap, AttemptFails, TypeOK, TaskStates
    <3>2. /\ [task[t] EXCEPT !.pc = "sleeping"] \in TaskStates
          /\ [task[t] EXCEPT !.pc = "sleeping"].pc # "draining"
          /\ [task[t] EXCEPT !.pc = "sleeping"].attempt < MaxAttempts
      BY <2>1, <2>2 DEF TaskStates
    <3> QED
      BY <3>1, <3>2
  <2>3. CASE ~(task[t].attempt < MaxAttempts)
    <3>1. task' = [task EXCEPT ![t] = NoTask]
      BY <2>3 DEF DrainFindsGap, AttemptFails
    <3>2. NoTask \in TaskStates /\ NoTask.pc = "idle"
      BY BoundsAssumption DEF NoTask, TaskStates, Ids
    <3> QED
      BY <3>1, <3>2
  <2> QED
    BY <2>2, <2>3
<1>5. /\ task' \in [Tasks -> TaskStates]
      /\ \A v \in Tasks : task'[v].pc # "draining"
      /\ Retrying'
  BY <1>1, <1>4 DEF TypeOK, Drainer, Retrying
<1>6. TypeOK'
  BY <1>1, <1>3, <1>5 DEF TypeOK
<1>7. In(draining') = {} /\ In(buffer') = {}
  BY <1>1, <1>3 DEF In
<1>8. Sent' /\ InOrder' /\ Fresh'
  BY <1>1, <1>7 DEF Sent, InOrder, Fresh, Before
<1>9. Drainer' /\ BufferedOnly' /\ SyncedBookIsExact'
  BY <1>3, <1>5 DEF Drainer, BufferedOnly, SyncedBookIsExact
<1> QED
  BY <1>1, <1>5, <1>6, <1>8, <1>9

\* The drained book is published.
LEMMA FeedSucceeds ==
    ASSUME FeedInv, NEW t \in Tasks, ResyncSucceeds(t)
    PROVE  FeedInv' /\ Feed!Next
<1> USE DEF FeedInv
<1>1. /\ task[t].pc = "draining"
      /\ published' = [id |-> lastId, book |-> book]
      /\ task' = [task EXCEPT ![t] = NoTask]
      /\ UNCHANGED <<head, emitted, stream, state, buffer, book, lastId, draining>>
  BY DEF ResyncSucceeds, Publish, exchangeVars, syncVars, bookVars
<1>2. /\ state = "SYNCED" /\ published.id < lastId /\ lastId <= emitted /\ emitted <= head
      /\ \A d \in In(stream) : lastId < d.first
      /\ book = BookAt[lastId] /\ buffer = <<>>
  BY <1>1 DEF Drainer, InOrder, SyncedBookIsExact, BufferedOnly
<1>3. NoTask \in TaskStates /\ NoTask.pc = "idle"
  BY BoundsAssumption DEF NoTask, TaskStates, Ids
<1>4. /\ task' \in [Tasks -> TaskStates]
      /\ \A v \in Tasks : task'[v].pc # "draining"
      /\ Retrying'
  BY <1>1, <1>3 DEF TypeOK, Drainer, Retrying
<1>5. TypeOK'
  BY <1>1, <1>4 DEF TypeOK
<1>6. published'.id = lastId /\ In(buffer') = {}
  BY <1>1, <1>2 DEF In
<1>7. Sent' /\ InOrder' /\ Fresh'
  BY <1>1, <1>2, <1>6 DEF Sent, InOrder, Fresh, Before
<1>8. Drainer' /\ BufferedOnly' /\ SyncedBookIsExact'
  BY <1>1, <1>2, <1>4 DEF Drainer, BufferedOnly, SyncedBookIsExact
<1>9. lastId \in 1 .. MaxId
  <2>1. lastId \in Nat /\ published.id \in Nat /\ lastId <= MaxId
    BY BoundsAssumption DEF TypeOK, Ids
  <2> QED
    BY <1>2, <2>1, BoundsAssumption
<1>10. Feed!Publish(lastId)
  <2>1. lastId \in Nat /\ emitted \in Nat /\ head \in Nat
    BY BoundsAssumption DEF TypeOK, Ids
  <2> QED
    BY <1>1, <1>2, <2>1 DEF Feed!Publish
<1> QED
  BY <1>4, <1>5, <1>7, <1>8, <1>9, <1>10 DEF Feed!Next

----------------------------------------------------------------------------

\* Every step keeps the invariant, and is a step of the feed or a stutter.
LEMMA FeedStep ==
    ASSUME FeedInv, [Next]_vars
    PROVE  FeedInv' /\ [Feed!Next]_<<head, published>>
<1>1. CASE Update
  <2>1. /\ head < MaxId /\ head' = head + 1
        /\ UNCHANGED <<emitted, stream, state, buffer, book, lastId, task, draining, published>>
    BY <1>1 DEF Update, syncVars, bookVars
  <2>2. head \in Nat /\ emitted \in Nat /\ head' \in Ids /\ emitted <= head'
    BY <2>1, BoundsAssumption DEF FeedInv, TypeOK, InOrder, Ids
  <2>3. FeedInv'
    BY <2>1, <2>2 DEF FeedInv, TypeOK, Sent, InOrder, Before, Fresh, Drainer, Retrying,
                      BufferedOnly, SyncedBookIsExact
  <2>4. Feed!Update
    BY <2>1 DEF Feed!Update
  <2> QED
    BY <2>3, <2>4 DEF Feed!Next
<1>2. CASE \E lost \in BOOLEAN : EmitEvent(lost)
  <2>1. UNCHANGED <<head, published>>
    BY <1>2 DEF EmitEvent
  <2> QED
    BY <1>2, <2>1, FeedEmit
<1>3. CASE Dispatch
  <2>1. head' = head
    BY <1>3 DEF Dispatch, BufferDelta, IgnoreDelta, ApplyDelta, DetectGap, ScheduleAgain,
                TakeEvent, exchangeVars
  <2> QED
    BY <1>3, <2>1, FeedDispatch
<1>4. ASSUME NEW t \in Tasks, Resync(t)
      PROVE  FeedInv' /\ [Feed!Next]_<<head, published>>
  <2>1. CASE BeginResync(t) \/ FetchFails(t) \/ NextAttempt(t) \/ SnapshotUnbridged(t)
    BY <2>1, FeedWaiting
  <2>2. CASE AnswerSnapshot(t)
    BY <2>2, FeedAnswer
  <2>3. CASE \E i \in DOMAIN buffer : SnapshotBridged(t, i)
    BY <2>3, FeedBridged
  <2>4. CASE DrainEvent(t)
    BY <2>4, FeedDrain
  <2>5. CASE DrainFindsGap(t)
    BY <2>5, FeedHole
  <2>6. CASE ResyncSucceeds(t)
    BY <2>6, FeedSucceeds
  <2> QED
    BY <1>4, <2>1, <2>2, <2>3, <2>4, <2>5, <2>6 DEF Resync
<1>5. CASE UNCHANGED vars
  <2>1. UNCHANGED <<head, emitted, stream, state, buffer, book, lastId, task, draining, published>>
    BY <1>5 DEF vars, exchangeVars, syncVars, bookVars
  <2> QED
    BY <2>1 DEF FeedInv, TypeOK, Sent, InOrder, Before, Fresh, Drainer, Retrying,
                BufferedOnly, SyncedBookIsExact
<1> QED
  BY <1>1, <1>2, <1>3, <1>4, <1>5 DEF Next

\* The inductive invariant: what the queues and the synchronizer may hold
\* while _resync tasks, the dispatch loop and losses interleave.
THEOREM FeedInvariant == Spec => []FeedInv
<1>1. Init => FeedInv
  BY FeedInit
<1>2. FeedInv /\ [Next]_vars => FeedInv'
  BY FeedStep
<1> QED
  BY <1>1, <1>2, PTL DEF Spec

\* Type correctness, with the attempts of every task within their limit.
THEOREM TypeCorrect == Spec => []TypeOK
<1>1. FeedInv => TypeOK
  BY DEF FeedInv
<1> QED
  BY <1>1, FeedInvariant, PTL

\* "Never applies a delta blindly": a SYNCED book is the exchange's book at
\* its update id, whatever is lost and however many tasks resynchronise.
THEOREM SyncedIsExact == Spec => []SyncedBookIsExact
<1>1. FeedInv => SyncedBookIsExact
  BY DEF FeedInv
<1> QED
  BY <1>1, FeedInvariant, PTL

\* The published books are those of OrderBookFeed: exact, and only forward.
THEOREM ImplementsTheFeed == Spec => ImplementsFeed
<1>1. Init => Feed!Init
  BY DEF Init, Feed!Init
<1>2. FeedInv /\ [Next]_vars => [Feed!Next]_<<head, published>>
  BY FeedStep
<1> QED
  BY <1>1, <1>2, FeedInvariant, PTL DEF Spec, ImplementsFeed, Feed!Spec

==============================================================================
