------------------------------ MODULE FlowRuntime ------------------------------
(***************************************************************************)
(* FlowRealtimeBootstrap (app/flow/realtime_bootstrap.py): the background  *)
(* tasks that keep the flow engine fed, on one event loop.                 *)
(*                                                                         *)
(* Per transport a task runs WebSocketTransport.run                        *)
(* (app/market_data/realtime/transport.py): connect, subscribe to the      *)
(* desired streams again, read until the connection is gone.  Per stream a *)
(* forwarder subscribes once and then moves events into the engine; the    *)
(* open-interest poller and the refresh of the funding intervals are tasks *)
(* of their own.  start() and stop() are called from outside, and every    *)
(* await of theirs lets the tasks run.                                     *)
(*                                                                         *)
(* The order book stream starts tasks of its own and keeps no reference to *)
(* them: a _resync when order_book() has subscribed, and one whenever its  *)
(* dispatch loop meets a gap (OrderBookSync).  stop() knows of none.       *)
(***************************************************************************)
EXTENDS Integers, Sequences, Functions

CONSTANTS
    Carriers,      \* the transports, in the order in which stop() closes them
    StreamsOf,     \* transport -> the streams that come over it
    OtherTasks,    \* the poller and the funding refresh
    Poller,        \* the poller among them
    Book,          \* the stream of the order book
    NoConnection,  \* _connection is None
    MaxResyncs,    \* bound: _resync tasks at once
    MaxDrops,      \* bound: connections lost
    MaxRefusals,   \* bound: connection attempts refused
    MaxFaults      \* bound: errors nobody expects

Transports == Range(Carriers)
Streams == UNION {StreamsOf[t] : t \in Transports}
CarrierOf(s) == CHOOSE t \in Transports : s \in StreamsOf[t]
\* The tasks the bootstrap keeps a reference to.
RuntimeTasks == Transports \cup Streams \cup OtherTasks
Consumers == Streams \cup (OtherTasks \ {Poller})

ASSUME FlowRuntimeAssumption ==
    /\ Poller \in OtherTasks /\ Book \in Streams
    /\ {MaxDrops, MaxRefusals, MaxFaults} \subseteq Nat /\ MaxResyncs \in Nat \ {0}
    /\ Carriers \in Seq(Transports)
    /\ \A t, u \in Transports : t # u => StreamsOf[t] \cap StreamsOf[u] = {}
    /\ Transports \cap Streams = {} /\ OtherTasks \cap (Transports \cup Streams) = {}

VARIABLES
    health,       \* the state of every task, CANCELLED until it ends for that reason
    line,         \* where run() of a transport is
    connection,   \* its _connection: the streams the exchange was asked for on it
    dead,         \* the transports whose connection is gone and not yet closed
    desired,      \* _desired_streams
    resent,       \* what _resubscribe_all is sending
    ending,       \* the transports whose _stop_event is set
    dispatch,     \* the task that dispatches the messages of a transport
    forwarder,    \* where a forwarder is
    resyncs,      \* the _resync tasks at work, none of them in _tasks
    started,      \* _started
    start, stop,  \* where the calls of start() and stop() are
    at,           \* the transport stop() is at
    drops, refusals, faults

linkVars == <<line, connection, dead, desired, resent>>
callVars == <<started, start, stop, at, ending, dispatch>>
runtimeVars == <<health, linkVars, callVars, forwarder, resyncs, drops, refusals, faults>>

Runs(x) == health[x] = "RUNNING"
IsDone(x) == health[x] \notin {"RUNNING", "CANCELLED"}

----------------------------------------------------------------------------
\* WebSocketTransport.run

At(t, where) == Runs(t) /\ line[t] = where

\* The loop goes round, unless stop() was called.
GoRound(t) ==
    IF t \in ending
    THEN line' = [line EXCEPT ![t] = "ended"] /\ health' = [health EXCEPT ![t] = "STOPPED"]
    ELSE line' = [line EXCEPT ![t] = "connecting"] /\ UNCHANGED health

\* A failed attempt is followed by a delay.
ConnectionRefused(t) ==
    /\ At(t, "connecting")
    /\ refusals < MaxRefusals
    /\ refusals' = refusals + 1
    /\ line' = [line EXCEPT ![t] = "waiting"]
    /\ UNCHANGED <<health, connection, dead, desired, resent, callVars, forwarder, resyncs, drops, faults>>

DelayEnds(t) ==
    /\ At(t, "waiting")
    /\ GoRound(t)
    /\ UNCHANGED <<connection, dead, desired, resent, callVars, forwarder, resyncs, drops, refusals, faults>>

\* Wrong: a connection starts with the streams of the one before it.
ResendNothing(t) == {}

\* _resubscribe_all sends what is desired now.
Resend(t) == desired[t]

\* The connection is there for everybody, and what is desired is being sent;
\* nothing awaits when nothing is.
Connects(t) ==
    /\ At(t, "connecting")
    /\ connection' = [connection EXCEPT ![t] = {}]
    /\ resent' = [resent EXCEPT ![t] = Resend(t)]
    /\ line' = [line EXCEPT ![t] = IF Resend(t) = {} THEN "reading" ELSE "subscribing"]
    /\ UNCHANGED <<health, dead, desired, callVars, forwarder, resyncs, drops, refusals, faults>>

Resubscribed(t) ==
    /\ At(t, "subscribing")
    /\ t \notin dead
    /\ connection[t] # NoConnection
    /\ connection' = [connection EXCEPT ![t] = @ \cup resent[t]]
    /\ resent' = [resent EXCEPT ![t] = {}]
    /\ line' = [line EXCEPT ![t] = "reading"]
    /\ UNCHANGED <<health, dead, desired, callVars, forwarder, resyncs, drops, refusals, faults>>

\* stop() has taken the connection away while the streams were sent: the
\* assertion of _read_loop fails.
ReadsNothing(t) ==
    /\ At(t, "subscribing")
    /\ connection[t] = NoConnection
    /\ line' = [line EXCEPT ![t] = "ended"]
    /\ health' = [health EXCEPT ![t] = "FAILED"]
    /\ UNCHANGED <<connection, dead, desired, resent, callVars, forwarder, resyncs, drops, refusals, faults>>

\* The connection is gone: the send raises or the loop ends, and _safe_close
\* takes the connection away.
LosesConnection(t) ==
    /\ At(t, "subscribing") \/ At(t, "reading")
    /\ t \in dead \/ connection[t] = NoConnection
    /\ connection' = [connection EXCEPT ![t] = NoConnection]
    /\ dead' = dead \ {t}
    /\ resent' = [resent EXCEPT ![t] = {}]
    /\ line' = [line EXCEPT ![t] = "closing"]
    /\ UNCHANGED <<health, desired, callVars, forwarder, resyncs, drops, refusals, faults>>

Closed(t) ==
    /\ At(t, "closing")
    /\ GoRound(t)
    /\ UNCHANGED <<connection, dead, desired, resent, callVars, forwarder, resyncs, drops, refusals, faults>>

\* The network or the exchange ends a connection, and with it every send.
ConnectionDrops(t) ==
    /\ connection[t] # NoConnection /\ t \notin dead
    /\ drops < MaxDrops
    /\ drops' = drops + 1
    /\ dead' = dead \cup {t}
    /\ forwarder' = [s \in Streams |->
                       IF s \in StreamsOf[t] /\ forwarder[s] = "sending" THEN "broken" ELSE forwarder[s]]
    /\ UNCHANGED <<health, line, connection, desired, resent, callVars, resyncs, refusals, faults>>

----------------------------------------------------------------------------
\* _forward_*: WebSocketTransport.subscribe, then the events.

\* order_book() starts a _resync when it has subscribed.
ResyncWhenTaken(s) ==
    resyncs' = IF s = Book /\ forwarder'[s] = "taking" THEN resyncs + 1 ELSE resyncs

Subscribe(s) ==
    LET t == CarrierOf(s)
    IN  /\ Runs(s) /\ forwarder[s] = "created"
        /\ desired' = [desired EXCEPT ![t] = @ \cup {s}]
        /\ forwarder' = [forwarder EXCEPT ![s] =
                           CASE s \in desired[t] \/ connection[t] = NoConnection -> "taking"
                             [] t \in dead -> "broken"
                             [] OTHER -> "sending"]
        /\ ResyncWhenTaken(s)
        /\ UNCHANGED <<health, line, connection, dead, resent, callVars, drops, refusals, faults>>

Sent(s) ==
    LET t == CarrierOf(s)
    IN  /\ Runs(s) /\ forwarder[s] = "sending"
        /\ connection' = [connection EXCEPT ![t] = IF @ = NoConnection THEN @ ELSE @ \cup {s}]
        /\ forwarder' = [forwarder EXCEPT ![s] = "taking"]
        /\ ResyncWhenTaken(s)
        /\ UNCHANGED <<health, line, dead, desired, resent, callVars, drops, refusals, faults>>

\* subscribe() does not catch what a send on a lost connection raises.
SendFails(s) ==
    /\ Runs(s) /\ forwarder[s] = "broken"
    /\ health' = [health EXCEPT ![s] = "FAILED"]
    /\ UNCHANGED <<linkVars, callVars, forwarder, resyncs, drops, refusals, faults>>

\* An error nobody expects ends a task; a transport closes its connection.
TaskFails(x) ==
    /\ Runs(x)
    /\ faults < MaxFaults
    /\ faults' = faults + 1
    /\ health' = [health EXCEPT ![x] = "FAILED"]
    /\ connection' = [t \in Transports |-> IF t = x THEN NoConnection ELSE connection[t]]
    /\ dead' = dead \ {x}
    /\ forwarder' = [s \in Streams |->
                       IF CarrierOf(s) = x /\ forwarder[s] = "sending" THEN "broken" ELSE forwarder[s]]
    /\ UNCHANGED <<line, desired, resent, callVars, resyncs, drops, refusals>>

\* The loop of a stream ends the same way; nobody looks at it until stop().
DispatchFails(t) ==
    /\ dispatch[t] = "ON"
    /\ faults < MaxFaults
    /\ faults' = faults + 1
    /\ dispatch' = [dispatch EXCEPT ![t] = "FAILED"]
    /\ UNCHANGED <<health, linkVars, started, start, stop, at, ending, forwarder, resyncs, drops, refusals>>

\* Wrong: whoever has subscribed looks for gaps.
FindGapAlways ==
    /\ forwarder[Book] = "taking"
    /\ resyncs < MaxResyncs
    /\ resyncs' = resyncs + 1
    /\ UNCHANGED <<health, linkVars, callVars, forwarder, drops, refusals, faults>>

\* The dispatch loop of the book meets a gap, and starts another _resync.
FindGap ==
    /\ forwarder[Book] = "taking"
    /\ dispatch[CarrierOf(Book)] = "ON"
    /\ resyncs < MaxResyncs
    /\ resyncs' = resyncs + 1
    /\ UNCHANGED <<health, linkVars, callVars, forwarder, drops, refusals, faults>>

\* A _resync has published a book, used up its attempts, or ended with an error
\* that nobody retrieves.
ResyncEnds ==
    /\ resyncs > 0
    /\ resyncs' = resyncs - 1
    /\ UNCHANGED <<health, linkVars, callVars, forwarder, drops, refusals, faults>>

CancelledTaskEnds(x) ==
    /\ health[x] = "CANCELLED"
    /\ health' = [health EXCEPT ![x] = "STOPPED"]
    /\ UNCHANGED <<linkVars, callVars, forwarder, resyncs, drops, refusals, faults>>

----------------------------------------------------------------------------
\* start()

StartTasks ==
    /\ start = "NEW"
    /\ started' = TRUE
    /\ start' = "CHECKPOINT"
    /\ health' = [x \in RuntimeTasks |-> "RUNNING"]
    /\ dispatch' = [t \in Transports |-> "ON"]
    /\ UNCHANGED <<linkVars, stop, at, ending, forwarder, resyncs, drops, refusals, faults>>

\* stop() is called by one caller, and goes on in the steps below.
CallStop == started' = FALSE /\ stop' = "POLLER"

\* The checkpoint of start(): a task that has failed by now ends the start,
\* with a stop(), which returns at once when somebody else has called it.
PassCheckpoint ==
    /\ start = "CHECKPOINT"
    /\ IF \A x \in RuntimeTasks : health[x] # "FAILED" THEN start' = "DONE" /\ UNCHANGED <<started, stop>>
       ELSE IF started THEN start' = "STOPPING" /\ CallStop
       ELSE start' = "RAISED" /\ UNCHANGED <<started, stop>>
    /\ UNCHANGED <<health, linkVars, at, ending, dispatch, forwarder, resyncs, drops, refusals, faults>>

StartRaises ==
    /\ start = "STOPPING"
    /\ stop \in {"RETURNED", "RAISED"}
    /\ start' = "RAISED"
    /\ UNCHANGED <<health, linkVars, started, stop, at, ending, dispatch, forwarder, resyncs, drops, refusals, faults>>

----------------------------------------------------------------------------
\* stop()

\* Wrong: a task swallows the cancellation while it sends.
CancelledUnlessSending(xs) ==
    [x \in RuntimeTasks |-> IF x \in xs /\ Runs(x) /\ ~(x \in Streams /\ forwarder[x] = "sending")
                           THEN "CANCELLED" ELSE health[x]]

Cancelled(xs) == [x \in RuntimeTasks |-> IF x \in xs /\ Runs(x) THEN "CANCELLED" ELSE health[x]]

\* shutdown() of the composer, also while start() is at its checkpoint.
CallShutdown ==
    /\ started
    /\ CallStop
    /\ UNCHANGED <<health, linkVars, start, at, ending, dispatch, forwarder, resyncs, drops, refusals, faults>>

StopPoller ==
    /\ stop = "POLLER"
    /\ health' = Cancelled({Poller})
    /\ stop' = "POLLER_ENDS"
    /\ UNCHANGED <<linkVars, started, start, at, ending, dispatch, forwarder, resyncs, drops, refusals, faults>>

StopConsumers ==
    /\ stop = "POLLER_ENDS"
    /\ IsDone(Poller)
    /\ health' = Cancelled(Consumers)
    /\ stop' = "CONSUMERS_END"
    /\ UNCHANGED <<linkVars, started, start, at, ending, dispatch, forwarder, resyncs, drops, refusals, faults>>

\* The streams end their dispatch one after the other: a loop that has failed
\* is awaited again, and its error leaves stop().
StopStreams ==
    LET failed == {i \in DOMAIN Carriers : dispatch[Carriers[i]] = "FAILED"}
        ends(t) == \E i \in DOMAIN Carriers : Carriers[i] = t /\ \A j \in failed : i < j
    IN  /\ stop = "CONSUMERS_END"
        /\ \A x \in Consumers : IsDone(x)
        /\ dispatch' = [t \in Transports |-> IF ends(t) THEN "OFF" ELSE dispatch[t]]
        /\ stop' = IF failed = {} THEN "CLOSE" ELSE "RAISED"
        /\ UNCHANGED <<health, linkVars, started, start, at, ending, forwarder, resyncs, drops, refusals, faults>>

\* WebSocketTransport.stop: the connection there is now is closed; one that is
\* still being made will be made.
StopTransport ==
    /\ stop = "CLOSE"
    /\ at <= Len(Carriers)
    /\ ending' = ending \cup {Carriers[at]}
    /\ connection' = [connection EXCEPT ![Carriers[at]] = NoConnection]
    /\ dead' = dead \ {Carriers[at]}
    /\ at' = at + 1
    /\ UNCHANGED <<health, line, desired, resent, started, start, stop, dispatch, forwarder, resyncs, drops, refusals, faults>>

JoinTransports ==
    /\ stop = "CLOSE"
    /\ at > Len(Carriers)
    /\ stop' = "JOIN" /\ at' = 1
    /\ UNCHANGED <<health, linkVars, started, start, ending, dispatch, forwarder, resyncs, drops, refusals, faults>>

\* Wrong: a task that has not ended in five seconds is left alone.
LeaveAlone(t) == UNCHANGED <<health, connection, dead>>

\* wait_for cancels it, and its finally closes the connection.
GiveUpOn(t) ==
    /\ health' = [health EXCEPT ![t] = "STOPPED"]
    /\ connection' = [connection EXCEPT ![t] = NoConnection]
    /\ dead' = dead \ {t}

\* A transport whose task has ended is not awaited.
JoinTransport ==
    /\ stop = "JOIN"
    /\ at <= Len(Carriers)
    /\ IF IsDone(Carriers[at]) THEN at' = at + 1 /\ UNCHANGED stop ELSE stop' = "AWAIT" /\ UNCHANGED at
    /\ UNCHANGED <<health, linkVars, started, start, ending, dispatch, forwarder, resyncs, drops, refusals, faults>>

\* One that is awaited ends, or does not within five seconds; what it raises
\* leaves stop().
AwaitTransport ==
    /\ stop = "AWAIT"
    /\ LET t == Carriers[at]
       IN  /\ IF health[t] = "FAILED" THEN stop' = "RAISED" /\ UNCHANGED at ELSE stop' = "JOIN" /\ at' = at + 1
           /\ IF IsDone(t) THEN UNCHANGED <<health, connection, dead>> ELSE GiveUpOn(t)
    /\ UNCHANGED <<line, desired, resent, started, start, ending, dispatch, forwarder, resyncs, drops, refusals, faults>>

StopReturns ==
    /\ stop = "JOIN"
    /\ at > Len(Carriers)
    /\ stop' = "RETURNED"
    /\ UNCHANGED <<health, linkVars, started, start, at, ending, dispatch, forwarder, resyncs, drops, refusals, faults>>

----------------------------------------------------------------------------

RuntimeInit ==
    /\ health = [x \in RuntimeTasks |-> "STOPPED"]
    /\ line = [t \in Transports |-> "connecting"]
    /\ connection = [t \in Transports |-> NoConnection]
    /\ dead = {} /\ ending = {}
    /\ dispatch = [t \in Transports |-> "OFF"]
    /\ desired = [t \in Transports |-> {}]
    /\ resent = [t \in Transports |-> {}]
    /\ forwarder = [s \in Streams |-> "created"] /\ resyncs = 0
    /\ started = FALSE /\ start = "NEW" /\ stop = "NONE" /\ at = 1
    /\ drops = 0 /\ refusals = 0 /\ faults = 0

RunTransport(t) ==
    \/ ConnectionRefused(t) \/ DelayEnds(t) \/ Connects(t)
    \/ Resubscribed(t) \/ ReadsNothing(t) \/ LosesConnection(t) \/ Closed(t)

RunForwarder(s) == Subscribe(s) \/ Sent(s) \/ SendFails(s)

RunStart == PassCheckpoint \/ StartRaises

RunStop ==
    \/ StopPoller \/ StopConsumers \/ StopStreams
    \/ StopTransport \/ JoinTransports \/ JoinTransport \/ AwaitTransport \/ StopReturns

RuntimeNext ==
    \/ \E t \in Transports : RunTransport(t) \/ ConnectionDrops(t) \/ DispatchFails(t)
    \/ \E s \in Streams : RunForwarder(s)
    \/ FindGap \/ ResyncEnds
    \/ \E x \in RuntimeTasks : TaskFails(x) \/ CancelledTaskEnds(x)
    \/ StartTasks \/ RunStart
    \/ CallShutdown \/ RunStop

RuntimeSpec == RuntimeInit /\ [][RuntimeNext]_runtimeVars

\* The loop runs every task that can go on; a connection attempt and a send have
\* an end.  Nothing makes anybody call stop(), and no task has to fail.
RuntimeFairness ==
    /\ \A t \in Transports : WF_runtimeVars(RunTransport(t))
    /\ \A s \in Streams : WF_runtimeVars(RunForwarder(s))
    /\ WF_runtimeVars(\E x \in RuntimeTasks : CancelledTaskEnds(x))
    /\ WF_runtimeVars(RunStart)
    /\ WF_runtimeVars(RunStop)

----------------------------------------------------------------------------
\* Properties.

\* What the exchange sends on s reaches the engine.
IsFed(s) ==
    LET t == CarrierOf(s)
    IN  /\ Runs(s) /\ forwarder[s] = "taking"
        /\ dispatch[t] = "ON" /\ At(t, "reading") /\ t \notin dead
        /\ connection[t] # NoConnection /\ s \in connection[t]

\* Of what the bootstrap keeps nothing runs.
NothingRuns ==
    /\ \A x \in RuntimeTasks : IsDone(x)
    /\ \A t \in Transports : dispatch[t] = "OFF" /\ connection[t] = NoConnection

(***************************************************************************)
(* When stop() has returned, no task the bootstrap keeps, no dispatch and  *)
(* no connection is left, also one that was still being made when its      *)
(* transport was stopped, when start() stops itself, and when a task has   *)
(* failed; nor does any of it come back (realtime_bootstrap.py:352-395,    *)
(* open_interest_poller.py:190-205, transport.py:132-206).  The _resync    *)
(* tasks that are at work by then are left (provider.py:246-253, 267, 303),*)
(* and none is added to them.                                              *)
(***************************************************************************)
StopLeavesOnlyResyncs ==
    /\ [](stop = "RETURNED" => NothingRuns)
    /\ [][stop = "RETURNED" => resyncs' <= resyncs]_runtimeVars

(***************************************************************************)
(* A stream is fed again after every loss: whichever of its own            *)
(* subscription, the connection, its loss and the resubscription of the    *)
(* transport comes first (transport.py:132-206, provider.py:168-189),      *)
(* unless stop() is called, or one of the three tasks on its way has       *)
(* ended.  And stop() ends, whatever the tasks are at when it is called:   *)
(* no wait of it is for a task that waits for it                           *)
(* (realtime_bootstrap.py:352-395).                                        *)
(***************************************************************************)
FedUntilStopped ==
    /\ \A s \in Streams :
         Runs(s) ~> (IsFed(s) \/ ~Runs(s) \/ ~Runs(CarrierOf(s)) \/ dispatch[CarrierOf(s)] # "ON" \/ ~started)
    /\ stop # "NONE" ~> stop \in {"RETURNED", "RAISED"}

(***************************************************************************)
(* "an already-FAILED task must never be re-awaited here (that would       *)
(* re-raise its exception out of stop())" (realtime_bootstrap.py:359-362): *)
(* a dispatch that has failed does not end stop(), which has transports    *)
(* still to close.                                                         *)
(***************************************************************************)
FailedDispatchIsNotRaised ==
    stop = "RAISED" => \A t \in Transports : dispatch[t] # "FAILED"

==============================================================================
