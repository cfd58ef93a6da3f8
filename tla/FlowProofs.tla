------------------------------- MODULE FlowProofs -------------------------------
(***************************************************************************)
(* The flow side.  What stop() of FlowRuntime leaves behind, for every set *)
(* of transports, streams and other tasks, and any number of lost          *)
(* connections, refusals and errors: nothing but the _resync tasks that    *)
(* are at work when it returns.  And that a result of FlowFeatures is true *)
(* of what happened by as_of, for every windows, bands, capacities and     *)
(* events.                                                                 *)
(***************************************************************************)
EXTENDS FlowRuntime, FlowFeatures, FiniteSums, SequenceTheorems, TLAPS

-----------------------------------------------------------------------------
(* The invariant: what has ended, closed or been taken by each stage of     *)
(* stop().                                                                  *)

Unconnected == {"connecting", "waiting", "closing"}

RuntimeTypes ==
    /\ health \in [RuntimeTasks -> {"STOPPED", "RUNNING", "CANCELLED", "FAILED"}]
    /\ DOMAIN line = Transports
    /\ DOMAIN connection = Transports
    /\ dispatch \in [Transports -> {"OFF", "ON", "FAILED"}]
    /\ at \in Nat \ {0}
    /\ started \in BOOLEAN
    /\ stop \in {"NONE", "POLLER", "POLLER_ENDS", "CONSUMERS_END", "CLOSE",
                 "JOIN", "AWAIT", "RETURNED", "RAISED"}

\* stop() is called once, after start().
CalledOnce ==
    /\ started => stop = "NONE"
    /\ start = "NEW" => stop = "NONE" /\ ~started

\* The task of a transport is not cancelled (stop() gives it time), and one that
\* has ended, or is connecting or between two connections, has no connection.
Disconnected ==
    \A t \in Transports :
        /\ health[t] # "CANCELLED"
        /\ IsDone(t) \/ line[t] \in Unconnected => connection[t] = NoConnection

\* The tasks and the dispatch end in the order of the stages.
TasksEnd ==
    /\ stop \in {"CONSUMERS_END", "CLOSE", "JOIN", "AWAIT", "RETURNED"} => IsDone(Poller)
    /\ stop \in {"CLOSE", "JOIN", "AWAIT", "RETURNED"} =>
          /\ \A x \in Consumers : IsDone(x)
          /\ \A t \in Transports : dispatch[t] = "OFF"

\* A transport that was joined has ended.
TransportsEnd ==
    /\ stop = "AWAIT" => at <= Len(Carriers)
    /\ stop \in {"JOIN", "AWAIT"} => \A i \in 1..Len(Carriers) : i < at => IsDone(Carriers[i])
    /\ stop = "RETURNED" => \A t \in Transports : IsDone(t)

StopInv == RuntimeTypes /\ CalledOnce /\ Disconnected /\ TasksEnd /\ TransportsEnd

-----------------------------------------------------------------------------
(* The tasks.                                                               *)

LEMMA TasksAreApart ==
    /\ Transports \subseteq RuntimeTasks /\ Streams \subseteq RuntimeTasks
    /\ Consumers \subseteq RuntimeTasks /\ Poller \in RuntimeTasks
    /\ RuntimeTasks = Transports \cup Consumers \cup {Poller}
    /\ \A t \in Transports : t \notin Consumers /\ t # Poller
    /\ Poller \notin Consumers
BY FlowRuntimeAssumption DEF RuntimeTasks, Consumers

LEMMA CarriersAreTransports ==
    /\ Len(Carriers) \in Nat
    /\ DOMAIN Carriers = 1..Len(Carriers)
    /\ \A i \in 1..Len(Carriers) : Carriers[i] \in Transports
    /\ \A t \in Transports : \E i \in 1..Len(Carriers) : Carriers[i] = t
<1>1. Carriers \in Seq(Transports)
  BY FlowRuntimeAssumption
<1>2. Len(Carriers) \in Nat /\ DOMAIN Carriers = 1..Len(Carriers)
  BY <1>1
<1> QED
  BY <1>2 DEF Transports, Range

\* start() and stop() stay where they are.
CallsWait ==
    stop' = stop /\ at' = at /\ started' = started /\ start' = start /\ dispatch' = dispatch

LEMMA StopInit == RuntimeInit => StopInv
<1> SUFFICES ASSUME RuntimeInit PROVE StopInv
  OBVIOUS
<1>1. RuntimeTypes
  <2>1. health \in [RuntimeTasks -> {"STOPPED", "RUNNING", "CANCELLED", "FAILED"}]
    BY DEF RuntimeInit
  <2>2. dispatch \in [Transports -> {"OFF", "ON", "FAILED"}]
    BY DEF RuntimeInit
  <2>3. DOMAIN line = Transports /\ DOMAIN connection = Transports
    BY DEF RuntimeInit
  <2>4. at = 1 /\ started = FALSE /\ stop = "NONE"
    BY Zenon DEF RuntimeInit
  <2>5. at \in Nat \ {0}
    BY <2>4
  <2>6. started \in BOOLEAN
    BY <2>4, Zenon
  <2> QED
    BY <2>1, <2>2, <2>3, <2>4, <2>5, <2>6 DEF RuntimeTypes
<1>2. CalledOnce /\ TasksEnd /\ TransportsEnd
  BY DEF RuntimeInit, CalledOnce, TasksEnd, TransportsEnd
<1>3. Disconnected
  <2>1. \A t \in Transports : health[t] = "STOPPED" /\ connection[t] = NoConnection
    BY TasksAreApart DEF RuntimeInit
  <2> QED
    BY <2>1 DEF Disconnected
<1> QED
  BY <1>1, <1>2, <1>3 DEF StopInv

\* The steps that leave stop() where it is keep the invariant when a task that
\* has ended stays so, a failed one failed, and nothing reopens a connection or
\* a dispatch of its own that has ended.
LEMMA QuietStep ==
    ASSUME StopInv, RuntimeTypes',
           stop' = stop, at' = at, started' = started, start' = start \/ start' # "NEW",
           \A x \in RuntimeTasks : health[x] \in {"STOPPED", "FAILED"} => health'[x] = health[x],
           \A t \in Transports : dispatch[t] \in {"OFF", "FAILED"} => dispatch'[t] = dispatch[t],
           Disconnected'
    PROVE  StopInv'
<1>1. \A x \in RuntimeTasks : IsDone(x) => IsDone(x)'
  BY DEF IsDone, StopInv, RuntimeTypes
<1>2. CalledOnce'
  BY DEF StopInv, CalledOnce
<1>3. TasksEnd'
  BY <1>1, TasksAreApart DEF StopInv, TasksEnd
<1>4. TransportsEnd'
  BY <1>1, TasksAreApart, CarriersAreTransports DEF StopInv, TransportsEnd
<1> QED
  BY <1>2, <1>3, <1>4 DEF StopInv

LEMMA TransportStep ==
    ASSUME StopInv, NEW t \in Transports, RunTransport(t)
    PROVE  StopInv'
<1>0. t \in RuntimeTasks /\ RuntimeTypes
  BY TasksAreApart DEF StopInv
<1>1. Runs(t) /\ CallsWait
  BY DEF CallsWait, callVars, RunTransport, ConnectionRefused, DelayEnds, Connects, Resubscribed, ReadsNothing,
     LosesConnection, Closed, At
<1>2. health' = health \/ \E h \in {"STOPPED", "FAILED"} : health' = [health EXCEPT ![t] = h]
  BY DEF RunTransport, ConnectionRefused, DelayEnds, Connects, Resubscribed, ReadsNothing,
     LosesConnection, Closed, GoRound
<1>3. health' \in [RuntimeTasks -> {"STOPPED", "RUNNING", "CANCELLED", "FAILED"}]
  BY <1>0, <1>2 DEF RuntimeTypes
<1>4. DOMAIN line' = Transports /\ DOMAIN connection' = Transports
  BY <1>0 DEF RunTransport, ConnectionRefused, DelayEnds, Connects, Resubscribed, ReadsNothing,
     LosesConnection, Closed, GoRound, RuntimeTypes
<1>5. RuntimeTypes'
  BY <1>0, <1>1, <1>3, <1>4 DEF RuntimeTypes, CallsWait
<1>6. \A x \in RuntimeTasks : x # t => health'[x] = health[x]
  BY <1>0, <1>2 DEF RuntimeTypes
<1>7. \A u \in Transports : u # t => line'[u] = line[u] /\ connection'[u] = connection[u]
  BY <1>0 DEF RunTransport, ConnectionRefused, DelayEnds, Connects, Resubscribed, ReadsNothing,
     LosesConnection, Closed, GoRound, RuntimeTypes
<1>8. IsDone(t)' \/ line'[t] \in Unconnected => connection'[t] = NoConnection
  <2>1. connection[t] = NoConnection \/ line[t] \in {"subscribing", "reading"} \/ line[t] \notin Unconnected
    BY DEF StopInv, Disconnected
  <2>2. CASE ConnectionRefused(t) \/ DelayEnds(t) \/ Closed(t)
    <3>1. line[t] \in Unconnected /\ connection' = connection
      BY <2>2 DEF ConnectionRefused, DelayEnds, Closed, At, Unconnected
    <3> QED
      BY <3>1 DEF StopInv, Disconnected
  <2>3. CASE Connects(t) \/ Resubscribed(t)
    <3>1. health' = health /\ line'[t] \in {"reading", "subscribing"}
      BY <1>0, <2>3 DEF Connects, Resubscribed, RuntimeTypes
    <3> QED
      BY <1>1, <3>1 DEF IsDone, Runs, Unconnected
  <2>4. CASE ReadsNothing(t) \/ LosesConnection(t)
    BY <1>0, <2>4 DEF ReadsNothing, LosesConnection, RuntimeTypes
  <2> QED
    BY <2>2, <2>3, <2>4 DEF RunTransport
<1>9. Disconnected'
  BY <1>0, <1>2, <1>6, <1>7, <1>8, TasksAreApart DEF RuntimeTypes, StopInv, Disconnected, IsDone
<1>10. \A x \in RuntimeTasks : health[x] \in {"STOPPED", "FAILED"} => health'[x] = health[x]
  BY <1>1, <1>6 DEF Runs
<1> QED
  BY <1>1, <1>5, <1>9, <1>10, QuietStep DEF CallsWait

LEMMA ForwarderStep ==
    ASSUME StopInv, NEW s \in Streams, RunForwarder(s)
    PROVE  StopInv'
<1>0. s \in RuntimeTasks /\ s \notin Transports /\ RuntimeTypes
  BY TasksAreApart, FlowRuntimeAssumption DEF StopInv
<1>1. Runs(s) /\ CallsWait /\ line' = line
  BY DEF CallsWait, callVars, RunForwarder, Subscribe, Sent, SendFails, linkVars
<1>2. health' = health \/ health' = [health EXCEPT ![s] = "FAILED"]
  BY DEF RunForwarder, Subscribe, Sent, SendFails
<1>3. health' \in [RuntimeTasks -> {"STOPPED", "RUNNING", "CANCELLED", "FAILED"}]
  BY <1>0, <1>2 DEF RuntimeTypes
<1>4. \A x \in RuntimeTasks : x # s => health'[x] = health[x]
  BY <1>0, <1>2 DEF RuntimeTypes
<1>5. /\ DOMAIN connection' = Transports
      /\ \A t \in Transports : connection[t] = NoConnection => connection'[t] = NoConnection
  BY <1>0 DEF RunForwarder, Subscribe, Sent, SendFails, linkVars, RuntimeTypes
<1>6. RuntimeTypes'
  BY <1>0, <1>1, <1>3, <1>5 DEF RuntimeTypes, CallsWait
<1>7. Disconnected'
  BY <1>0, <1>1, <1>4, <1>5, TasksAreApart DEF StopInv, Disconnected, IsDone
<1>8. \A x \in RuntimeTasks : health[x] \in {"STOPPED", "FAILED"} => health'[x] = health[x]
  BY <1>1, <1>4 DEF Runs
<1> QED
  BY <1>1, <1>6, <1>7, <1>8, QuietStep DEF CallsWait

\* What goes wrong outside of the tasks' own steps, a cancellation, and what is
\* none of theirs.
LEMMA FaultStep ==
    ASSUME StopInv,
           \/ \E t \in Transports : ConnectionDrops(t) \/ DispatchFails(t)
           \/ \E x \in RuntimeTasks : TaskFails(x) \/ CancelledTaskEnds(x)
           \/ FindGap \/ ResyncEnds
    PROVE  StopInv'
<1>0. RuntimeTypes
  BY DEF StopInv
<1>1. ASSUME NEW t \in Transports, ConnectionDrops(t)
      PROVE  StopInv'
  <2>1. CallsWait /\ health' = health /\ line' = line /\ connection' = connection
    BY <1>1 DEF CallsWait, callVars, ConnectionDrops
  <2>2. RuntimeTypes' /\ Disconnected'
    BY <1>0, <2>1 DEF StopInv, RuntimeTypes, Disconnected, IsDone, CallsWait
  <2> QED
    BY <2>1, <2>2, QuietStep DEF CallsWait
<1>2. ASSUME NEW t \in Transports, DispatchFails(t)
      PROVE  StopInv'
  <2>1. /\ health' = health /\ line' = line /\ connection' = connection
        /\ started' = started /\ start' = start /\ stop' = stop /\ at' = at
    BY <1>2 DEF DispatchFails, linkVars
  <2>2. dispatch' \in [Transports -> {"OFF", "ON", "FAILED"}]
    BY <1>0, <1>2 DEF DispatchFails, RuntimeTypes
  <2>3. RuntimeTypes' /\ Disconnected'
    BY <1>0, <2>1, <2>2 DEF StopInv, RuntimeTypes, Disconnected, IsDone
  <2>4. \A u \in Transports : dispatch[u] \in {"OFF", "FAILED"} => dispatch'[u] = dispatch[u]
    BY <1>0, <1>2 DEF DispatchFails, RuntimeTypes
  <2> QED
    BY <2>1, <2>3, <2>4, QuietStep
<1>3. ASSUME NEW x \in RuntimeTasks, TaskFails(x)
      PROVE  StopInv'
  <2>1. Runs(x) /\ CallsWait /\ line' = line /\ health' = [health EXCEPT ![x] = "FAILED"]
    BY <1>3 DEF CallsWait, callVars, TaskFails
  <2>2. connection' = [t \in Transports |-> IF t = x THEN NoConnection ELSE connection[t]]
    BY <1>3 DEF TaskFails
  <2>3. health' \in [RuntimeTasks -> {"STOPPED", "RUNNING", "CANCELLED", "FAILED"}]
    BY <1>0, <2>1 DEF RuntimeTypes
  <2>4. \A y \in RuntimeTasks : y # x => health'[y] = health[y]
    BY <1>0, <2>1 DEF RuntimeTypes
  <2>5. RuntimeTypes'
    BY <1>0, <2>1, <2>2, <2>3 DEF RuntimeTypes, CallsWait
  <2>6. Disconnected'
    BY <2>1, <2>2, <2>4, TasksAreApart DEF StopInv, Disconnected, IsDone
  <2>7. \A y \in RuntimeTasks : health[y] \in {"STOPPED", "FAILED"} => health'[y] = health[y]
    BY <2>1, <2>4 DEF Runs
  <2> QED
    BY <2>1, <2>5, <2>6, <2>7, QuietStep DEF CallsWait
<1>4. ASSUME NEW x \in RuntimeTasks, CancelledTaskEnds(x)
      PROVE  StopInv'
  <2>1. CallsWait /\ line' = line /\ connection' = connection
    BY <1>4 DEF CallsWait, callVars, linkVars, CancelledTaskEnds
  <2>2. health[x] = "CANCELLED" /\ health' = [health EXCEPT ![x] = "STOPPED"]
    BY <1>4 DEF CancelledTaskEnds
  <2>3. health' \in [RuntimeTasks -> {"STOPPED", "RUNNING", "CANCELLED", "FAILED"}]
    BY <1>0, <2>2 DEF RuntimeTypes
  <2>4. \A y \in RuntimeTasks : y # x => health'[y] = health[y]
    BY <1>0, <2>2 DEF RuntimeTypes
  <2>5. RuntimeTypes'
    BY <1>0, <2>1, <2>3 DEF RuntimeTypes, CallsWait
  <2>6. x \notin Transports
    BY <2>2 DEF StopInv, Disconnected
  <2>7. Disconnected'
    BY <2>1, <2>4, <2>6, TasksAreApart DEF StopInv, Disconnected, IsDone
  <2>8. \A y \in RuntimeTasks : health[y] \in {"STOPPED", "FAILED"} => health'[y] = health[y]
    BY <2>2, <2>4
  <2> QED
    BY <2>1, <2>5, <2>7, <2>8, QuietStep DEF CallsWait
<1>5. CASE FindGap \/ ResyncEnds
  <2>1. CallsWait /\ health' = health /\ line' = line /\ connection' = connection
    BY <1>5 DEF CallsWait, callVars, linkVars, FindGap, ResyncEnds
  <2>2. RuntimeTypes' /\ Disconnected'
    BY <1>0, <2>1 DEF StopInv, RuntimeTypes, Disconnected, IsDone, CallsWait
  <2> QED
    BY <2>1, <2>2, QuietStep DEF CallsWait
<1> QED
  BY <1>1, <1>2, <1>3, <1>4, <1>5

LEMMA StartStep ==
    ASSUME StopInv, StartTasks \/ RunStart \/ CallShutdown
    PROVE  StopInv'
<1>0. RuntimeTypes
  BY DEF StopInv
<1>1. CASE StartTasks
  <2>1. /\ start = "NEW" /\ start' = "CHECKPOINT" /\ started' = TRUE
        /\ stop' = stop /\ at' = at /\ line' = line /\ connection' = connection
        /\ health' = [x \in RuntimeTasks |-> "RUNNING"]
        /\ dispatch' = [t \in Transports |-> "ON"]
    BY <1>1 DEF StartTasks, linkVars
  <2>2. stop = "NONE"
    BY <2>1 DEF StopInv, CalledOnce
  <2>3. /\ health' \in [RuntimeTasks -> {"STOPPED", "RUNNING", "CANCELLED", "FAILED"}]
        /\ dispatch' \in [Transports -> {"OFF", "ON", "FAILED"}]
    BY <2>1
  <2>4. RuntimeTypes'
    BY <1>0, <2>1, <2>3 DEF RuntimeTypes
  <2>5. CalledOnce' /\ TasksEnd' /\ TransportsEnd'
    BY <2>1, <2>2 DEF CalledOnce, TasksEnd, TransportsEnd
  <2>6. \A t \in Transports : health'[t] = "RUNNING"
    BY <2>1, TasksAreApart
  <2>7. Disconnected'
    BY <2>1, <2>6 DEF StopInv, Disconnected, IsDone
  <2> QED
    BY <2>4, <2>5, <2>7 DEF StopInv
<1>2. CASE ~StartTasks
  <2>1. /\ health' = health /\ line' = line /\ connection' = connection
        /\ at' = at /\ dispatch' = dispatch
    BY <1>2 DEF RunStart, PassCheckpoint, StartRaises, CallShutdown, linkVars
  <2>2. \/ stop' = stop /\ started' = started
        \/ started /\ stop' = "POLLER" /\ started' = FALSE
    BY <1>2 DEF RunStart, PassCheckpoint, StartRaises, CallShutdown, CallStop
  <2>3. start' # "NEW" \/ (start' = start /\ started)
    BY <1>2 DEF RunStart, PassCheckpoint, StartRaises, CallShutdown
  <2>4. RuntimeTypes'
    BY <1>0, <2>1, <2>2 DEF RuntimeTypes
  <2>5. start' # "NEW"
    BY <2>3 DEF StopInv, CalledOnce
  <2>6. CalledOnce'
    BY <2>2, <2>5 DEF StopInv, CalledOnce
  <2>7. Disconnected'
    BY <2>1 DEF StopInv, Disconnected, IsDone
  <2>8. CASE stop' = stop
    BY <2>1, <2>4, <2>6, <2>7, <2>8
       DEF StopInv, TasksEnd, TransportsEnd, IsDone
  <2>9. CASE stop' = "POLLER"
    BY <2>4, <2>6, <2>7, <2>9 DEF StopInv, TasksEnd, TransportsEnd
  <2> QED
    BY <2>2, <2>8, <2>9
<1> QED
  BY <1>1, <1>2

-----------------------------------------------------------------------------
(* The stages of stop().                                                    *)

\* Cancelling a task that runs ends nothing else.
LEMMA CancelStep ==
    ASSUME StopInv, StopPoller \/ StopConsumers
    PROVE  StopInv'
<1>0. RuntimeTypes
  BY DEF StopInv
<1>1. /\ line' = line /\ connection' = connection /\ dispatch' = dispatch
      /\ started' = started /\ start' = start /\ at' = at
      /\ stop \in {"POLLER", "POLLER_ENDS"} /\ stop' \in {"POLLER_ENDS", "CONSUMERS_END"}
      /\ stop' = "CONSUMERS_END" => IsDone(Poller)
  BY DEF StopPoller, StopConsumers, linkVars
<1>2. PICK xs \in SUBSET RuntimeTasks : health' = Cancelled(xs) /\ xs \cap Transports = {}
  BY TasksAreApart DEF StopPoller, StopConsumers
<1>3. health' \in [RuntimeTasks -> {"STOPPED", "RUNNING", "CANCELLED", "FAILED"}]
  BY <1>0, <1>2 DEF Cancelled, RuntimeTypes
<1>4. \A x \in RuntimeTasks : IsDone(x) \/ x \notin xs => health'[x] = health[x]
  BY <1>2 DEF Cancelled, IsDone, Runs
<1>5. RuntimeTypes'
  BY <1>0, <1>1, <1>3 DEF RuntimeTypes
<1>6. CalledOnce'
  BY <1>1 DEF StopInv, CalledOnce
<1>7. Disconnected'
  BY <1>1, <1>2, <1>4, TasksAreApart DEF StopInv, Disconnected, IsDone
<1>8. TasksEnd'
  BY <1>1, <1>4, TasksAreApart DEF TasksEnd, IsDone
<1>9. TransportsEnd'
  BY <1>1 DEF TransportsEnd
<1> QED
  BY <1>5, <1>6, <1>7, <1>8, <1>9 DEF StopInv

\* A dispatch that has failed ends stop(); otherwise every dispatch has ended.
LEMMA StreamsStep ==
    ASSUME StopInv, StopStreams
    PROVE  StopInv'
<1> DEFINE failed == {i \in DOMAIN Carriers : dispatch[Carriers[i]] = "FAILED"}
           ends(t) == \E i \in DOMAIN Carriers : Carriers[i] = t /\ \A j \in failed : i < j
<1>0. RuntimeTypes
  BY DEF StopInv
<1>1. /\ line' = line /\ connection' = connection /\ health' = health
      /\ started' = started /\ start' = start /\ at' = at
      /\ stop = "CONSUMERS_END" /\ \A x \in Consumers : IsDone(x)
  BY DEF StopStreams, linkVars
<1>2. /\ dispatch' = [t \in Transports |-> IF ends(t) THEN "OFF" ELSE dispatch[t]]
      /\ stop' = IF failed = {} THEN "CLOSE" ELSE "RAISED"
  BY DEF StopStreams
<1>3. dispatch' \in [Transports -> {"OFF", "ON", "FAILED"}]
  <2> HIDE DEF ends
  <2> QED
    BY <1>0, <1>2 DEF RuntimeTypes
<1>4. RuntimeTypes'
  <2> HIDE DEF failed
  <2> QED
    BY <1>0, <1>1, <1>2, <1>3 DEF RuntimeTypes
<1>5. CalledOnce'
  BY <1>1 DEF StopInv, CalledOnce
<1>6. Disconnected'
  BY <1>1 DEF StopInv, Disconnected, IsDone
<1>7. CASE failed = {}
  <2>1. \A t \in Transports : ends(t)
    BY <1>7, CarriersAreTransports
  <2>2. stop' = "CLOSE" /\ \A t \in Transports : dispatch'[t] = "OFF"
    <3> HIDE DEF failed, ends
    <3> QED
      BY <1>2, <1>7, <2>1
  <2>3. IsDone(Poller)' /\ \A x \in Consumers : IsDone(x)'
    BY <1>1 DEF StopInv, TasksEnd, IsDone
  <2>4. TasksEnd' /\ TransportsEnd'
    BY <2>2, <2>3 DEF TasksEnd, TransportsEnd
  <2> QED
    BY <1>4, <1>5, <1>6, <2>4 DEF StopInv
<1>8. CASE failed # {}
  <2>1. stop' = "RAISED"
    <3> HIDE DEF failed, ends
    <3> QED
      BY <1>2, <1>8
  <2>2. TasksEnd' /\ TransportsEnd'
    BY <2>1 DEF TasksEnd, TransportsEnd
  <2> QED
    BY <1>4, <1>5, <1>6, <2>2 DEF StopInv
<1> QED
  BY <1>7, <1>8

\* The stages after the dispatch has ended: no task but a transport's changes.
LEMMA TransportStages ==
    ASSUME StopInv,
           StopTransport \/ JoinTransports \/ JoinTransport \/ AwaitTransport \/ StopReturns
    PROVE  StopInv'
<1>0. RuntimeTypes
  BY DEF StopInv
<1>1. /\ line' = line /\ dispatch' = dispatch /\ started' = started /\ start' = start
      /\ stop \in {"CLOSE", "JOIN", "AWAIT"}
  BY DEF StopTransport, JoinTransports, JoinTransport, AwaitTransport, StopReturns, linkVars
<1>2. stop' \in {"CLOSE", "JOIN", "AWAIT", "RETURNED", "RAISED"} /\ at' \in Nat \ {0}
  BY <1>0 DEF StopTransport, JoinTransports, JoinTransport, AwaitTransport, StopReturns,
     RuntimeTypes
<1>3. stop = "AWAIT" => at \in 1..Len(Carriers) /\ Carriers[at] \in Transports
  BY <1>0, CarriersAreTransports DEF StopInv, TransportsEnd, RuntimeTypes
<1>4. /\ DOMAIN connection' = Transports
      /\ \A t \in Transports : connection[t] = NoConnection => connection'[t] = NoConnection
  BY <1>0 DEF StopTransport, JoinTransports, JoinTransport, AwaitTransport, StopReturns,
     GiveUpOn, RuntimeTypes, linkVars
<1>5. \/ health' = health
      \/ /\ stop = "AWAIT" /\ ~IsDone(Carriers[at])
         /\ health' = [health EXCEPT ![Carriers[at]] = "STOPPED"]
         /\ connection' = [connection EXCEPT ![Carriers[at]] = NoConnection]
  BY DEF StopTransport, JoinTransports, JoinTransport, AwaitTransport, StopReturns, GiveUpOn
<1>6. health' \in [RuntimeTasks -> {"STOPPED", "RUNNING", "CANCELLED", "FAILED"}]
  BY <1>0, <1>5 DEF RuntimeTypes
<1>7. \A x \in RuntimeTasks : IsDone(x) => health'[x] = health[x] /\ IsDone(x)'
  BY <1>0, <1>5 DEF RuntimeTypes, IsDone
<1>8. RuntimeTypes'
  BY <1>0, <1>1, <1>2, <1>4, <1>6 DEF RuntimeTypes
<1>9. CalledOnce'
  BY <1>1 DEF StopInv, CalledOnce
<1>10. Disconnected'
  <2> SUFFICES ASSUME NEW t \in Transports
               PROVE  /\ health'[t] # "CANCELLED"
                      /\ IsDone(t)' \/ line'[t] \in Unconnected => connection'[t] = NoConnection
    BY DEF Disconnected
  <2>1. t \in RuntimeTasks /\ health[t] # "CANCELLED"
    BY TasksAreApart DEF StopInv, Disconnected
  <2>2. health'[t] = health[t] \/ (health'[t] = "STOPPED" /\ connection'[t] = NoConnection)
    BY <1>0, <1>3, <1>5, <2>1 DEF RuntimeTypes
  <2> QED
    BY <1>1, <1>4, <2>1, <2>2 DEF StopInv, Disconnected, IsDone
<1>11. TasksEnd'
  BY <1>1, <1>7, TasksAreApart DEF StopInv, TasksEnd
<1>12. TransportsEnd'
  <2>1. stop' = "AWAIT" => at' <= Len(Carriers)
    BY <1>1 DEF StopTransport, JoinTransports, JoinTransport, AwaitTransport, StopReturns
  <2>2. ASSUME stop' \in {"JOIN", "AWAIT"}, NEW i \in 1..Len(Carriers), i < at'
        PROVE  IsDone(Carriers[i])'
    <3>1. \/ at' = 1
          \/ stop \in {"JOIN", "AWAIT"} /\ at' = at
          \/ stop = "JOIN" /\ at' = at + 1 /\ IsDone(Carriers[at])
          \/ stop = "AWAIT" /\ at' = at + 1 /\ health'[Carriers[at]] \in {"STOPPED", "FAILED"}
      <4>1. CASE StopTransport \/ JoinTransports \/ JoinTransport \/ StopReturns
        <5>1. StopTransport => stop = "CLOSE" /\ stop' = stop
          BY DEF StopTransport
        <5>2. StopReturns => stop' = "RETURNED"
          BY DEF StopReturns
        <5>3. JoinTransports => at' = 1
          BY DEF JoinTransports
        <5>4. JoinTransport => stop = "JOIN" /\ (at' = at \/ (at' = at + 1 /\ IsDone(Carriers[at])))
          BY DEF JoinTransport
        <5> QED
          BY <2>2, <4>1, <5>1, <5>2, <5>3, <5>4
      <4>2. CASE AwaitTransport
        <5>1. stop = "AWAIT" /\ at' = at + 1
          BY <2>2, <4>2 DEF AwaitTransport
        <5>2. IsDone(Carriers[at]) \/ health'[Carriers[at]] = "STOPPED"
          BY <1>0, <1>3, <4>2, <5>1, TasksAreApart DEF AwaitTransport, GiveUpOn, RuntimeTypes
        <5>3. IsDone(Carriers[at]) => health'[Carriers[at]] \in {"STOPPED", "FAILED"}
          BY <1>0, <1>3, <1>7, <5>1, TasksAreApart DEF RuntimeTypes, IsDone
        <5> QED
          BY <5>1, <5>2, <5>3
      <4> QED
        BY <4>1, <4>2
    <3>2. Carriers[i] \in RuntimeTasks
      BY CarriersAreTransports, TasksAreApart
    <3>3. i < at \/ (i = at /\ at' = at + 1)
      BY <1>0, <2>2, <3>1, CarriersAreTransports DEF RuntimeTypes
    <3>4. stop \in {"JOIN", "AWAIT"} /\ i < at => IsDone(Carriers[i])
      BY DEF StopInv, TransportsEnd
    <3>5. CASE i < at
      <4>1. stop \in {"JOIN", "AWAIT"}
        BY <1>0, <2>2, <3>1, <3>5, CarriersAreTransports DEF RuntimeTypes
      <4> QED
        BY <1>7, <3>2, <3>4, <3>5, <4>1
    <3>6. CASE i = at /\ at' = at + 1
      <4>1. IsDone(Carriers[i]) \/ health'[Carriers[i]] \in {"STOPPED", "FAILED"}
        BY <1>0, <3>1, <3>6 DEF RuntimeTypes
      <4> QED
        BY <1>7, <3>2, <4>1 DEF IsDone
    <3> QED
      BY <3>3, <3>5, <3>6
  <2>3. ASSUME stop' = "RETURNED"
        PROVE  \A t \in Transports : IsDone(t)'
    <3>1. stop = "JOIN" /\ at > Len(Carriers) /\ health' = health
      BY <1>1, <2>3 DEF StopTransport, JoinTransports, JoinTransport, AwaitTransport, StopReturns
    <3>2. \A i \in 1..Len(Carriers) : IsDone(Carriers[i])
      BY <1>0, <3>1, CarriersAreTransports DEF StopInv, TransportsEnd, RuntimeTypes
    <3> QED
      BY <3>1, <3>2, CarriersAreTransports DEF IsDone
  <2> QED
    BY <2>1, <2>2, <2>3 DEF TransportsEnd
<1> QED
  BY <1>8, <1>9, <1>10, <1>11, <1>12 DEF StopInv

-----------------------------------------------------------------------------
(* The theorem.                                                             *)

LEMMA StopNext == StopInv /\ [RuntimeNext]_runtimeVars => StopInv'
<1> SUFFICES ASSUME StopInv, [RuntimeNext]_runtimeVars PROVE StopInv'
  OBVIOUS
<1>1. CASE UNCHANGED runtimeVars
  BY <1>1 DEF runtimeVars, linkVars, callVars, StopInv, RuntimeTypes, CalledOnce, Disconnected,
     TasksEnd, TransportsEnd, IsDone
<1>2. CASE \E t \in Transports : RunTransport(t)
  BY <1>2, TransportStep
<1>3. CASE \E s \in Streams : RunForwarder(s)
  BY <1>3, ForwarderStep
<1>4. CASE RunStop
  BY <1>4, CancelStep, StreamsStep, TransportStages DEF RunStop
<1> QED
  BY <1>1, <1>2, <1>3, <1>4, FaultStep, StartStep DEF RuntimeNext

\* A _resync is started by the forwarder of the book or by its dispatch.
LEMMA ResyncsStarted ==
    ASSUME resyncs \in Nat, [RuntimeNext]_runtimeVars
    PROVE  /\ resyncs' \in Nat
           /\ \/ resyncs' <= resyncs
              \/ \E s \in Streams : Runs(s)
              \/ \E t \in Transports : dispatch[t] = "ON"
<1>1. CASE UNCHANGED runtimeVars
  BY <1>1 DEF runtimeVars
<1>2. ASSUME NEW t \in Transports, RunTransport(t) \/ ConnectionDrops(t) \/ DispatchFails(t)
      PROVE  resyncs' = resyncs
  BY <1>2 DEF RunTransport, ConnectionRefused, DelayEnds, Connects, Resubscribed, ReadsNothing,
     LosesConnection, Closed, ConnectionDrops, DispatchFails
<1>3. ASSUME NEW s \in Streams, RunForwarder(s)
      PROVE  Runs(s) /\ resyncs' \in Nat
  BY <1>3 DEF RunForwarder, Subscribe, Sent, SendFails, ResyncWhenTaken
<1>4. CASE FindGap
  <2>1. CarrierOf(Book) \in Transports
    BY FlowRuntimeAssumption DEF CarrierOf, Streams
  <2> QED
    BY <1>4, <2>1 DEF FindGap
<1>5. CASE ResyncEnds
  BY <1>5 DEF ResyncEnds
<1>6. ASSUME NEW x \in RuntimeTasks, TaskFails(x) \/ CancelledTaskEnds(x)
      PROVE  resyncs' = resyncs
  BY <1>6 DEF TaskFails, CancelledTaskEnds
<1>7. CASE StartTasks \/ RunStart \/ CallShutdown
  BY <1>7 DEF StartTasks, RunStart, PassCheckpoint, StartRaises, CallShutdown
<1>8. CASE RunStop
  BY <1>8 DEF RunStop, StopPoller, StopConsumers, StopStreams, StopTransport, JoinTransports,
     JoinTransport, AwaitTransport, StopReturns
<1> QED
  BY <1>1, <1>2, <1>3, <1>4, <1>5, <1>6, <1>7, <1>8 DEF RuntimeNext

(***************************************************************************)
(* stop() that has returned has left no task of the bootstrap, no dispatch *)
(* and no connection, and nobody who could start a _resync, for every set  *)
(* of transports, streams and other tasks and whatever the network does    *)
(* (realtime_bootstrap.py:352-395); the _resync tasks that are at work by  *)
(* then are beyond its reach (provider.py:246-253, 267, 303).              *)
(***************************************************************************)
THEOREM StoppedForGood == RuntimeSpec => StopLeavesOnlyResyncs
<1> DEFINE Inv == StopInv /\ resyncs \in Nat
<1>1. RuntimeInit => Inv
  BY StopInit DEF RuntimeInit
<1>2. Inv /\ [RuntimeNext]_runtimeVars => Inv'
  BY StopNext, ResyncsStarted
<1>3. Inv => (stop = "RETURNED" => NothingRuns)
  <2> SUFFICES ASSUME StopInv, stop = "RETURNED" PROVE NothingRuns
    OBVIOUS
  <2>1. \A x \in RuntimeTasks : IsDone(x)
    BY TasksAreApart DEF StopInv, TasksEnd, TransportsEnd
  <2>2. \A t \in Transports : dispatch[t] = "OFF" /\ connection[t] = NoConnection
    BY DEF StopInv, TasksEnd, TransportsEnd, Disconnected
  <2> QED
    BY <2>1, <2>2 DEF NothingRuns
<1>4. Inv /\ [RuntimeNext]_runtimeVars => [stop = "RETURNED" => resyncs' <= resyncs]_runtimeVars
  <2> SUFFICES ASSUME StopInv, resyncs \in Nat, [RuntimeNext]_runtimeVars, stop = "RETURNED"
               PROVE  resyncs' <= resyncs
    OBVIOUS
  <2>1. NothingRuns
    BY <1>3
  <2>2. \A s \in Streams : ~Runs(s)
    BY <2>1, TasksAreApart DEF NothingRuns, IsDone, Runs
  <2>3. \A t \in Transports : dispatch[t] # "ON"
    BY <2>1 DEF NothingRuns
  <2> QED
    BY <2>2, <2>3, ResyncsStarted
<1> QED
  BY <1>1, <1>2, <1>3, <1>4, PTL DEF RuntimeSpec, StopLeavesOnlyResyncs

-----------------------------------------------------------------------------
(* FlowFeatures: what a bounded history tells of all that was recorded.     *)

\* The places W, moved by k.
Moved(W, k) == {i + k : i \in W}

\* The same amounts, k places later, add up to the same.
LEMMA SumShifted ==
    ASSUME NEW S, IsFiniteSet(S), S \subseteq Int, NEW k \in Int, NEW w, NEW v,
           \A x \in S : w[x] \in Int /\ v[x + k] = w[x]
    PROVE  SumOf(v, Moved(S, k)) = SumOf(w, S)
<1> DEFINE T == {s \in SUBSET S : SumOf(v, Moved(s, k)) = SumOf(w, s)}
<1>1. {} \in T
  <2>1. Moved({}, k) = {}
    BY DEF Moved
  <2> QED
    BY <2>1, SumEmpty
<1>2. ASSUME NEW s \in SUBSET S, s # {}, \A x \in s : s \ {x} \in T
      PROVE  s \in T
  <2>1. PICK y \in s : TRUE
    BY <1>2
  <2>2. IsFiniteSet(s)
    BY FS_Subset
  <2>3. IsFiniteSet(Moved(s, k))
    <3> DEFINE f == [x \in s |-> x + k]
    <3>1. f \in Surjection(s, Moved(s, k))
      BY DEF Surjection, Moved
    <3> QED
      BY <2>2, <3>1, FS_Surjection
  <2>4. SumOf(w, s) = w[y] + SumOf(w, s \ {y})
    BY <2>2, SumRemove
  <2>5. SumOf(v, Moved(s, k)) = v[y + k] + SumOf(v, Moved(s, k) \ {y + k})
    <3>1. y + k \in Moved(s, k) /\ \A x \in Moved(s, k) : v[x] \in Int
      BY DEF Moved
    <3> QED
      BY <2>3, <3>1, SumRemove
  <2>6. Moved(s, k) \ {y + k} = Moved(s \ {y}, k)
    BY DEF Moved
  <2>7. SumOf(v, Moved(s \ {y}, k)) = SumOf(w, s \ {y})
    BY <1>2
  <2> QED
    BY <2>4, <2>5, <2>6, <2>7
<1>3. S \in T
  <2> HIDE DEF T
  <2> QED
    BY <1>1, <1>2, SubsetInduction
<1> QED
  BY <1>3

-----------------------------------------------------------------------------
\* A window ends by as_of.
LEMMA WindowEnds ==
    ASSUME NEW t \in Nat, NEW d \in Nat \ {0}
    PROVE  /\ WindowEnd(t, d) \in Nat /\ WindowStart(t, d) \in Int
           /\ WindowStart(t, d) < WindowEnd(t, d) /\ WindowEnd(t, d) <= t
BY DEF WindowEnd, WindowStart

-----------------------------------------------------------------------------
\* What has been recorded, in the order of its times; a steady feed has no two
\* events of one time.
InOrderOfTime(s) ==
    /\ \A i \in DOMAIN s : s[i].at \in Int
    /\ \A i, j \in DOMAIN s : i < j => s[i].at <= s[j].at

Steady(s) == \A i, j \in DOMAIN s : i < j => s[i].at < s[j].at

\* h is the end of s, from the place k on.
IsEnd(h, s, k) ==
    /\ k \in Nat /\ k <= Len(s) /\ Len(h) = Len(s) - k
    /\ \A i \in 1..(Len(s) - k) : h[i] = s[i + k]

\* p is the beginning of s, with all that happened by t.
IsBeginning(p, s, t) ==
    /\ Len(p) \in 0..Len(s)
    /\ \A i \in 1..Len(p) : p[i] = s[i]
    /\ \A i \in 1..Len(s) : s[i].at <= t => i <= Len(p)

\* A history is the end of its feed, all of it when nothing was dropped.
LEMMA HistoryIsEnd ==
    ASSUME NEW k \in FlowKinds, NEW R, feed[k] \in Seq(R)
    PROVE  /\ History(k) \in Seq(R)
           /\ \E c \in Nat :
                /\ IsEnd(History(k), feed[k], c)
                /\ ~HasEvicted(k) => c = 0
                /\ HasEvicted(k) => Len(History(k)) > 0
<1> DEFINE n == Len(feed[k])
           cap == FlowCapacity[k]
           m == Min({n, cap})
<1>1. n \in Nat /\ cap \in Nat \ {0}
  BY FlowAssumption
<1>2. m \in {n, cap} /\ m <= n /\ m <= cap
  <2>1. {n, cap} \subseteq Nat /\ {n, cap} # {}
    BY <1>1
  <2>2. Min({n, cap}) \in {n, cap} /\ \A x \in {n, cap} : Min({n, cap}) <= x
    BY <2>1, LeastOf
  <2> QED
    BY <2>2
<1>3. History(k) = SubSeq(feed[k], n - m + 1, n)
  BY DEF History
<1>4. HasEvicted(k) <=> n > cap
  BY DEF HasEvicted
<1> HIDE DEF m, cap
<1>5. History(k) \in Seq(R) /\ Len(History(k)) = m /\ \A i \in 1..m : History(k)[i] = feed[k][i + (n - m)]
  <2>1. n - m + 1 \in 1..(n + 1) /\ n \in (n - m)..n /\ n - (n - m + 1) + 1 = m /\ m \in Nat
    BY <1>1, <1>2
  <2>2. \A i \in (n - m + 1)..n : feed[k][i] \in R
    BY <1>1, <1>2
  <2>3. n - m + 1 \in Int
    BY <1>1, <1>2
  <2>4. /\ SubSeq(feed[k], n - m + 1, n) \in Seq(R)
        /\ Len(SubSeq(feed[k], n - m + 1, n)) = IF n - m + 1 <= n THEN n - (n - m + 1) + 1 ELSE 0
        /\ \A i \in 1..(n - (n - m + 1) + 1) : SubSeq(feed[k], n - m + 1, n)[i] = feed[k][n - m + 1 + i - 1]
    BY <1>1, <2>2, <2>3, SubSeqProperties
  <2>5. Len(History(k)) = m
    BY <1>1, <1>2, <1>3, <2>1, <2>4
  <2>6. \A i \in 1..m : n - m + 1 + i - 1 = i + (n - m)
    BY <1>1, <2>1
  <2> QED
    BY <1>3, <2>1, <2>4, <2>5, <2>6
<1>6. IsEnd(History(k), feed[k], n - m)
  <2>1. n - m \in Nat /\ n - m <= n /\ n - (n - m) = m
    BY <1>1, <1>2
  <2> QED
    BY <1>5, <2>1 DEF IsEnd
<1> QED
  BY <1>1, <1>2, <1>4, <1>5, <1>6

\* What is known of a feed is its beginning.
LEMMA KnownIsBeginning ==
    ASSUME NEW k \in FlowKinds, NEW R, feed[k] \in Seq(R), NEW t, flow.asOf = t
    PROVE  Known(k) \in Seq(R) /\ IsBeginning(Known(k), feed[k], t)
<1> DEFINE S == {0} \cup {i \in DOMAIN feed[k] : feed[k][i].at <= t}
           n == Len(feed[k])
           m == Max(S)
<1>1. n \in Nat /\ DOMAIN feed[k] = 1..n
  OBVIOUS
<1>2. m \in S /\ \A y \in S : y <= m
  <2>1. S \subseteq 0..n /\ S # {}
    BY <1>1
  <2> HIDE DEF S
  <2> QED
    BY <1>1, <2>1, GreatestUpTo
<1>3. Known(k) = SubSeq(feed[k], 1, m)
  BY DEF Known
<1>4. m \in 0..n /\ \A i \in 1..n : feed[k][i].at <= t => i <= m
  BY <1>1, <1>2
<1> HIDE DEF m, S
<1>5. Known(k) \in Seq(R) /\ Len(Known(k)) = m /\ \A i \in 1..m : Known(k)[i] = feed[k][i]
  BY <1>1, <1>3, <1>4
<1> QED
  BY <1>1, <1>4, <1>5 DEF IsBeginning

\* The latest of a steady feed is the last that is not too late.
LEMMA LatestIs ==
    ASSUME NEW R, NEW s \in Seq(R), InOrderOfTime(s), Steady(s), NEW c \in Int,
           NEW x \in DOMAIN s, s[x].at <= c, \A j \in DOMAIN s : s[j].at <= c => j <= x
    PROVE  LatestAtOrBefore(s, c) = x
<1> DEFINE candidates == {i \in DOMAIN s : s[i].at <= c}
           S == {i \in candidates : \A j \in candidates : s[j].at <= s[i].at}
<1>1. S = {x}
  <2>1. x \in S
    BY DEF InOrderOfTime
  <2>2. ASSUME NEW i \in S PROVE i = x
    BY <2>1 DEF InOrderOfTime, Steady
  <2> QED
    BY <2>1, <2>2
<1>2. Min({x}) = x
  BY LeastIs
<1>3. candidates # {}
  OBVIOUS
<1>4. LatestAtOrBefore(s, c) = Min(S)
  BY <1>3 DEF LatestAtOrBefore
<1> QED
  BY <1>1, <1>2, <1>4

\* The latest event at or before a time, when there is one, is the last of those that are.
LEMMA LatestFound ==
    ASSUME NEW R, NEW s \in Seq(R), InOrderOfTime(s), Steady(s), NEW c \in Int,
           LatestAtOrBefore(s, c) # 0
    PROVE  /\ LatestAtOrBefore(s, c) \in DOMAIN s
           /\ s[LatestAtOrBefore(s, c)].at <= c
           /\ \A j \in DOMAIN s : s[j].at <= c => j <= LatestAtOrBefore(s, c)
<1> DEFINE candidates == {i \in DOMAIN s : s[i].at <= c}
           x == Max(candidates)
<1>1. candidates # {}
  BY DEF LatestAtOrBefore
<1>2. x \in candidates /\ \A y \in candidates : y <= x
  <2>1. candidates \subseteq 0..Len(s) /\ Len(s) \in Nat
    OBVIOUS
  <2> HIDE DEF candidates
  <2> QED
    BY <1>1, <2>1, GreatestUpTo
<1> HIDE DEF x
<1>3. LatestAtOrBefore(s, c) = x
  BY <1>2, LatestIs
<1> QED
  BY <1>2, <1>3

-----------------------------------------------------------------------------
\* What a history and what is known of the same feed have in common.

\* h is an end and p the beginning, up to t, of one feed s.
Shares(h, p, s, k, t) ==
    /\ IsEnd(h, s, k)
    /\ IsBeginning(p, s, t)
    /\ InOrderOfTime(s)

\* A history and a beginning of its feed are in the order of time, as the feed is.
LEMMA PartsInOrder ==
    ASSUME NEW R, NEW s \in Seq(R), NEW h \in Seq(R), NEW p \in Seq(R), NEW k, NEW t,
           Shares(h, p, s, k, t)
    PROVE  /\ InOrderOfTime(h) /\ InOrderOfTime(p)
           /\ Steady(s) => Steady(h) /\ Steady(p)
<1>1. /\ DOMAIN h = 1..(Len(s) - k) /\ Len(s) \in Nat /\ k \in Nat
      /\ \A i \in DOMAIN h : h[i] = s[i + k] /\ i + k \in DOMAIN s
  <2>1. /\ DOMAIN h = 1..(Len(s) - k) /\ Len(s) \in Nat /\ k \in Nat /\ DOMAIN s = 1..Len(s)
        /\ \A i \in 1..(Len(s) - k) : h[i] = s[i + k]
    BY DEF Shares, IsEnd
  <2>2. \A i \in 1..(Len(s) - k) : i + k \in 1..Len(s)
    BY <2>1
  <2> QED
    BY <2>1, <2>2
<1>2. \A i \in DOMAIN p : p[i] = s[i] /\ i \in DOMAIN s
  BY DEF Shares, IsBeginning
<1>3. InOrderOfTime(h)
  <2>1. ASSUME NEW i \in DOMAIN h PROVE h[i].at \in Int
    BY <1>1 DEF Shares, InOrderOfTime
  <2>2. ASSUME NEW i \in DOMAIN h, NEW j \in DOMAIN h, i < j PROVE h[i].at <= h[j].at
    <3>1. i + k < j + k /\ i + k \in DOMAIN s /\ j + k \in DOMAIN s /\ h[i] = s[i + k] /\ h[j] = s[j + k]
      BY <1>1, <2>2
    <3> QED
      BY <3>1 DEF Shares, InOrderOfTime
  <2> QED
    BY <2>1, <2>2 DEF InOrderOfTime
<1>4. InOrderOfTime(p)
  BY <1>2 DEF Shares, InOrderOfTime
<1>5. Steady(s) => Steady(h)
  BY <1>1 DEF Steady
<1>6. Steady(s) => Steady(p)
  BY <1>2 DEF Steady
<1> QED
  BY <1>3, <1>4, <1>5, <1>6

\* A steady history that has an observation by a time has the latest one.
LEMMA SameLatest ==
    ASSUME NEW R, NEW s \in Seq(R), NEW h \in Seq(R), NEW p \in Seq(R), NEW k, NEW t \in Int,
           Shares(h, p, s, k, t), Steady(s), NEW c \in Int, c <= t, LatestAtOrBefore(h, c) # 0
    PROVE  /\ LatestAtOrBefore(h, c) \in Nat \ {0} /\ k \in Nat
           /\ LatestAtOrBefore(p, c) = LatestAtOrBefore(h, c) + k
           /\ p[LatestAtOrBefore(p, c)] = h[LatestAtOrBefore(h, c)]
           /\ h[LatestAtOrBefore(h, c)].at <= c
<1> DEFINE l == LatestAtOrBefore(h, c)
<1>1. /\ DOMAIN h = 1..(Len(s) - k) /\ Len(s) \in Nat /\ k \in Nat /\ k <= Len(s)
      /\ \A i \in 1..(Len(s) - k) : h[i] = s[i + k]
  BY DEF Shares, IsEnd
<1>2. /\ DOMAIN p = 1..Len(p) /\ Len(p) \in 0..Len(s)
      /\ \A i \in 1..Len(p) : p[i] = s[i]
      /\ \A i \in 1..Len(s) : s[i].at <= t => i <= Len(p)
  BY DEF Shares, IsBeginning
<1>3. InOrderOfTime(h) /\ InOrderOfTime(p) /\ Steady(h) /\ Steady(p)
  BY PartsInOrder
<1>4. l \in DOMAIN h /\ h[l].at <= c /\ \A j \in DOMAIN h : h[j].at <= c => j <= l
  BY <1>3, LatestFound
<1> HIDE DEF l
<1>5. l + k \in 1..Len(s) /\ s[l + k] = h[l]
  BY <1>1, <1>4
<1>6. \A i \in 1..Len(s) : s[i].at \in Int
  BY DEF Shares, InOrderOfTime
<1>7. l + k \in DOMAIN p /\ p[l + k] = h[l]
  BY <1>2, <1>4, <1>5, <1>6
<1>8. ASSUME NEW j \in DOMAIN p, p[j].at <= c PROVE j <= l + k
  <2>1. CASE j <= k
    BY <1>1, <1>2, <1>4, <2>1
  <2>2. CASE j > k
    <3>1. j - k \in DOMAIN h /\ h[j - k] = p[j]
      BY <1>1, <1>2, <2>2
    <3> QED
      BY <1>1, <1>2, <1>4, <1>8, <3>1
  <2> QED
    BY <1>1, <1>2, <2>1, <2>2
<1>9. LatestAtOrBefore(p, c) = l + k
  BY <1>3, <1>4, <1>7, <1>8, LatestIs
<1>10. l \in Nat \ {0}
  BY <1>1, <1>4
<1> QED
  BY <1>1, <1>4, <1>7, <1>9, <1>10 DEF l

\* What happened by a time happened by a later one.
LEMMA EarlierLatest ==
    ASSUME NEW R, NEW s \in Seq(R), NEW h \in Seq(R), NEW p \in Seq(R), NEW k, NEW t,
           Shares(h, p, s, k, t), NEW c \in Int, NEW e \in Int, c <= e, LatestAtOrBefore(h, c) # 0
    PROVE  LatestAtOrBefore(h, e) # 0
<1> DEFINE candidates == {i \in DOMAIN h : h[i].at <= e}
           S == {i \in candidates : \A j \in candidates : h[j].at <= h[i].at}
<1>1. InOrderOfTime(h)
  BY PartsInOrder
<1>2. PICK i \in DOMAIN h : h[i].at <= c
  BY DEF LatestAtOrBefore
<1>3. i \in candidates
  BY <1>1, <1>2 DEF InOrderOfTime
<1>4. candidates \subseteq 0..Len(h) /\ Len(h) \in Nat
  OBVIOUS
<1>5. PICK l \in candidates : \A y \in candidates : y <= l
  <2> HIDE DEF candidates
  <2> QED
    BY <1>3, <1>4, GreatestUpTo
<1>6. l \in S
  BY <1>1, <1>5 DEF InOrderOfTime
<1>7. S \subseteq Nat \ {0}
  BY <1>4
<1>8. Min(S) \in S
  <2> HIDE DEF S
  <2>1. S \subseteq Nat /\ S # {}
    BY <1>6, <1>7
  <2> QED
    BY <2>1, LeastOf
<1>9. LatestAtOrBefore(h, e) = Min(S)
  BY <1>3 DEF LatestAtOrBefore
<1> QED
  BY <1>7, <1>8, <1>9

\* A window of a history that is not truncated is the whole window.
LEMMA SameWindow ==
    ASSUME NEW R, NEW s \in Seq(R), NEW h \in Seq(R), NEW p \in Seq(R), NEW k, NEW t \in Nat,
           Shares(h, p, s, k, t), NEW d \in Nat \ {0},
           NEW evicted \in BOOLEAN, ~evicted => k = 0, evicted => Len(h) > 0,
           ~Truncated(h, evicted, t, d)
    PROVE  /\ k \in Nat
           /\ SelectWindow(p, t, d) = Moved(SelectWindow(h, t, d), k)
           /\ \A i \in SelectWindow(h, t, d) : i \in Nat /\ i \in DOMAIN h /\ i + k \in DOMAIN p /\ p[i + k] = h[i]
<1> DEFINE from == WindowStart(t, d)
           to == WindowEnd(t, d)
<1>1. /\ DOMAIN h = 1..(Len(s) - k) /\ Len(s) \in Nat /\ k \in Nat /\ k <= Len(s)
      /\ \A i \in 1..(Len(s) - k) : h[i] = s[i + k]
  BY DEF Shares, IsEnd
<1>2. /\ DOMAIN p = 1..Len(p) /\ Len(p) \in 0..Len(s)
      /\ \A i \in 1..Len(p) : p[i] = s[i]
      /\ \A i \in 1..Len(s) : s[i].at <= t => i <= Len(p)
  BY DEF Shares, IsBeginning
<1>3. /\ \A i \in 1..Len(s) : s[i].at \in Int
      /\ \A i, j \in 1..Len(s) : i < j => s[i].at <= s[j].at
  BY DEF Shares, InOrderOfTime
<1>4. to \in Nat /\ from \in Int /\ from < to /\ to <= t
  BY WindowEnds
<1>5. /\ SelectWindow(h, t, d) = {i \in DOMAIN h : from < h[i].at /\ h[i].at <= to}
      /\ SelectWindow(p, t, d) = {i \in DOMAIN p : from < p[i].at /\ p[i].at <= to}
  BY DEF SelectWindow
<1> HIDE DEF from, to
<1>6. ASSUME NEW i \in SelectWindow(h, t, d)
      PROVE  i \in Nat /\ i \in DOMAIN h /\ i + k \in DOMAIN p /\ p[i + k] = h[i] /\ i + k \in SelectWindow(p, t, d)
  <2>1. i \in 1..(Len(s) - k) /\ h[i] = s[i + k] /\ i + k \in 1..Len(s) /\ from < h[i].at /\ h[i].at <= to
    BY <1>1, <1>5
  <2>2. s[i + k].at <= t
    BY <1>3, <1>4, <2>1
  <2>3. i + k \in 1..Len(p)
    BY <1>2, <2>1, <2>2
  <2> QED
    BY <1>1, <1>2, <1>5, <2>1, <2>3
<1>7. k = 0 \/ \E j \in 1..(Len(s) - k) : h[j].at <= from
  <2> SUFFICES ASSUME k # 0 PROVE \E j \in 1..(Len(s) - k) : h[j].at <= from
    OBVIOUS
  <2>1. evicted /\ h # <<>>
    OBVIOUS
  <2>2. ~(Min({h[i].at : i \in DOMAIN h}) > from)
    BY <2>1 DEF Truncated, from
  <2> SUFFICES ASSUME \A j \in 1..(Len(s) - k) : h[j].at > from PROVE FALSE
    BY <1>1, <1>3, <1>4
  <2>3. \A j \in 1..(Len(s) - k) : h[j].at \in Int /\ h[1].at <= h[j].at
    <3> SUFFICES ASSUME NEW j \in 1..(Len(s) - k) PROVE h[j].at \in Int /\ h[1].at <= h[j].at
      OBVIOUS
    <3>1. 1 \in DOMAIN h /\ j \in DOMAIN h /\ (j = 1 \/ 1 < j)
      BY <1>1
    <3>2. InOrderOfTime(h)
      BY PartsInOrder
    <3> QED
      BY <3>1, <3>2 DEF InOrderOfTime
  <2>4. 1 \in 1..(Len(s) - k)
    BY <1>1, <2>1
  <2>5. {h[i].at : i \in DOMAIN h} \subseteq Int
    BY <1>1, <2>3
  <2>6. h[1].at \in {h[i].at : i \in DOMAIN h} /\ \A y \in {h[i].at : i \in DOMAIN h} : h[1].at <= y
    BY <1>1, <2>3, <2>4
  <2>7. Min({h[i].at : i \in DOMAIN h}) = h[1].at
    BY <2>5, <2>6, LeastIs
  <2> QED
    BY <2>2, <2>4, <2>7
<1>8. ASSUME NEW j \in SelectWindow(p, t, d)
      PROVE  \E i \in SelectWindow(h, t, d) : j = i + k
  <2>1. j \in 1..Len(p) /\ p[j] = s[j] /\ j \in 1..Len(s) /\ from < s[j].at /\ s[j].at <= to
    BY <1>2, <1>5
  <2>2. j > k
    <3> SUFFICES ASSUME j <= k PROVE FALSE
      BY <1>1, <2>1
    <3>1. PICK i \in 1..(Len(s) - k) : h[i].at <= from
      BY <1>7, <2>1
    <3>2. i + k \in 1..Len(s) /\ j < i + k /\ s[i + k].at <= from
      BY <1>1, <2>1, <3>1
    <3>3. s[j].at <= s[i + k].at /\ s[j].at \in Int /\ s[i + k].at \in Int
      BY <1>3, <2>1, <3>2
    <3> QED
      BY <1>4, <2>1, <3>2, <3>3
  <2>3. j - k \in 1..(Len(s) - k) /\ h[j - k] = s[j]
    BY <1>1, <2>1, <2>2
  <2>4. j - k \in SelectWindow(h, t, d)
    BY <1>1, <1>5, <2>1, <2>3
  <2> QED
    BY <1>1, <2>1, <2>4
<1>9. SelectWindow(p, t, d) = Moved(SelectWindow(h, t, d), k)
  BY <1>6, <1>8 DEF Moved
<1> QED
  BY <1>1, <1>6, <1>9

-----------------------------------------------------------------------------
\* The calculators over a history and over what is known of its feed.

\* Places moved by k are as many, and their ends are moved by k.
LEMMA MovedPlaces ==
    ASSUME NEW n \in Nat, NEW W, W \subseteq 1..n, NEW k \in Nat
    PROVE  LET V == Moved(W, k)
           IN  /\ IsFiniteSet(W) /\ Cardinality(W) \in Nat
               /\ V = {} <=> W = {}
               /\ Cardinality(V) = Cardinality(W)
               /\ W # {} => /\ Min(W) \in W /\ Min(V) = Min(W) + k
                           /\ Max(W) \in W /\ Max(V) = Max(W) + k
<1> DEFINE V == Moved(W, k)
<1> USE DEF Moved
<1>0. \A x \in W : x \in Nat
  OBVIOUS
<1>1. IsFiniteSet(1..n)
  BY FS_Interval
<1>2. IsFiniteSet(W)
  BY <1>1, FS_Subset
<1>3. Cardinality(W) \in Nat
  BY <1>2, FS_CardinalityType
<1>4. Cardinality(V) = Cardinality(W)
  <2> DEFINE f == [i \in W |-> i + k]
  <2>1. \A i \in W : f[i] = i + k /\ i \in Nat
    OBVIOUS
  <2>2. f \in [W -> V]
    OBVIOUS
  <2>3. \A v \in V : \E i \in W : f[i] = v
    OBVIOUS
  <2>4. \A i, j \in W : f[i] = f[j] => i = j
    BY <2>1
  <2> HIDE DEF f, V
  <2>5. f \in Surjection(W, V) /\ f \in Injection(W, V)
    BY <2>2, <2>3, <2>4, Zenon DEF Injection, IsInjective, Surjection
  <2> QED
    BY <1>2, <2>5, FS_Surjection
<1>5. ASSUME W # {} PROVE Min(W) \in W /\ Min(V) = Min(W) + k
  <2>1. Min(W) \in W /\ \A x \in W : Min(W) <= x
    <3>1. W \subseteq Nat
      OBVIOUS
    <3> QED
      BY <1>5, <3>1, LeastOf
  <2>2. PICK m \in W : m = Min(W) /\ \A x \in W : m <= x
    BY <2>1
  <2>3. V \subseteq Int /\ m + k \in V /\ \A y \in V : m + k <= y
    BY <1>0, <2>2
  <2>4. Min(V) = m + k
    <3> HIDE DEF V
    <3> QED
      BY <2>3, LeastIs
  <2> QED
    BY <2>2, <2>4
<1>6. ASSUME W # {} PROVE Max(W) \in W /\ Max(V) = Max(W) + k
  <2>1. Max(W) \in W /\ \A x \in W : x <= Max(W)
    <3>1. W \subseteq 0..n
      OBVIOUS
    <3> QED
      BY <1>6, <3>1, GreatestUpTo
  <2>2. PICK m \in W : m = Max(W) /\ \A x \in W : x <= m
    BY <2>1
  <2>3. V \subseteq Int /\ m + k \in V /\ \A y \in V : y <= m + k
    BY <1>0, <2>2
  <2>4. Max(V) = m + k
    <3> HIDE DEF V
    <3> QED
      BY <2>3, GreatestOf
  <2> QED
    BY <2>2, <2>4
<1> QED
  BY <1>2, <1>3, <1>4, <1>5, <1>6

\* Places of a history, and the same signed quantities k places later in another one.
Places(W) == IsFiniteSet(W) /\ W \subseteq Nat
SameAmounts(h, p, W, k) == k \in Nat /\ \A i \in W : Signed(h)[i] \in Int /\ Signed(p)[i + k] = Signed(h)[i]

\* Signed quantities add up to the same over the same events.
LEMMA SameSum ==
    ASSUME NEW h, NEW p, NEW k, NEW W, Places(W), SameAmounts(h, p, W, k)
    PROVE  SumAt(Signed(p), Moved(W, k)) = SumAt(Signed(h), W)
<1> DEFINE w == Signed(h)
           v == Signed(p)
<1>1. SumAt(w, W) = SumOf(w, W) /\ SumAt(v, Moved(W, k)) = SumOf(v, Moved(W, k))
  BY DEF SumAt, SumOf
<1>2. W \subseteq Int /\ k \in Int /\ \A i \in W : w[i] \in Int /\ v[i + k] = w[i]
  BY DEF Places, SameAmounts
<1>4. IsFiniteSet(W)
  BY DEF Places
<1> HIDE DEF w, v
<1>3. SumOf(v, Moved(W, k)) = SumOf(w, W)
  BY <1>2, <1>4, SumShifted
<1> QED
  BY <1>1, <1>3 DEF w, v

HasQuantities(R) == \A e \in R : e.quantity \in Int

\* The windows of a history of trades or liquidations.
Windowed(h, evicted, k) ==
    /\ evicted \in BOOLEAN
    /\ ~evicted => k = 0
    /\ evicted => Len(h) > 0

\* A history h and the beginning p of its feed s that a result as of t is compared with.
FromFeed(R, h, p, s, k, t, evicted) ==
    /\ s \in Seq(R) /\ h \in Seq(R) /\ p \in Seq(R) /\ HasQuantities(R)
    /\ k \in Nat /\ t \in Nat
    /\ Shares(h, p, s, k, t) /\ Windowed(h, evicted, k)

\* The features of a history nothing was dropped from.
WholeTaker(p, t) == TakerFlowFeatures(p, FALSE, t)
WholeLiquidation(p, t) == LiquidationFeatures(p, FALSE, t)

\* A window selects places of its history.
LEMMA WindowIsPlaces ==
    ASSUME NEW R, NEW h \in Seq(R), NEW t, NEW d
    PROVE  /\ SelectWindow(h, t, d) \subseteq 1..Len(h) /\ Len(h) \in Nat
           /\ IsFiniteSet(SelectWindow(h, t, d))
<1>1. SelectWindow(h, t, d) \subseteq 1..Len(h) /\ Len(h) \in Nat
  BY DEF SelectWindow
<1>2. IsFiniteSet(1..Len(h))
  BY <1>1, FS_Interval
<1> QED
  BY <1>1, <1>2, FS_Subset

\* A taker window that is reported VALID, and the prices over it, are what the whole beginning gives.
LEMMA SameTaker ==
    ASSUME NEW R, NEW s, NEW h, NEW p, NEW k, NEW t, NEW evicted, FromFeed(R, h, p, s, k, t, evicted),
           NEW d \in Windows, TakerFlowFeatures(h, evicted, t)[d].quality = "VALID"
    PROVE  /\ TakerFlowFeatures(h, evicted, t)[d] = WholeTaker(p, t)[d]
           /\ PriceContextFeatures(h, t)[d] = PriceContextFeatures(p, t)[d]
<1> DEFINE W == SelectWindow(h, t, d)
           V == SelectWindow(p, t, d)
           delta(q) == SumAt(Signed(q), SelectWindow(q, t, d))
           feature(q, out) ==
               [quality |-> CASE SelectWindow(q, t, d) = {} -> "UNAVAILABLE"
                              [] Truncated(q, out, t, d) -> "PARTIAL"
                              [] OTHER -> "VALID",
                delta |-> SignOf(delta(q), 0),
                rate |-> delta(q) * (Longest \div d)]
<1>0. /\ s \in Seq(R) /\ h \in Seq(R) /\ p \in Seq(R) /\ HasQuantities(R)
      /\ k \in Nat /\ t \in Nat /\ Shares(h, p, s, k, t)
      /\ d \in Nat \ {0} /\ evicted \in BOOLEAN /\ (~evicted => k = 0) /\ (evicted => Len(h) > 0)
  BY FlowAssumption DEF Windowed, FromFeed
<1>1. /\ TakerFlowFeatures(h, evicted, t)[d] = feature(h, evicted)
      /\ WholeTaker(p, t)[d] = feature(p, FALSE)
  BY DEF TakerFlowFeatures, WholeTaker
<1>2. W # {} /\ ~Truncated(h, evicted, t, d)
  BY <1>1
<1>3. /\ k \in Nat /\ V = Moved(W, k)
      /\ \A i \in W : i \in Nat /\ i \in DOMAIN h /\ i + k \in DOMAIN p /\ p[i + k] = h[i]
  BY <1>0, <1>2, SameWindow
<1>4. W \subseteq 1..Len(h) /\ Len(h) \in Nat /\ IsFiniteSet(W)
  BY <1>0, WindowIsPlaces
<1>5. ~Truncated(p, FALSE, t, d)
  BY DEF Truncated
<1> HIDE DEF W, V
<1>6. /\ V # {} /\ Cardinality(V) = Cardinality(W)
      /\ Min(W) \in W /\ Min(V) = Min(W) + k
      /\ Max(W) \in W /\ Max(V) = Max(W) + k
  BY <1>2, <1>3, <1>4, MovedPlaces
<1>7. \A i \in W : h[i].quantity \in Int
  <2>1. \A i \in W : h[i] \in R
    BY <1>0, <1>3
  <2> QED
    BY <1>0, <2>1 DEF HasQuantities
<1>8. SumAt(Signed(p), V) = SumAt(Signed(h), W)
  <2>1. Places(W)
    BY <1>3, <1>4 DEF Places
  <2>2. SameAmounts(h, p, W, k)
    BY <1>3, <1>7 DEF Signed, SameAmounts
  <2>3. SumAt(Signed(p), Moved(W, k)) = SumAt(Signed(h), W)
    BY <2>1, <2>2, SameSum
  <2> QED
    BY <1>3, <2>3
<1>9. feature(h, evicted) = feature(p, FALSE)
  BY <1>2, <1>5, <1>6, <1>8 DEF W, V
<1>10. p[Min(V)] = h[Min(W)] /\ p[Max(V)] = h[Max(W)]
  BY <1>3, <1>6
<1>11. PriceContextFeatures(h, t)[d] = PriceContextFeatures(p, t)[d]
  BY <1>2, <1>6, <1>10 DEF PriceContextFeatures, W, V
<1> QED
  BY <1>1, <1>9, <1>11

\* A liquidation window that is reported VALID is what the whole beginning gives.
LEMMA SameLiquidation ==
    ASSUME NEW R, NEW s, NEW h, NEW p, NEW k, NEW t, NEW evicted, FromFeed(R, h, p, s, k, t, evicted),
           NEW d \in Windows, LiquidationFeatures(h, evicted, t)[d].quality = "VALID"
    PROVE  LiquidationFeatures(h, evicted, t)[d] = WholeLiquidation(p, t)[d]
<1> DEFINE W == SelectWindow(h, t, d)
           V == SelectWindow(p, t, d)
           feature(q, out) ==
               [quality |-> IF Truncated(q, out, t, d) THEN "PARTIAL" ELSE "VALID",
                imbalance |-> SignOf(-SumAt(Signed(q), SelectWindow(q, t, d)), 0),
                count |-> Cardinality(SelectWindow(q, t, d))]
<1>0. /\ s \in Seq(R) /\ h \in Seq(R) /\ p \in Seq(R) /\ HasQuantities(R)
      /\ k \in Nat /\ t \in Nat /\ Shares(h, p, s, k, t)
      /\ d \in Nat \ {0} /\ evicted \in BOOLEAN /\ (~evicted => k = 0) /\ (evicted => Len(h) > 0)
  BY FlowAssumption DEF Windowed, FromFeed
<1>1. /\ LiquidationFeatures(h, evicted, t)[d] = feature(h, evicted)
      /\ WholeLiquidation(p, t)[d] = feature(p, FALSE)
  BY DEF LiquidationFeatures, WholeLiquidation
<1>2. ~Truncated(h, evicted, t, d)
  BY <1>1
<1>3. /\ k \in Nat /\ V = Moved(W, k)
      /\ \A i \in W : i \in Nat /\ i \in DOMAIN h /\ i + k \in DOMAIN p /\ p[i + k] = h[i]
  BY <1>0, <1>2, SameWindow
<1>4. W \subseteq 1..Len(h) /\ Len(h) \in Nat /\ IsFiniteSet(W)
  BY <1>0, WindowIsPlaces
<1>5. ~Truncated(p, FALSE, t, d)
  BY DEF Truncated
<1> HIDE DEF W, V
<1>6. Cardinality(V) = Cardinality(W)
  BY <1>3, <1>4, MovedPlaces
<1>7. \A i \in W : h[i].quantity \in Int
  <2>1. \A i \in W : h[i] \in R
    BY <1>0, <1>3
  <2> QED
    BY <1>0, <2>1 DEF HasQuantities
<1>8. SumAt(Signed(p), V) = SumAt(Signed(h), W)
  <2>1. Places(W)
    BY <1>3, <1>4 DEF Places
  <2>2. SameAmounts(h, p, W, k)
    BY <1>3, <1>7 DEF Signed, SameAmounts
  <2>3. SumAt(Signed(p), Moved(W, k)) = SumAt(Signed(h), W)
    BY <2>1, <2>2, SameSum
  <2> QED
    BY <1>3, <2>3
<1> QED
  BY <1>1, <1>2, <1>5, <1>6, <1>8 DEF W, V

\* The two ends of a window, when the history has its beginning.
LEMMA SameEnds ==
    ASSUME NEW R, NEW s \in Seq(R), NEW h \in Seq(R), NEW p \in Seq(R), NEW k, NEW t \in Nat,
           Shares(h, p, s, k, t), Steady(s), NEW d \in Windows,
           LatestAtOrBefore(h, WindowStart(t, d)) # 0
    PROVE  LET begin(q) == LatestAtOrBefore(q, WindowStart(t, d))
               end(q) == LatestAtOrBefore(q, WindowEnd(t, d))
           IN  /\ k \in Nat
               /\ begin(h) \in Nat \ {0} /\ begin(p) = begin(h) + k /\ p[begin(p)] = h[begin(h)]
               /\ end(h) \in Nat \ {0} /\ end(p) = end(h) + k /\ p[end(p)] = h[end(h)]
<1>1. d \in Nat \ {0}
  BY FlowAssumption
<1>2. /\ WindowEnd(t, d) \in Int /\ WindowStart(t, d) \in Int
      /\ WindowStart(t, d) < WindowEnd(t, d) /\ WindowEnd(t, d) <= t
  BY <1>1, WindowEnds
<1>3. WindowStart(t, d) <= WindowEnd(t, d) /\ WindowStart(t, d) <= t /\ t \in Int
  BY <1>2
<1>4. LatestAtOrBefore(h, WindowEnd(t, d)) # 0
  BY <1>2, <1>3, EarlierLatest
<1>5. /\ k \in Nat
      /\ LatestAtOrBefore(h, WindowStart(t, d)) \in Nat \ {0}
      /\ LatestAtOrBefore(p, WindowStart(t, d)) = LatestAtOrBefore(h, WindowStart(t, d)) + k
      /\ p[LatestAtOrBefore(p, WindowStart(t, d))] = h[LatestAtOrBefore(h, WindowStart(t, d))]
  BY <1>2, <1>3, SameLatest
<1>6. /\ LatestAtOrBefore(h, WindowEnd(t, d)) \in Nat \ {0}
      /\ LatestAtOrBefore(p, WindowEnd(t, d)) = LatestAtOrBefore(h, WindowEnd(t, d)) + k
      /\ p[LatestAtOrBefore(p, WindowEnd(t, d))] = h[LatestAtOrBefore(h, WindowEnd(t, d))]
  BY <1>2, <1>3, <1>4, SameLatest
<1> QED
  BY <1>5, <1>6

\* A change of open interest that is reported is the change over the whole beginning.
LEMMA SameInterest ==
    ASSUME NEW R, NEW s \in Seq(R), NEW h \in Seq(R), NEW p \in Seq(R), NEW k, NEW t \in Nat,
           Shares(h, p, s, k, t), Steady(s),
           OpenInterestFeatures(h, t).quality # "UNAVAILABLE"
    PROVE  LET told == OpenInterestFeatures(h, t)
               known == OpenInterestFeatures(p, t)
           IN  /\ told.quality = known.quality
               /\ \A d \in Windows : Qualifies(told.windows[d].quality) => told.windows[d] = known.windows[d]
<1> DEFINE i == LatestAtOrBefore(h, t)
           j == LatestAtOrBefore(p, t)
           quality(q) == Freshness(q, LatestAtOrBefore(q, t), t, SlowStaleness)
           end(q, d) == LatestAtOrBefore(q, WindowEnd(t, d))
           begin(q, d) == LatestAtOrBefore(q, WindowStart(t, d))
           change(q, d) == q[end(q, d)].value - q[begin(q, d)].value
           window(q, d) ==
               IF begin(q, d) = 0 THEN [quality |-> "UNAVAILABLE", known |-> FALSE, change |-> 0, velocity |-> "NONE"]
               ELSE [quality |-> quality(q),
                     known |-> q[begin(q, d)].value > 0,
                     change |-> IF q[begin(q, d)].value > 0 THEN (2 * change(q, d)) \div q[begin(q, d)].value ELSE 0,
                     velocity |-> SignOf(change(q, d), 0)]
<1>1. \A q \in {h, p} : OpenInterestFeatures(q, t)
          = IF LatestAtOrBefore(q, t) = 0 THEN [quality |-> "UNAVAILABLE", windows |-> <<>>]
            ELSE [quality |-> quality(q), windows |-> [d \in Windows |-> window(q, d)]]
  BY DEF OpenInterestFeatures
<1>2. i # 0
  BY <1>1
<1>3. i \in Nat \ {0} /\ k \in Nat /\ j = i + k /\ p[j] = h[i]
  BY <1>2, SameLatest
<1>4. quality(h) = quality(p)
  BY <1>3 DEF Freshness
<1>5. ASSUME NEW d \in Windows, begin(h, d) # 0
      PROVE  window(h, d) = window(p, d)
  <2>1. /\ k \in Nat
        /\ begin(h, d) \in Nat \ {0} /\ begin(p, d) = begin(h, d) + k /\ p[begin(p, d)] = h[begin(h, d)]
        /\ p[end(p, d)] = h[end(h, d)]
    BY <1>5, SameEnds
  <2>2. begin(p, d) # 0
    BY <2>1
  <2> QED
    BY <1>4, <1>5, <2>1, <2>2
<1>6. j # 0
  BY <1>2, <1>3
<1>7. /\ OpenInterestFeatures(h, t) = [quality |-> quality(h), windows |-> [d \in Windows |-> window(h, d)]]
      /\ OpenInterestFeatures(p, t) = [quality |-> quality(p), windows |-> [d \in Windows |-> window(p, d)]]
  <2> HIDE DEF window, quality
  <2> QED
    BY <1>1, <1>2, <1>6
<1>8. \A d \in Windows : begin(h, d) = 0 => window(h, d).quality = "UNAVAILABLE"
  OBVIOUS
<1> HIDE DEF window, quality, i, j
<1>9. OpenInterestFeatures(h, t).quality = OpenInterestFeatures(p, t).quality
  BY <1>4, <1>7
<1>10. ASSUME NEW d \in Windows, Qualifies(OpenInterestFeatures(h, t).windows[d].quality)
       PROVE  OpenInterestFeatures(h, t).windows[d] = OpenInterestFeatures(p, t).windows[d]
  <2>1. /\ OpenInterestFeatures(h, t).windows[d] = window(h, d)
        /\ OpenInterestFeatures(p, t).windows[d] = window(p, d)
    BY <1>7
  <2>2. begin(h, d) # 0
    BY <1>8, <1>10, <2>1 DEF Qualifies
  <2> QED
    BY <1>5, <2>1, <2>2
<1> QED
  BY <1>9, <1>10

\* A change of funding that is reported is the change over the whole beginning.
LEMMA SameFunding ==
    ASSUME NEW R, NEW s \in Seq(R), NEW h \in Seq(R), NEW p \in Seq(R), NEW k, NEW t \in Nat,
           Shares(h, p, s, k, t), Steady(s),
           FundingFeatures(h, t).quality # "UNAVAILABLE"
    PROVE  LET told == FundingFeatures(h, t)
               known == FundingFeatures(p, t)
           IN  /\ told.quality = known.quality /\ told.rate = known.rate /\ told.basis = known.basis
               /\ \A d \in Windows :
                    told.windows[d].trend # "NONE" => told.windows[d].trend = known.windows[d].trend
<1> DEFINE latest(q) == LatestAtOrBefore(q, t)
           quality(q) == Freshness(q, latest(q), t, SlowStaleness)
           end(q, d) == LatestAtOrBefore(q, WindowEnd(t, d))
           begin(q, d) == LatestAtOrBefore(q, WindowStart(t, d))
           samples(q, d) == Cardinality(SelectWindow(q, t, d))
           window(q, d) ==
               [quality |-> CASE samples(q, d) = 0 /\ end(q, d) = 0 -> "UNAVAILABLE"
                              [] samples(q, d) < 2 -> WorstOf({"PARTIAL", quality(q)})
                              [] OTHER -> quality(q),
                trend |-> IF begin(q, d) = 0 THEN "NONE" ELSE SignOf(q[end(q, d)].rate, q[begin(q, d)].rate)]
           features(q) ==
               [quality |-> quality(q),
                rate |-> SignOf(q[latest(q)].rate, 0),
                basis |-> SignOf(q[latest(q)].mark, q[latest(q)].index),
                windows |-> [d \in Windows |-> window(q, d)]]
<1>1. \A q \in {h, p} : FundingFeatures(q, t)
          = IF latest(q) = 0 THEN [quality |-> "UNAVAILABLE", windows |-> <<>>] ELSE features(q)
  BY DEF FundingFeatures
<1>2. latest(h) # 0
  <2> HIDE DEF features, latest
  <2> QED
    BY <1>1
<1>3. latest(h) \in Nat \ {0} /\ k \in Nat /\ latest(p) = latest(h) + k /\ p[latest(p)] = h[latest(h)]
  <2>1. t \in Int /\ t <= t
    OBVIOUS
  <2> QED
    BY <1>2, <2>1, SameLatest
<1>4. quality(h) = quality(p)
  BY <1>3 DEF Freshness
<1>5. latest(p) # 0
  BY <1>3
<1>6. FundingFeatures(h, t) = features(h) /\ FundingFeatures(p, t) = features(p)
  <2> HIDE DEF features, latest
  <2> QED
    BY <1>1, <1>2, <1>5
<1>7. ASSUME NEW d \in Windows, window(h, d).trend # "NONE"
      PROVE  window(h, d).trend = window(p, d).trend
  <2>1. begin(h, d) # 0
    BY <1>7
  <2>2. /\ k \in Nat
        /\ begin(h, d) \in Nat \ {0} /\ begin(p, d) = begin(h, d) + k /\ p[begin(p, d)] = h[begin(h, d)]
        /\ p[end(p, d)] = h[end(h, d)]
    BY <2>1, SameEnds
  <2>3. begin(p, d) # 0
    BY <2>2
  <2> QED
    BY <2>1, <2>2, <2>3
<1> HIDE DEF window, quality, latest
<1>8. /\ features(h).quality = features(p).quality /\ features(h).rate = features(p).rate
      /\ features(h).basis = features(p).basis
  BY <1>3, <1>4
<1>9. \A d \in Windows : features(h).windows[d] = window(h, d) /\ features(p).windows[d] = window(p, d)
  OBVIOUS
<1> HIDE DEF features
<1> QED
  BY <1>6, <1>7, <1>8, <1>9

\* A change of depth that is reported is the change over the whole beginning.
LEMMA SameDepthChange ==
    ASSUME NEW R, NEW s \in Seq(R), NEW h \in Seq(R), NEW p \in Seq(R), NEW k, NEW t \in Nat,
           Shares(h, p, s, k, t), Steady(s), NEW b, NEW c \in DOMAIN DepthChanges(h, b, t)
    PROVE  c \in DOMAIN DepthChanges(p, b, t) /\ DepthChanges(p, b, t)[c] = DepthChanges(h, b, t)[c]
<1> DEFINE end(q, d) == LatestAtOrBefore(q, WindowEnd(t, d))
           begin(q, d) == LatestAtOrBefore(q, WindowStart(t, d))
           told(q) == {x \in {"bid", "ask"} \X Windows :
                        /\ 0 < begin(q, x[2]) /\ begin(q, x[2]) # end(q, x[2])
                        /\ DepthOf(q[end(q, x[2])], x[1], b).known
                        /\ DepthOf(q[begin(q, x[2])], x[1], b).known}
           sign(q, x) == SignOf(DepthOf(q[end(q, x[2])], x[1], b).depth,
                                DepthOf(q[begin(q, x[2])], x[1], b).depth)
<1>1. /\ DepthChanges(h, b, t) = [x \in told(h) |-> sign(h, x)]
      /\ DepthChanges(p, b, t) = [x \in told(p) |-> sign(p, x)]
  BY DEF DepthChanges
<1>2. c \in told(h)
  BY <1>1
<1>3. c[2] \in Windows /\ 0 < begin(h, c[2]) /\ begin(h, c[2]) # end(h, c[2])
  BY <1>2
<1>4. begin(h, c[2]) # 0
  BY <1>3
<1>5. /\ k \in Nat
      /\ begin(h, c[2]) \in Nat \ {0} /\ begin(p, c[2]) = begin(h, c[2]) + k
      /\ p[begin(p, c[2])] = h[begin(h, c[2])]
      /\ end(h, c[2]) \in Nat \ {0} /\ end(p, c[2]) = end(h, c[2]) + k
      /\ p[end(p, c[2])] = h[end(h, c[2])]
  BY <1>3, <1>4, SameEnds
<1>6. 0 < begin(p, c[2]) /\ begin(p, c[2]) # end(p, c[2])
  BY <1>3, <1>5
<1>7. c \in told(p) /\ sign(p, c) = sign(h, c)
  BY <1>2, <1>5, <1>6
<1> HIDE DEF told, sign
<1> QED
  BY <1>1, <1>2, <1>7

\* A book that is reported, and every change of a band it reports, is that of the whole beginning.
LEMMA SameBook ==
    ASSUME NEW R, NEW s \in Seq(R), NEW h \in Seq(R), NEW p \in Seq(R), NEW k, NEW t \in Nat,
           Shares(h, p, s, k, t), Steady(s),
           OrderBookFeatures(h, t).quality # "UNAVAILABLE"
    PROVE  LET told == OrderBookFeatures(h, t)
               known == OrderBookFeatures(p, t)
           IN  /\ told.quality = known.quality
               /\ \A b \in DOMAIN Bands :
                    /\ told.bands[b].quality = known.bands[b].quality
                    /\ told.bands[b].imbalance = known.bands[b].imbalance
                    /\ \A c \in DOMAIN told.bands[b].changes :
                         /\ c \in DOMAIN known.bands[b].changes
                         /\ known.bands[b].changes[c] = told.bands[b].changes[c]
<1> DEFINE latest(q) == LatestAtOrBefore(q, t)
           freshness(q) == Freshness(q, latest(q), t, BookStaleness)
           features(q) ==
               [quality |-> freshness(q),
                bands |-> [b \in DOMAIN Bands |-> BandFeatures(q, latest(q), Bands[b], t, freshness(q))]]
           same(x, y) ==
               /\ x.quality = y.quality /\ x.imbalance = y.imbalance
               /\ \A c \in DOMAIN x.changes : c \in DOMAIN y.changes /\ y.changes[c] = x.changes[c]
<1>1. \A q \in {h, p} : OrderBookFeatures(q, t)
          = IF latest(q) = 0 THEN [quality |-> "UNAVAILABLE", bands |-> <<>>] ELSE features(q)
  BY DEF OrderBookFeatures
<1>2. latest(h) # 0
  <2> HIDE DEF features, latest
  <2> QED
    BY <1>1
<1>3. latest(h) \in Nat \ {0} /\ k \in Nat /\ latest(p) = latest(h) + k /\ p[latest(p)] = h[latest(h)]
  <2>1. t \in Int /\ t <= t
    OBVIOUS
  <2> QED
    BY <1>2, <2>1, SameLatest
<1>4. freshness(h) = freshness(p)
  BY <1>3 DEF Freshness
<1>5. latest(p) # 0
  BY <1>3
<1>6. OrderBookFeatures(h, t) = features(h) /\ OrderBookFeatures(p, t) = features(p)
  <2> HIDE DEF features, latest
  <2> QED
    BY <1>1, <1>2, <1>5
<1>7. ASSUME NEW b
      PROVE  same(BandFeatures(h, latest(h), b, t, freshness(h)), BandFeatures(p, latest(p), b, t, freshness(p)))
  <2> DEFINE told == BandFeatures(h, latest(h), b, t, freshness(h))
             known == BandFeatures(p, latest(p), b, t, freshness(p))
  <2>1. told.quality = known.quality /\ told.imbalance = known.imbalance
    BY <1>3, <1>4 DEF BandFeatures
  <2>2. told.changes = DepthChanges(h, b, t) /\ known.changes = DepthChanges(p, b, t)
    BY DEF BandFeatures
  <2>3. ASSUME NEW c \in DOMAIN DepthChanges(h, b, t)
        PROVE  c \in DOMAIN DepthChanges(p, b, t) /\ DepthChanges(p, b, t)[c] = DepthChanges(h, b, t)[c]
    BY <2>3, SameDepthChange
  <2>4. same(told, known)
    <3> HIDE DEF told, known
    <3> QED
      BY <2>1, <2>2, <2>3
  <2> QED
    BY <2>4
<1> HIDE DEF latest, freshness
<1>8. features(h).quality = features(p).quality
  BY <1>4
<1>9. \A b \in DOMAIN Bands :
         /\ features(h).bands[b] = BandFeatures(h, latest(h), Bands[b], t, freshness(h))
         /\ features(p).bands[b] = BandFeatures(p, latest(p), Bands[b], t, freshness(p))
  OBVIOUS
<1> HIDE DEF features
<1> QED
  BY <1>6, <1>7, <1>8, <1>9

-----------------------------------------------------------------------------
\* Whatever the snapshot, the flow supervisor's result is one its own
\* validators accept.

IsAnswer(r) ==
    /\ r.status \in {"ANALYZED", "ABSTAINED"}
    /\ ResultIsConsistent(r)

\* An analyst that abstains gives a result that is consistent.
LEMMA AbstainedIsAnswer == IsAnswer(Abstained)
BY DEF IsAnswer, Abstained, ResultIsConsistent

\* An analyst that judges by the worst observation gives a result that is consistent.
LEMMA WorstIsAnswer ==
    ASSUME NEW observations
    PROVE  IsAnswer(AnalyzedByWorst(observations))
BY AbstainedIsAnswer DEF IsAnswer, AnalyzedByWorst, Analyzed, ResultIsConsistent

\* Every analyst of the flow gives a result that is consistent, whatever the snapshot.
LEMMA AnalystsAnswer ==
    ASSUME NEW s
    PROVE  \A a \in FlowAnalysts : IsAnswer(AnalyzeFlow(s)[a])
<1>1. IsAnswer(TakerFlowAnalyst(s.taker))
  BY WorstIsAnswer DEF TakerFlowAnalyst
<1>2. IsAnswer(LiquidationAnalyst(s.liquidation))
  BY WorstIsAnswer DEF LiquidationAnalyst
<1>3. IsAnswer(OrderBookLiquidityAnalyst(s.book))
  BY WorstIsAnswer, AbstainedIsAnswer DEF OrderBookLiquidityAnalyst
<1>4. IsAnswer(OpenInterestAnalyst(s.interest))
  BY WorstIsAnswer, AbstainedIsAnswer DEF OpenInterestAnalyst
<1>5. IsAnswer(FundingAnalyst(s.funding))
  BY WorstIsAnswer, AbstainedIsAnswer DEF FundingAnalyst
<1>6. IsAnswer(PriceFlowRelationshipAnalyst(s))
  BY WorstIsAnswer DEF PriceFlowRelationshipAnalyst
<1> QED
  BY <1>1, <1>2, <1>3, <1>4, <1>5, <1>6 DEF AnalyzeFlow, FlowAnalysts

\* The coherence of results refers to observations of theirs, and to none when there are too few.
LEMMA CoherenceIsConsistent ==
    ASSUME NEW results
    PROVE  LET coherence == RelationshipCoherence(results)
           IN  /\ coherence.verdict = "INSUFFICIENT_DATA" <=> coherence.refs = {}
               /\ coherence.refs \subseteq UNION {results[a].observations : a \in DOMAIN results}
<1> DEFINE silent == [verdict |-> "INSUFFICIENT_DATA", refs |-> {}]
           P == "PRICE_FLOW_RELATIONSHIP"
           of(d) == {o \in results[P].observations : o.dimension = d}
           speaking == {d \in RelationshipDimensions : AgreementOf(of(d)) = "ALL_AGREE"}
           said == {[dimension |-> d, value |-> (CHOOSE o \in of(d) : TRUE).value] : d \in speaking}
           spoken == [verdict |-> AgreementOf(said), refs |-> UNION {of(d) : d \in speaking}]
<1>1. RelationshipCoherence(results) =
        IF P \notin DOMAIN results \/ Cardinality(speaking) < 2 THEN silent ELSE spoken
  BY DEF RelationshipCoherence
<1>2. CASE P \notin DOMAIN results \/ Cardinality(speaking) < 2
  <2>1. RelationshipCoherence(results) = silent
    BY <1>1, <1>2
  <2> HIDE DEF spoken, said, speaking, of
  <2> QED
    BY <2>1
<1>3. CASE P \in DOMAIN results /\ ~(Cardinality(speaking) < 2)
  <2>1. RelationshipCoherence(results) = spoken
    BY <1>1, <1>3
  <2>2. IsFiniteSet(speaking)
    <3>1. IsFiniteSet(RelationshipDimensions)
      <4>1. RelationshipDimensions = {"PRICE_TAKER_RELATIONSHIP"} \cup {"PRICE_OPEN_INTEREST_RELATIONSHIP"}
                                       \cup {"PRICE_LIQUIDATION_RELATIONSHIP"}
        BY DEF RelationshipDimensions
      <4> QED
        BY <4>1, FS_Singleton, FS_Union
    <3> QED
      BY <3>1, FS_Subset
  <2>3. IsFiniteSet(said) /\ Cardinality(said) = Cardinality(speaking)
    <3> DEFINE f == [d \in speaking |-> [dimension |-> d, value |-> (CHOOSE o \in of(d) : TRUE).value]]
    <3>1. f \in [speaking -> said] /\ \A x \in said : \E d \in speaking : f[d] = x
      OBVIOUS
    <3>2. \A d \in speaking : f[d].dimension = d
      OBVIOUS
    <3>3. \A d, e \in speaking : f[d] = f[e] => d = e
      BY <3>2
    <3> HIDE DEF f, said, speaking
    <3>4. f \in Surjection(speaking, said) /\ f \in Injection(speaking, said)
      BY <3>1, <3>3, Zenon DEF Surjection, Injection, IsInjective
    <3> QED
      BY <2>2, <3>4, FS_Surjection
  <2>4. AgreementOf(said) # "INSUFFICIENT_DATA"
    <3> HIDE DEF said, speaking
    <3> QED
      BY <1>3, <2>3 DEF AgreementOf
  <2>5. PICK d \in speaking : TRUE
    <3> HIDE DEF speaking
    <3>1. Cardinality({}) = 0
      BY FS_EmptySet
    <3> QED
      BY <1>3, <3>1
  <2>6. of(d) # {}
    <3>1. AgreementOf(of(d)) = "ALL_AGREE"
      OBVIOUS
    <3>2. ~(Cardinality(of(d)) < 2)
      <4> HIDE DEF of
      <4> QED
        BY <3>1 DEF AgreementOf
    <3>3. Cardinality({}) = 0
      BY FS_EmptySet
    <3> HIDE DEF of
    <3> QED
      BY <3>2, <3>3
  <2>7. spoken.refs # {}
    <3> HIDE DEF of
    <3> QED
      BY <2>6
  <2>8. spoken.refs \subseteq UNION {results[a].observations : a \in DOMAIN results}
    BY <1>3
  <2> HIDE DEF said, speaking, of
  <2> QED
    BY <2>1, <2>4, <2>7, <2>8
<1> QED
  BY <1>2, <1>3

\* What the supervisor makes of the results of the analysts passes its validators.
LEMMA AggregateIsValid ==
    ASSUME NEW s
    PROVE  FlowAggregateIsValid(AggregateFlow(AnalyzeFlow(s)))
<1> DEFINE results == AnalyzeFlow(s)
           r == AggregateFlow(results)
<1>1. DOMAIN results = FlowAnalysts
  BY DEF AnalyzeFlow
<1>2. \A a \in FlowAnalysts : IsAnswer(results[a])
  BY AnalystsAnswer
<1> HIDE DEF results
<1>3. /\ r.analyzed = {a \in FlowAnalysts : results[a].status = "ANALYZED"}
      /\ r.abstained = {a \in FlowAnalysts : results[a].status = "ABSTAINED"}
      /\ r.results = results /\ r.coherence = RelationshipCoherence(results)
  BY <1>1 DEF AggregateFlow, FlowCells
<1> HIDE DEF r
<1>4. r.analyzed \cap r.abstained = {} /\ DOMAIN r.results = r.analyzed \cup r.abstained
  BY <1>1, <1>2, <1>3 DEF IsAnswer
<1>5. ASSUME NEW a \in DOMAIN r.results
      PROVE  /\ ResultIsConsistent(r.results[a])
             /\ a \in IF r.results[a].status = "ANALYZED" THEN r.analyzed ELSE r.abstained
  BY <1>1, <1>2, <1>3, <1>5 DEF IsAnswer
<1>6. /\ r.coherence.verdict = "INSUFFICIENT_DATA" <=> r.coherence.refs = {}
      /\ r.coherence.refs \subseteq UNION {r.results[a].observations : a \in DOMAIN r.results}
  BY <1>3, CoherenceIsConsistent
<1>7. FlowAggregateIsValid(r)
  BY <1>4, <1>5, <1>6 DEF FlowAggregateIsValid
<1> QED
  BY <1>7 DEF r, results

-----------------------------------------------------------------------------
\* The invariant.

Recorded(k) == {Dated(e, t) : e \in FlowEvents[k], t \in Int}

FeedsInOrder ==
    /\ DOMAIN feed = FlowKinds
    /\ \A k \in FlowKinds :
         /\ feed[k] \in Seq(Recorded(k))
         /\ InOrderOfTime(feed[k])
         /\ k \in SteadyKinds => Steady(feed[k])

\* What has just been told is computed of the histories, and answered.
Told ==
    /\ flow.asOf \in Nat
    /\ flow.outcome # "RAISED"
    /\ flow.snapshot.taker = TakerFlowFeatures(History("trades"), HasEvicted("trades"), flow.asOf)
    /\ flow.snapshot.price = PriceContextFeatures(History("trades"), flow.asOf)
    /\ flow.snapshot.liquidation =
         LiquidationFeatures(History("liquidations"), HasEvicted("liquidations"), flow.asOf)
    /\ flow.snapshot.book = OrderBookFeatures(History("books"), flow.asOf)
    /\ flow.snapshot.interest = OpenInterestFeatures(History("interest"), flow.asOf)
    /\ flow.snapshot.funding = FundingFeatures(History("funding"), flow.asOf)

FlowInv ==
    /\ ticks \in Nat
    /\ alive \subseteq FlowKinds
    /\ wanted # NoFlow => wanted \in Nat
    /\ FeedsInOrder
    /\ flow # NoFlow => Told

\* A recorded event has a time, and a recorded trade or liquidation a quantity.
LEMMA RecordedIsTyped ==
    /\ \A k \in FlowKinds : \A e \in Recorded(k) : e.at \in Int
    /\ \A k \in {"trades", "liquidations"} : \A e \in Recorded(k) : e.quantity \in Int
<1>1. ASSUME NEW e, NEW t \in Int
      PROVE  Dated(e, t).at = t /\ ("quantity" \in DOMAIN e => Dated(e, t).quantity = e.quantity)
  BY DEF Dated
<1> QED
  BY <1>1, FlowAssumption DEF Recorded

\* What a forwarder appends keeps its feed in order.
LEMMA FeedStaysInOrder ==
    ASSUME NEW k \in FlowKinds, NEW s \in Seq(Recorded(k)), InOrderOfTime(s), k \in SteadyKinds => Steady(s),
           NEW e \in Recorded(k),
           s # <<>> => s[Len(s)].at <= e.at,
           s # <<>> /\ k \in SteadyKinds => s[Len(s)].at # e.at
    PROVE  /\ Append(s, e) \in Seq(Recorded(k))
           /\ InOrderOfTime(Append(s, e))
           /\ k \in SteadyKinds => Steady(Append(s, e))
<1> DEFINE q == Append(s, e)
           n == Len(s)
<1>1. /\ n \in Nat /\ DOMAIN s = 1..n /\ DOMAIN q = 1..(n + 1) /\ q \in Seq(Recorded(k))
      /\ q[n + 1] = e /\ \A i \in 1..n : q[i] = s[i]
  OBVIOUS
<1>2. e.at \in Int /\ \A i \in 1..n : s[i].at \in Int
  BY <1>1, RecordedIsTyped DEF InOrderOfTime
<1> HIDE DEF q
<1>3. \A i \in 1..n : s[i].at <= s[n].at /\ n \in 1..n
  BY <1>1, <1>2 DEF InOrderOfTime
<1>4. \A i \in 1..n : s[i].at <= e.at /\ (k \in SteadyKinds => s[i].at < e.at)
  <2>1. 1..n # {} => s # <<>>
    BY <1>1
  <2> SUFFICES ASSUME NEW i \in 1..n PROVE s[i].at <= e.at /\ (k \in SteadyKinds => s[i].at < e.at)
    OBVIOUS
  <2>2. s[n].at <= e.at /\ (k \in SteadyKinds => s[n].at # e.at)
    BY <2>1
  <2> QED
    BY <1>2, <1>3, <2>2
<1>5. InOrderOfTime(q)
  <2>1. \A i \in DOMAIN q : q[i].at \in Int
    BY <1>1, <1>2
  <2>2. ASSUME NEW i \in DOMAIN q, NEW j \in DOMAIN q, i < j PROVE q[i].at <= q[j].at
    <3>1. i \in 1..n /\ (j \in 1..n \/ j = n + 1)
      BY <1>1, <2>2
    <3> QED
      BY <1>1, <1>4, <2>2, <3>1 DEF InOrderOfTime
  <2> QED
    BY <2>1, <2>2 DEF InOrderOfTime
<1>6. ASSUME k \in SteadyKinds PROVE Steady(q)
  <2> SUFFICES ASSUME NEW i \in DOMAIN q, NEW j \in DOMAIN q, i < j PROVE q[i].at < q[j].at
    BY DEF Steady
  <2>1. i \in 1..n /\ (j \in 1..n \/ j = n + 1)
    BY <1>1
  <2> QED
    BY <1>1, <1>4, <1>6, <2>1 DEF Steady
<1> QED
  BY <1>1, <1>5, <1>6 DEF q

\* The invariant holds at the start.
LEMMA FlowStarts == FlowInit => FlowInv
<1> SUFFICES ASSUME FlowInit PROVE FlowInv
  OBVIOUS
<1>1. \A k \in FlowKinds : feed[k] = <<>>
  BY DEF FlowInit
<1>2. FeedsInOrder
  BY <1>1 DEF FlowInit, FeedsInOrder, InOrderOfTime, Steady
<1> QED
  BY <1>2, FlowAssumption DEF FlowInit, FlowInv

\* Every step keeps the invariant.
LEMMA FlowGoesOn == FlowInv /\ [FlowNext]_flowVars => FlowInv'
<1> SUFFICES ASSUME FlowInv, [FlowNext]_flowVars PROVE FlowInv'
  OBVIOUS
<1>1. ASSUME NEW k \in alive, RecordEvent(k) PROVE FlowInv'
  <2>1. k \in FlowKinds
    BY <1>1 DEF FlowInv
  <2>2. PICK e \in FlowEvents[k], time \in {ticks - 1, ticks} :
          /\ feed[k] # <<>> => Last(feed[k]).at <= time
          /\ feed[k] # <<>> /\ k \in SteadyKinds => Last(feed[k]).at # time
          /\ feed' = [feed EXCEPT ![k] = Append(@, Dated(e, time))]
    BY <1>1 DEF RecordEvent
  <2>3. time \in Int /\ Dated(e, time) \in Recorded(k) /\ Dated(e, time).at = time
    <3>1. time \in Int
      BY DEF FlowInv
    <3> QED
      BY <3>1 DEF Recorded, Dated
  <2>4. /\ feed[k] \in Seq(Recorded(k)) /\ InOrderOfTime(feed[k]) /\ (k \in SteadyKinds => Steady(feed[k]))
    BY <2>1 DEF FlowInv, FeedsInOrder
  <2>5. /\ Append(feed[k], Dated(e, time)) \in Seq(Recorded(k))
        /\ InOrderOfTime(Append(feed[k], Dated(e, time)))
        /\ k \in SteadyKinds => Steady(Append(feed[k], Dated(e, time)))
    <3>1. /\ feed[k] # <<>> => feed[k][Len(feed[k])].at <= Dated(e, time).at
          /\ feed[k] # <<>> /\ k \in SteadyKinds => feed[k][Len(feed[k])].at # Dated(e, time).at
      BY <2>2, <2>3 DEF Last
    <3> QED
      BY <2>1, <2>3, <2>4, <3>1, FeedStaysInOrder
  <2>6. FeedsInOrder'
    <3>1. DOMAIN feed' = FlowKinds /\ feed'[k] = Append(feed[k], Dated(e, time))
      BY <2>1, <2>2 DEF FlowInv, FeedsInOrder
    <3>2. \A l \in FlowKinds \ {k} : feed'[l] = feed[l]
      BY <2>2 DEF FlowInv, FeedsInOrder
    <3> QED
      BY <2>5, <3>1, <3>2 DEF FlowInv, FeedsInOrder
  <2> QED
    BY <1>1, <2>6 DEF RecordEvent, FlowInv
<1>2. CASE WantFlow
  BY <1>2 DEF WantFlow, FlowInv, FeedsInOrder
<1>3. CASE BuildFlow
  <2>1. wanted \in Nat /\ feed' = feed /\ ticks' = ticks /\ alive' = alive /\ wanted' = NoFlow
    BY <1>3 DEF BuildFlow, FlowInv
  <2>2. FeedsInOrder'
    BY <2>1 DEF FlowInv, FeedsInOrder
  <2>3. /\ flow'.asOf = wanted /\ flow'.snapshot = FlowSnapshot(wanted)
        /\ flow'.outcome = AggregateFlow(AnalyzeFlow(FlowSnapshot(wanted))).outcome
    BY <1>3, AggregateIsValid DEF BuildFlow
  <2>4. flow'.outcome # "RAISED"
    BY <2>3 DEF AggregateFlow, ParticipationOutcome
  <2>5. \A k \in FlowKinds : History(k)' = History(k) /\ HasEvicted(k)' = HasEvicted(k)
    BY <2>1 DEF History, HasEvicted
  <2>6. Told'
    BY <2>1, <2>3, <2>4, <2>5 DEF Told, FlowSnapshot, FlowKinds
  <2> QED
    BY <2>1, <2>2, <2>6 DEF FlowInv
<1>4. CASE TickPasses
  BY <1>4 DEF TickPasses, FlowInv, FeedsInOrder
<1>5. CASE UNCHANGED flowVars
  BY <1>5 DEF flowVars, FlowInv, FeedsInOrder, Told, History, HasEvicted
<1> QED
  BY <1>1, <1>2, <1>3, <1>4, <1>5 DEF FlowNext

\* The parts of one feed that a result is made of and should be made of.
LEMMA PartsOfFeed ==
    ASSUME NEW k \in FlowKinds, FlowInv, NEW t \in Nat, t = flow.asOf
    PROVE  /\ History(k) \in Seq(Recorded(k)) /\ Known(k) \in Seq(Recorded(k)) /\ feed[k] \in Seq(Recorded(k))
           /\ \E c \in Nat :
                /\ Shares(History(k), Known(k), feed[k], c, t)
                /\ Windowed(History(k), HasEvicted(k), c)
           /\ k \in SteadyKinds => Steady(feed[k])
<1>1. feed[k] \in Seq(Recorded(k)) /\ InOrderOfTime(feed[k]) /\ (k \in SteadyKinds => Steady(feed[k]))
  BY DEF FlowInv, FeedsInOrder
<1>2. Known(k) \in Seq(Recorded(k)) /\ IsBeginning(Known(k), feed[k], t)
  BY <1>1, KnownIsBeginning
<1>3. History(k) \in Seq(Recorded(k))
  BY <1>1, HistoryIsEnd
<1>4. PICK c \in Nat :
        /\ IsEnd(History(k), feed[k], c)
        /\ ~HasEvicted(k) => c = 0
        /\ HasEvicted(k) => Len(History(k)) > 0
  BY <1>1, HistoryIsEnd
<1>5. HasEvicted(k) \in BOOLEAN
  BY DEF HasEvicted
<1> QED
  BY <1>1, <1>2, <1>3, <1>4, <1>5 DEF Shares, Windowed

\* What the invariant says of the last result makes it true of the feeds.
LEMMA ToldIsTrue == FlowInv => FlowIsTrue
<1> SUFFICES ASSUME FlowInv, flow # NoFlow PROVE FlowIsTrue
  BY DEF FlowIsTrue
<1> DEFINE told == flow.snapshot
<1>0. PICK t \in Nat : t = flow.asOf
  BY DEF FlowInv, Told
<1>1. Told /\ t = flow.asOf
  BY <1>0 DEF FlowInv
<1>2. ASSUME NEW d \in Windows, told.taker[d].quality = "VALID"
      PROVE  /\ told.taker[d] = TakerFlowFeatures(Known("trades"), FALSE, t)[d]
             /\ told.price[d] = PriceContextFeatures(Known("trades"), t)[d]
  <2>1. "trades" \in FlowKinds
    BY DEF FlowKinds
  <2>2. PICK c \in Nat : /\ Shares(History("trades"), Known("trades"), feed["trades"], c, t)
                        /\ Windowed(History("trades"), HasEvicted("trades"), c)
    BY <1>1, <2>1, PartsOfFeed
  <2>3. /\ History("trades") \in Seq(Recorded("trades")) /\ Known("trades") \in Seq(Recorded("trades"))
        /\ feed["trades"] \in Seq(Recorded("trades"))
    BY <1>1, <2>1, PartsOfFeed
  <2>4. HasQuantities(Recorded("trades"))
    BY RecordedIsTyped DEF HasQuantities
  <2>5. /\ told.taker = TakerFlowFeatures(History("trades"), HasEvicted("trades"), t)
        /\ told.price = PriceContextFeatures(History("trades"), t)
    BY <1>1 DEF Told
  <2> QED
    <3>0. PICK out : out = HasEvicted("trades")
      OBVIOUS
    <3>7. PICK h : h = History("trades")
      OBVIOUS
    <3>8. PICK p : p = Known("trades")
      OBVIOUS
    <3>9. PICK s : s = feed["trades"]
      OBVIOUS
    <3>4. told.taker = TakerFlowFeatures(History("trades"), out, t)
      BY <2>5, <3>0
    <3>5. Windowed(History("trades"), out, c)
      BY <2>2, <3>0
    <3>6. FromFeed(Recorded("trades"), h, p, s, c, t, out)
      BY <2>2, <2>3, <2>4, <3>5, <3>7, <3>8, <3>9 DEF FromFeed
    <3> DEFINE own == TakerFlowFeatures(h, out, t)
    <3>1. own[d].quality = "VALID"
      BY <1>2, <3>4, <3>7
    <3>3. /\ own[d] = WholeTaker(p, t)[d]
          /\ PriceContextFeatures(h, t)[d] = PriceContextFeatures(p, t)[d]
      BY <3>1, <3>6, SameTaker
    <3> QED
      BY <2>5, <3>3, <3>4, <3>7, <3>8 DEF WholeTaker
<1>3. ASSUME NEW d \in Windows, told.liquidation[d].quality = "VALID"
      PROVE  told.liquidation[d] = LiquidationFeatures(Known("liquidations"), FALSE, t)[d]
  <2>1. "liquidations" \in FlowKinds
    BY DEF FlowKinds
  <2>2. PICK c \in Nat : /\ Shares(History("liquidations"), Known("liquidations"), feed["liquidations"], c, t)
                        /\ Windowed(History("liquidations"), HasEvicted("liquidations"), c)
    BY <1>1, <2>1, PartsOfFeed
  <2>3. /\ History("liquidations") \in Seq(Recorded("liquidations"))
        /\ Known("liquidations") \in Seq(Recorded("liquidations"))
        /\ feed["liquidations"] \in Seq(Recorded("liquidations"))
    BY <1>1, <2>1, PartsOfFeed
  <2>4. HasQuantities(Recorded("liquidations"))
    BY RecordedIsTyped DEF HasQuantities
  <2>5. told.liquidation = LiquidationFeatures(History("liquidations"), HasEvicted("liquidations"), t)
    BY <1>1 DEF Told
  <2> QED
    <3>0. PICK out : out = HasEvicted("liquidations")
      OBVIOUS
    <3>7. PICK h : h = History("liquidations")
      OBVIOUS
    <3>8. PICK p : p = Known("liquidations")
      OBVIOUS
    <3>9. PICK s : s = feed["liquidations"]
      OBVIOUS
    <3>4. told.liquidation = LiquidationFeatures(History("liquidations"), out, t)
      BY <2>5, <3>0
    <3>5. Windowed(History("liquidations"), out, c)
      BY <2>2, <3>0
    <3>6. FromFeed(Recorded("liquidations"), h, p, s, c, t, out)
      BY <2>2, <2>3, <2>4, <3>5, <3>7, <3>8, <3>9 DEF FromFeed
    <3> DEFINE own == LiquidationFeatures(h, out, t)
    <3>1. own[d].quality = "VALID"
      BY <1>3, <3>4, <3>7
    <3>3. own[d] = WholeLiquidation(p, t)[d]
      BY <3>1, <3>6, SameLiquidation
    <3> QED
      BY <2>5, <3>3, <3>4, <3>7, <3>8 DEF WholeLiquidation
<1>4. ASSUME told.book.quality # "UNAVAILABLE"
      PROVE  LET book == OrderBookFeatures(Known("books"), t)
             IN  /\ told.book.quality = book.quality
                 /\ \A b \in DOMAIN Bands :
                      /\ told.book.bands[b].quality = book.bands[b].quality
                      /\ told.book.bands[b].imbalance = book.bands[b].imbalance
                      /\ \A c \in DOMAIN told.book.bands[b].changes :
                           /\ c \in DOMAIN book.bands[b].changes
                           /\ told.book.bands[b].changes[c] = book.bands[b].changes[c]
  <2>1. "books" \in FlowKinds /\ "books" \in SteadyKinds
    BY DEF FlowKinds, SteadyKinds
  <2>2. PICK m \in Nat : Shares(History("books"), Known("books"), feed["books"], m, t)
    BY <1>1, <2>1, PartsOfFeed
  <2>3. /\ History("books") \in Seq(Recorded("books")) /\ Known("books") \in Seq(Recorded("books"))
        /\ feed["books"] \in Seq(Recorded("books")) /\ Steady(feed["books"])
    BY <1>1, <2>1, PartsOfFeed
  <2>4. told.book = OrderBookFeatures(History("books"), t)
    BY <1>1 DEF Told
  <2> DEFINE book == OrderBookFeatures(Known("books"), t)
             own == OrderBookFeatures(History("books"), t)
  <2>5. /\ own.quality = book.quality
        /\ \A b \in DOMAIN Bands :
             /\ own.bands[b].quality = book.bands[b].quality
             /\ own.bands[b].imbalance = book.bands[b].imbalance
             /\ \A c \in DOMAIN own.bands[b].changes :
                  /\ c \in DOMAIN book.bands[b].changes
                  /\ book.bands[b].changes[c] = own.bands[b].changes[c]
    BY <1>1, <1>4, <2>2, <2>3, <2>4, SameBook
  <2> HIDE DEF book
  <2> QED
    BY <2>4, <2>5 DEF book
<1>5. ASSUME told.interest.quality # "UNAVAILABLE"
      PROVE  LET interest == OpenInterestFeatures(Known("interest"), t)
             IN  /\ told.interest.quality = interest.quality
                 /\ \A d \in Windows :
                      Qualifies(told.interest.windows[d].quality) => told.interest.windows[d] = interest.windows[d]
  <2>1. "interest" \in FlowKinds /\ "interest" \in SteadyKinds
    BY DEF FlowKinds, SteadyKinds
  <2>2. PICK c \in Nat : Shares(History("interest"), Known("interest"), feed["interest"], c, t)
    BY <1>1, <2>1, PartsOfFeed
  <2>3. /\ History("interest") \in Seq(Recorded("interest")) /\ Known("interest") \in Seq(Recorded("interest"))
        /\ feed["interest"] \in Seq(Recorded("interest")) /\ Steady(feed["interest"])
    BY <1>1, <2>1, PartsOfFeed
  <2>4. told.interest = OpenInterestFeatures(History("interest"), t)
    BY <1>1 DEF Told
  <2> QED
    BY <1>1, <1>5, <2>2, <2>3, <2>4, SameInterest
<1>6. ASSUME told.funding.quality # "UNAVAILABLE"
      PROVE  LET funding == FundingFeatures(Known("funding"), t)
             IN  /\ told.funding.quality = funding.quality
                 /\ told.funding.rate = funding.rate /\ told.funding.basis = funding.basis
                 /\ \A d \in Windows :
                      told.funding.windows[d].trend # "NONE" =>
                          told.funding.windows[d].trend = funding.windows[d].trend
  <2>1. "funding" \in FlowKinds /\ "funding" \in SteadyKinds
    BY DEF FlowKinds, SteadyKinds
  <2>2. PICK c \in Nat : Shares(History("funding"), Known("funding"), feed["funding"], c, t)
    BY <1>1, <2>1, PartsOfFeed
  <2>3. /\ History("funding") \in Seq(Recorded("funding")) /\ Known("funding") \in Seq(Recorded("funding"))
        /\ feed["funding"] \in Seq(Recorded("funding")) /\ Steady(feed["funding"])
    BY <1>1, <2>1, PartsOfFeed
  <2>4. told.funding = FundingFeatures(History("funding"), t)
    BY <1>1 DEF Told
  <2> QED
    BY <1>1, <1>6, <2>2, <2>3, <2>4, SameFunding
<1>7. flow.outcome # "RAISED"
  BY <1>1 DEF Told
<1> QED
  BY <1>2, <1>3, <1>4, <1>5, <1>6, <1>7, <1>1 DEF FlowIsTrue

(***************************************************************************)
(* A flow result tells the truth about the whole of what happened by as_of *)
(* or says that it does not, whatever is recorded, in what order, before   *)
(* and after as_of, and however short the histories are (app/flow).        *)
(***************************************************************************)
THEOREM FlowTellsTruth == FlowSpec => []FlowIsTrue
<1> QED
  BY FlowStarts, FlowGoesOn, ToldIsTrue, PTL DEF FlowSpec
==============================================================================
