----------------------------- MODULE MCRealtime -----------------------------
(***************************************************************************)
(* The order book stream and the flow runtime for TLC, side by side: one   *)
(* of them is at work in a behaviour, the other stays in its first state.  *)
(* The synchronizer gets its events over a transport of its own, which it  *)
(* describes by what becomes of the events.                                *)
(***************************************************************************)
EXTENDS MCOrderBook, MCRuntime

VARIABLE part  \* the part at work

BookPart(Step) == part = "book" /\ Step /\ UNCHANGED <<part, runtimeVars>>

RuntimePart(Step) == part = "runtime" /\ Step /\ UNCHANGED <<part, vars>>

RealtimeInit == part \in {"book", "runtime"} /\ Init /\ RuntimeInit

RealtimeNext == BookPart(Next) \/ RuntimePart(RuntimeNext)

realtimeVars == <<part, vars, runtimeVars>>

\* FairSpec of OrderBookSync and RuntimeFairness, each for its part.
RealtimeFairness ==
    /\ WF_realtimeVars(BookPart(Dispatch))
    /\ \A t \in Tasks : WF_realtimeVars(BookPart(Resync(t)))
    /\ \A t \in Transports : WF_realtimeVars(RuntimePart(RunTransport(t)))
    /\ \A s \in Streams : WF_realtimeVars(RuntimePart(RunForwarder(s)))
    /\ WF_realtimeVars(RuntimePart(\E x \in RuntimeTasks : CancelledTaskEnds(x)))
    /\ WF_realtimeVars(RuntimePart(RunStart))
    /\ WF_realtimeVars(RuntimePart(RunStop))

RealtimeSpec == RealtimeInit /\ [][RealtimeNext]_realtimeVars /\ RealtimeFairness

==============================================================================
