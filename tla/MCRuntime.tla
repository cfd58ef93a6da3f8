------------------------------ MODULE MCRuntime -----------------------------
(***************************************************************************)
(* An instance of FlowRuntime for TLC: a transport that carries the order  *)
(* book and another stream, and the poller.  The refresh task is for       *)
(* stop() what a forwarder that has subscribed is.                         *)
(***************************************************************************)
EXTENDS FlowRuntime, TLC

CONSTANTS market, trades, depth, poller

OneCarrier == <<market>>
TwoStreams == (market :> {trades, depth})

==============================================================================
