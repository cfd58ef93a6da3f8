----------------------------- MODULE MCTracking -----------------------------
(***************************************************************************)
(* Instances of RecommendationTracking for TLC.                            *)
(***************************************************************************)
EXTENDS RecommendationTracking

One == {1}
OneLot == {1}
UpToTwo == {1, 2}
PlusMinus == {-1, 1}
Gains == {1}
Buys == {"BUY"}

=============================================================================
