------------------------------- MODULE MCFacts ------------------------------
(***************************************************************************)
(* An instance of AccountFacts for TLC: two days of two hours, the change  *)
(* of the offset at the border between them, and one position.             *)
(***************************************************************************)
EXTENDS AccountFacts

CONSTANT k1

ForwardAndBack == {-1, 1}
TwoHours == {0, 1}
OnTimeOrBehind == {0, 1}
UpToTwoUnits == {0, 1, 2}
OneTicket == {k1}
OneLong == {[side |-> "BUY", open |-> 2, stop |-> 1]}
OnePrice == {3}

==============================================================================
