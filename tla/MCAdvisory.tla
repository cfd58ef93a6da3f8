----------------------------- MODULE MCAdvisory -----------------------------
(***************************************************************************)
(* Instances of AdvisoryCycle for TLC.                                     *)
(***************************************************************************)
EXTENDS AdvisoryCycle, TLC

CONSTANTS p1, p2, r1, r2, r3, a, b, c, trend, breakout

OneProc == {p1}
TwoProcs == {p1, p2}
TwoRequests == {r1, r2}
ThreeRequests == {r1, r2, r3}
OneId == {a}
TwoIds == {a, b}
ThreeIds == {a, b, c}
OneFamily == {trend}
TwoFamilies == {trend, breakout}

RequestSymmetry == Permutations(Requests)

=============================================================================
