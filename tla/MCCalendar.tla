----------------------------- MODULE MCCalendar -----------------------------
(***************************************************************************)
(* An instance of CalendarBridge for TLC: two events next to each other,   *)
(* of which the FOMC one blocks although it is only MODERATE.              *)
(***************************************************************************)
EXTENDS CalendarBridge, TLC

CONSTANTS v1, v2

TwoEvents == {v1, v2}
EventSymmetry == Permutations(TwoEvents)
FirstSlots == {1, 2}
CpiOrFomc == {[code |-> "US_CPI", importance |-> High], [code |-> "FOMC", importance |-> Moderate]}
BackOrForward == {-1, 1}
Dollar == {"USD"}
NoCodes == {}

==============================================================================
