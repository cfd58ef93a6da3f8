------------------------------ MODULE MCSeries ------------------------------
(***************************************************************************)
(* An instance of TechnicalSeries for TLC: candles that rise and fall to   *)
(* new highs and lows, an hour without a trade, and lookbacks of a few     *)
(* candles.                                                                *)
(***************************************************************************)
EXTENDS TechnicalSeries

Shape(o, h, l, c) == [open |-> o, high |-> h, low |-> l, close |-> c]

FirstShape == Shape(3, 4, 2, 3)
PastShapes == {FirstShape, Shape(3, 6, 3, 6), Shape(4, 5, 1, 1)}
LiveShapes == {Shape(3, 3, 3, 3), Shape(3, 6, 1, 1)}

Past == 1 .. FirstHour - 1

\* The candles of the hours before the first, all of them or all but one.
TheHistories ==
    {[h \in hours |-> [at |-> h] @@ (IF h = 0 THEN FirstShape ELSE s[h])] :
        s \in [Past -> PastShapes], hours \in {{0} \cup Past, {0} \cup (Past \ {1})}}

TheFrames == <<"H1", "H4">>

==============================================================================
