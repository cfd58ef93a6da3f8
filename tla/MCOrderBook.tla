----------------------------- MODULE MCOrderBook -----------------------------
(***************************************************************************)
(* Instances of OrderBookSync for TLC: a best bid that comes and goes and  *)
(* an ask that is changed and changed back.                                *)
(***************************************************************************)
EXTENDS OrderBookSync

CONSTANTS bid, ask, t1, t2, t3

BothSides == {bid, ask}
UpToTwoLots == 0 .. 2
TwoTasks == {t1, t2}
ThreeTasks == {t1, t2, t3}

Bids == <<1, 1, 0, 0, 2, 2, 0>>
Asks == <<0, 1, 1, 2, 2, 1, 1>>

BookHistory ==
    [n \in Ids |-> IF n = 0 THEN EmptyBook
                   ELSE [l \in Levels |-> IF l = bid THEN Bids[n] ELSE Asks[n]]]

==============================================================================
