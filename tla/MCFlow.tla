------------------------------- MODULE MCFlow -------------------------------
(***************************************************************************)
(* An instance of FlowFeatures for TLC: one feed at a time, two windows    *)
(* and a history that holds two events.                                    *)
(***************************************************************************)
EXTENDS FlowFeatures, TLC

OfferedAt(p, q) == [price |-> p, quantity |-> q]

FlowKindEvents ==
    ("trades" :> {[side |-> "BUY", quantity |-> 1, price |-> 1], [side |-> "SELL", quantity |-> 2, price |-> 2]})
    @@ ("liquidations" :> {[side |-> "BUY", quantity |-> 1], [side |-> "SELL", quantity |-> 2]})
    @@ ("books" :> {[bids |-> <<OfferedAt(4, 1), OfferedAt(3, 2)>>, asks |-> <<OfferedAt(6, 1)>>],
                    [bids |-> <<OfferedAt(4, 3)>>, asks |-> <<OfferedAt(5, 1), OfferedAt(7, 2)>>],
                    [bids |-> <<>>, asks |-> <<OfferedAt(6, 2)>>]})
    @@ ("interest" :> {[value |-> v] : v \in 0 .. 2})
    @@ ("funding" :> {[rate |-> -1, mark |-> 5, index |-> 4], [rate |-> 1, mark |-> 5, index |-> 6]})

TopTwoAndWide == ("top2" :> [top |-> 2, bps |-> 0]) @@ ("wide" :> [top |-> 0, bps |-> 3000])
TwoEach == [k \in FlowKinds |-> 2]
OneFeed == {{k} : k \in FlowKinds}

==============================================================================
