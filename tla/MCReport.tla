------------------------------ MODULE MCReport ------------------------------
(***************************************************************************)
(* Cycles for CycleReport: every market of MCTrade in an ordinary cycle,   *)
(* and every failure with a market that has two setups.                    *)
(***************************************************************************)
EXTENDS CycleReport, MCTrade

Agreed(st) == [t \in {"M15", "H1"} |-> Snapshot("VALID", "UP", "UP", "UP", "UP", st.swings, st.breaks)]
TwoSetups == [swings |-> <<Swing("LOW", 1, 0), Swing("HIGH", 2, 2), Swing("LOW", 3, 1)>>,
              breaks |-> <<[direction |-> "UP", price |-> 2]>>]
BothMarket(a, l) == MarketOf(Agreed(TwoSetups), Flow("ANALYZED"), Symbol(1, 1, "FULL", 1), a, FALSE, l, NoContour)

CycleOf(mode) ==
    [connected |-> TRUE, account |-> TRUE, positions |-> "OK", history |-> "OK", mode |-> mode,
     held |-> FALSE, unresolved |-> FALSE, advanced |-> <<>>, excluded |-> {}, rollover |-> "USABLE",
     baseline |-> "WRITTEN", llm |-> FALSE]
Of(c, m) == [cycle |-> c, market |-> m]

TheFamilies == <<"TREND_FOLLOWING", "MEAN_REVERSION", "BREAKOUT", "EVENT_DRIVEN">>
TheTrades == <<"t1", "t2">>

Advanced == {<<>>, [t \in {"t1"} |-> TRUE], [t \in {"t1", "t2"} |-> t = "t1"]}

TheCycles ==
    {Of(CycleOf("UNKNOWN"), m) : m \in TheMarkets}
    \cup
    {Of(CycleOf(mode), BothMarket(a, l)) : mode \in {"HEDGING", "NETTING"}, a \in Accounts, l \in BOOLEAN}
    \cup
    {Of([CycleOf(mode) EXCEPT !.positions = reads[1], !.history = reads[2], !.held = d, !.unresolved = u,
                              !.advanced = v, !.excluded = x, !.baseline = b, !.llm = TRUE],
        BothMarket(Account(600, 600, 0, 0, 0), FALSE)) :
        mode \in {"HEDGING", "NETTING"}, d \in BOOLEAN,
        reads \in {<<"OK", "OK">>, <<"UNAVAILABLE", "OK">>, <<"OK", "UNAVAILABLE">>},
        u \in BOOLEAN, v \in Advanced, x \in {{}, {"t3"}}, b \in {"WRITTEN", "FAILED"}}
    \cup
    {Of([CycleOf("NETTING") EXCEPT !.connected = c, !.account = a, !.rollover = "UNUSABLE", !.llm = l],
        BothMarket(NoAccount, FALSE)) : c \in BOOLEAN, a \in BOOLEAN, l \in BOOLEAN}

==============================================================================
