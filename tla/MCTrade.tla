------------------------------- MODULE MCTrade ------------------------------
(***************************************************************************)
(* Markets for TradePipeline: what a cycle may find, with prices from 1 to *)
(* 9 around a bid of 4 and an ask of 6.                                    *)
(***************************************************************************)
EXTENDS TradePipeline

\* A snapshot told by its directions; what the judge does not read is fixed.
Snapshot(q, return, slope, rsi, position, swings, breaks) ==
    [trend |-> [quality |-> q, return |-> return, slope |-> slope, upCount |-> 1, downCount |-> 1,
                persistence |-> "BETWEEN_BOUNDS"],
     structure |-> [quality |-> q, swings |-> swings, breaks |-> breaks],
     volatility |-> [quality |-> "VALID", expansion |-> "LEVEL"],
     momentum |-> [quality |-> "VALID", roc |-> "NONE", rsi |-> rsi],
     average |-> [quality |-> "VALID", periods |-> {20}, distance |-> [p \in {20} |-> position],
                  maSlope |-> [p \in {20} |-> "NONE"], ordering |-> "NONE"],
     candle |-> [quality |-> "VALID", rangeSize |-> "NONE", bodyToWicks |-> "UP", upperToLower |-> "UP",
                 closeLocation |-> "LEVEL"],
     range |-> [quality |-> "UNAVAILABLE", normalized |-> "NONE", efficiency |-> "NONE"]]

Swing(kind, at, price) == [kind |-> kind, at |-> at, price |-> price]
Structures ==
    {[swings |-> <<>>, breaks |-> <<>>],
     [swings |-> <<Swing("HIGH", 1, 3), Swing("LOW", 2, 7)>>, breaks |-> <<>>],
     [swings |-> <<Swing("LOW", 1, 2), Swing("HIGH", 2, 4), Swing("LOW", 3, 3)>>,
      breaks |-> <<[direction |-> "UP", price |-> 4]>>],
     [swings |-> <<Swing("LOW", 1, 3), Swing("HIGH", 2, 9), Swing("LOW", 3, 1)>>,
      breaks |-> <<[direction |-> "UP", price |-> 3], [direction |-> "DOWN", price |-> 9]>>]}

M15Snapshots ==
    {Snapshot(q, r, s, "UP", "UP", st.swings, st.breaks) :
        q \in {"VALID", "STALE", "UNAVAILABLE"}, r \in {"UP", "DOWN", "LEVEL", "NONE"}, s \in {"UP", "DOWN"}, st \in Structures}
H1Snapshots ==
    {Snapshot("VALID", r, s, m, "UP", <<>>, b) :
        r \in {"UP", "DOWN", "NONE"}, s \in {"UP", "LEVEL"}, m \in {"UP", "DOWN"},
        b \in {<<>>, <<[direction |-> "UP", price |-> 5]>>, <<[direction |-> "DOWN", price |-> 5]>>}}

SnapshotPairs ==
    {[t \in {"M15", "H1"} |-> IF t = "M15" THEN m ELSE h] : m \in M15Snapshots, h \in H1Snapshots}
        \cup {[t \in {"M15"} |-> m] : m \in M15Snapshots} \cup {<<>>}

Symbol(tick, value, mode, min) ==
    [bid |-> 4, ask |-> 6, tick |-> tick, tickValue |-> value, minDistance |-> 2, mode |-> mode,
     volMin |-> min, volMax |-> 5, volStep |-> 2]
Symbols == {NoSymbol, Symbol(1, 1, "FULL", 1), Symbol(2, 3, "FULL", 1), Symbol(2, 1, "LONG_ONLY", 2)}

Account(rollover, equity, realized, floating, open) ==
    [rollover |-> rollover, equity |-> equity, realized |-> realized, floating |-> floating, openRisk |-> open]
Accounts ==
    {NoAccount, Account(600, 600, 0, 0, 0), Account(600, 590, -6, -4, 2), Account(600, 660, 60, 0, 0),
     Account(600, 500, -1, 0, 40), Account(600, 400, 0, 0, 16)}

\* external as production has it, and the news of two providers.
News(signs) ==
    [outcome |-> "PARTIAL", quality |-> "VALID",
     results |-> {[analyst |-> "NEWS_SENTIMENT", scope |-> "BTC", time |-> 0,
                   result |-> AnalyzedByWorst(
                       {[dimension |-> "PER_PROVIDER_SENTIMENT_SIGN", subject |-> <<p>>, value |-> signs[p],
                         quality |-> "VALID"] : p \in DOMAIN signs}
                       \cup Observe("SENTIMENT_PROVIDER_AGREEMENT", <<>>,
                              AgreementOf({[p |-> p, value |-> signs[p]] : p \in DOMAIN signs}), "VALID"))]}]
Externals == {NoContour} \cup {News(<<a, b>>) : a \in {"UP", "LEVEL"}, b \in {"UP", "DOWN", "LEVEL"}}

MarketOf(s, x, y, a, e, l, w) ==
    [snapshots |-> s, technical |-> NoContour, structure |-> NoStructure, flow |-> x, external |-> w,
     symbol |-> y, account |-> a, event |-> e, locked |-> l]
Flow(o) == [outcome |-> o, quality |-> "VALID"]

\* Every pair of snapshots with the usual facts, every combination of facts
\* with a pair that agrees.
TheMarkets ==
    {MarketOf(s, Flow("PARTIAL"), y, Account(600, 600, 0, 0, 0), FALSE, FALSE, NoContour) :
        s \in SnapshotPairs, y \in {Symbol(2, 3, "FULL", 1)}}
    \cup
    {MarketOf([t \in {"M15", "H1"} |-> Snapshot("VALID", "UP", "UP", "UP", "UP", st.swings, st.breaks)],
              x, y, a, e, l, w) :
        st \in Structures, x \in {NoContour, Flow("ANALYZED"), Flow("INSUFFICIENT_EVIDENCE")}, y \in Symbols,
        a \in Accounts, e \in BOOLEAN, l \in BOOLEAN, w \in {NoContour}}
    \cup
    {MarketOf(<<>>, NoContour, NoSymbol, NoAccount, FALSE, FALSE, w) : w \in Externals}

==============================================================================
