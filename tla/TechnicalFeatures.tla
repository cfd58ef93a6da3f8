--------------------------- MODULE TechnicalFeatures ---------------------------
(***************************************************************************)
(* The features of a timeframe (app/technical): the seven blocks           *)
(* TechnicalFeatureEngine.build_snapshot computes of its closed candles,   *)
(* told by what the analysts of TechnicalEvidence read of them.            *)
(*                                                                         *)
(* A candle is [at, open, high, low, close]; a series is a sequence of     *)
(* candles in the order of their times, and duration the length of its     *)
(* timeframe.  A Decimal is a fraction <<numerator, denominator>>; prices  *)
(* are above zero (map_mt5_rate).                                          *)
(***************************************************************************)
EXTENDS TechnicalEvidence, SequencesExt

CONSTANTS LeftBars, RightBars,  \* of a swing
          TrendLookback, RangeLookback, AtrPeriod, RocPeriod, RsiPeriod,
          AveragePeriods

ASSUME FeatureAssumption ==
    /\ {LeftBars, RightBars, AtrPeriod, RocPeriod, RsiPeriod} \cup AveragePeriods \subseteq Nat \ {0}
    /\ AveragePeriods # {}
    /\ TrendLookback \in Nat \ {0, 1} /\ RangeLookback \in Nat \ {0, 1}

LastOf(s, n) == SubSeq(s, Max({1, Len(s) - n + 1}), Len(s))
Closes(s) == [i \in DOMAIN s |-> s[i].close]
Pairs(s) == 1..(Len(s) - 1)
TotalOf(s) == FoldLeft(+, 0, s)
Abs(x) == IF x < 0 THEN -x ELSE x
Highest(s) == Max({s[i].high : i \in DOMAIN s})
Lowest(s) == Min({s[i].low : i \in DOMAIN s})

\* contiguous_tail: the candles up to the last without one missing between.
ContiguousTail(s, duration) ==
    IF s = <<>> THEN <<>>
    ELSE SubSeq(s, Min({i \in DOMAIN s : \A j \in i..(Len(s) - 1) : s[j + 1].at - s[j].at = duration}), Len(s))

\* The quality of a block that has something of what it needs, or all.
QualityBy(nothing, all) == IF nothing THEN "UNAVAILABLE" ELSE IF all THEN "VALID" ELSE "PARTIAL"

CompareFractions(a, b) == SignOf(a[1] * b[2], b[1] * a[2])

----------------------------------------------------------------------------
\* Trend.

\* The sign of _ols_slope: positions are counted from the middle, twice over.
SlopeSign(closes) ==
    LET n == Len(closes)
    IN  IF n < 2 THEN "NONE" ELSE SignOf(TotalOf([i \in 1..n |-> (2 * i - n - 1) * closes[i]]), 0)

TrendFeatures(tail) ==
    LET used == LastOf(tail, TrendLookback + 1)
        n == Len(used)
        c == Closes(used)
        return == IF n < TrendLookback + 1 THEN "NONE" ELSE SignOf(c[n], c[1])
        pairs(P(_, _)) == Cardinality({i \in Pairs(used) : P(used[i], used[i + 1])})
        moves == {i \in Pairs(used) : c[i] # c[i + 1]}
    IN  IF n < 2 THEN [quality |-> "UNAVAILABLE", return |-> "NONE", slope |-> "NONE",
                       upCount |-> 0, downCount |-> 0, persistence |-> "NONE"]
        ELSE [quality |-> QualityBy(FALSE, n >= TrendLookback + 1),
              return |-> return,
              slope |-> SlopeSign(c),
              upCount |-> pairs(LAMBDA a, b : b.high > a.high) + pairs(LAMBDA a, b : b.low > a.low),
              downCount |-> pairs(LAMBDA a, b : b.high < a.high) + pairs(LAMBDA a, b : b.low < a.low),
              persistence |-> IF return \notin Directional THEN "NONE"
                              ELSE BoundaryOf(Cardinality({i \in moves : SignOf(c[i + 1], c[i]) = return}),
                                              Cardinality(moves))]

----------------------------------------------------------------------------
\* Market structure.  A pivot is a bar and a kind.

\* Wrong: a swing is taken before the bars to its right are there.
IsSwingEarly(s, p) ==
    LET beyond(a, b) == IF p.kind = "HIGH" THEN a.high > b.high ELSE a.low < b.low
    IN  /\ p.bar > LeftBars
        /\ \A i \in (p.bar - LeftBars)..Min({Len(s), p.bar + RightBars}) :
              i = p.bar \/ beyond(s[p.bar], s[i])

\* _detect_swings
IsSwing(s, p) ==
    LET beyond(a, b) == IF p.kind = "HIGH" THEN a.high > b.high ELSE a.low < b.low
    IN  /\ p.bar > LeftBars /\ p.bar + RightBars <= Len(s)
        /\ \A i \in (p.bar - LeftBars)..(p.bar + RightBars) : i = p.bar \/ beyond(s[p.bar], s[i])

\* Bar by bar, HIGH before LOW.
Pivots(s) ==
    LET pivot == [k \in 1..(2 * Len(s)) |-> [bar |-> (k + 1) \div 2, kind |-> IF k % 2 = 1 THEN "HIGH" ELSE "LOW"]]
    IN  Ranked(pivot, [k \in {k \in DOMAIN pivot : IsSwing(s, pivot[k])} |-> k])

PriceOf(s, p) == IF p.kind = "HIGH" THEN s[p.bar].high ELSE s[p.bar].low

\* _detect_breaks: the bars after its confirmation that close beyond a swing.
BreakingBars(s, p) ==
    {j \in (p.bar + RightBars + 1)..Len(s) :
        IF p.kind = "HIGH" THEN s[j].close > PriceOf(s, p) ELSE s[j].close < PriceOf(s, p)}

\* In the order of (break_candle_time, direction), and of the swings.
BrokenInOrder(s) ==
    LET pivots == Pivots(s)
        broken == {i \in DOMAIN pivots : BreakingBars(s, pivots[i]) # {}}
        order(p) == 2 * Min(BreakingBars(s, p)) + IF p.kind = "LOW" THEN 0 ELSE 1
    IN  Ranked(pivots, [i \in broken |-> order(pivots[i])])

StructureFeatures(tail) ==
    [quality |-> QualityBy(tail = <<>>, Len(tail) >= LeftBars + RightBars + 1),
     swings |-> [i \in DOMAIN Pivots(tail) |->
                   LET p == Pivots(tail)[i]
                   IN  [kind |-> p.kind, at |-> tail[p.bar].at, price |-> PriceOf(tail, p)]],
     breaks |-> [i \in DOMAIN BrokenInOrder(tail) |->
                   LET p == BrokenInOrder(tail)[i]
                   IN  [direction |-> IF p.kind = "HIGH" THEN "UP" ELSE "DOWN",
                        price |-> PriceOf(tail, p), swingAt |-> tail[p.bar].at,
                        at |-> tail[Min(BreakingBars(tail, p))].at]]]

----------------------------------------------------------------------------
\* Averages, as fractions.

\* Wilder's average of wilder_atr and wilder_rsi; Len(s) >= period.
WilderAverage(s, period) ==
    FoldLeft(LAMBDA a, x : <<a[1] * (period - 1) + x * a[2], a[2] * period>>,
             <<TotalOf(SubSeq(s, 1, period)), period>>, SubSeq(s, period + 1, Len(s)))

\* simple_moving_average and the last of exponential_moving_average.
SimpleAverage(s, period) == <<TotalOf(LastOf(s, period)), period>>
ExponentialAverage(s, period) ==
    FoldLeft(LAMBDA a, x : <<a[1] * (period - 1) + 2 * x * a[2], a[2] * (period + 1)>>,
             <<TotalOf(SubSeq(s, 1, period)), period>>, SubSeq(s, period + 1, Len(s)))

\* The sign of the slope of the last MA_SLOPE_WINDOW values, 3 or fewer: of
\* the last against the first of them.
AverageSlope(s, period) ==
    LET n == Len(s)
    IN  IF n <= period THEN "NONE"
        ELSE CompareFractions(ExponentialAverage(s, period),
                              ExponentialAverage(SubSeq(s, 1, Max({n - 2, period})), period))

AverageFeatures(tail) ==
    LET c == Closes(tail)
        n == Len(c)
        has(p) == n >= p
        fast == Min(AveragePeriods)
        slow == Max(AveragePeriods)
    IN  [quality |-> QualityBy(n = 0, has(slow)),
         periods |-> AveragePeriods,
         distance |-> [p \in AveragePeriods |->
                         IF has(p) THEN CompareFractions(<<c[n], 1>>, SimpleAverage(c, p)) ELSE "NONE"],
         maSlope |-> [p \in AveragePeriods |-> AverageSlope(c, p)],
         ordering |-> IF has(slow) THEN CompareFractions(SimpleAverage(c, fast), SimpleAverage(c, slow)) ELSE "NONE"]

\* The RSI is above 50 when the average gain is above the average loss: when
\* the average of the changes is positive.
MomentumFeatures(tail) ==
    LET c == Closes(tail)
        n == Len(c)
        changes == [i \in Pairs(c) |-> c[i + 1] - c[i]]
    IN  [quality |-> QualityBy(n = 0, n > RocPeriod /\ n > RsiPeriod),
         roc |-> IF n > RocPeriod THEN SignOf(c[n], c[n - RocPeriod]) ELSE "NONE",
         rsi |-> IF n > RsiPeriod THEN SignOf(WilderAverage(changes, RsiPeriod)[1], 0) ELSE "NONE"]

\* Wrong: only a gap upwards widens a candle.
TrueRangesUpward(s) ==
    [i \in Pairs(s) |-> Max({s[i + 1].high - s[i + 1].low, Abs(s[i + 1].high - s[i].close)})]

TrueRanges(s) ==
    [i \in Pairs(s) |-> Max({s[i + 1].high - s[i + 1].low, Abs(s[i + 1].high - s[i].close),
                             Abs(s[i + 1].low - s[i].close)})]

\* A value against the current ATR, which may be missing or zero.
AgainstAtr(value, tail) ==
    LET trs == TrueRanges(tail)
        atr == WilderAverage(trs, AtrPeriod)
    IN  CASE Len(trs) < AtrPeriod -> "NONE"
          [] Len(trs) >= AtrPeriod /\ atr[1] = 0 -> "NONE"
          [] OTHER -> CompareFractions(<<value, 1>>, atr)

VolatilityFeatures(tail) ==
    LET trs == TrueRanges(tail)
    IN  [quality |-> QualityBy(tail = <<>>, Len(trs) >= AtrPeriod),
         expansion |-> IF trs = <<>> THEN "NONE" ELSE AgainstAtr(trs[Len(trs)], tail)]

RangeFeatures(tail) ==
    LET window == LastOf(tail, RangeLookback)
        n == Len(window)
        gross == TotalOf([i \in Pairs(window) |-> Abs(window[i + 1].close - window[i].close)])
    IN  [quality |-> QualityBy(tail = <<>>, n = RangeLookback /\ Len(tail) > AtrPeriod),
         normalized |-> IF n = 0 THEN "NONE" ELSE AgainstAtr(Highest(window) - Lowest(window), tail),
         efficiency |-> IF n < 2 \/ gross = 0 THEN "NONE"
                        ELSE BoundaryOf(Abs(window[n].close - window[1].close), gross)]

\* Of the last candle alone.
CandleFeatures(s) ==
    IF s = <<>> THEN [quality |-> "UNAVAILABLE", rangeSize |-> "NONE", bodyToWicks |-> "NONE",
                      upperToLower |-> "NONE", closeLocation |-> "NONE"]
    ELSE LET c == s[Len(s)]
             body == Abs(c.close - c.open)
             upper == c.high - Max({c.open, c.close})
             lower == Min({c.open, c.close}) - c.low
             range == c.high - c.low
         IN  [quality |-> "VALID",
              rangeSize |-> IF range = 0 THEN "ZERO_RANGE" ELSE "NON_ZERO_RANGE",
              bodyToWicks |-> SignOf(body, upper + lower),
              upperToLower |-> SignOf(upper, lower),
              closeLocation |-> IF range = 0 THEN "NONE" ELSE SignOf(2 * (c.close - c.low), range)]

\* build_snapshot of the closed candles.
SnapshotOf(closed, duration) ==
    LET tail == ContiguousTail(closed, duration)
    IN  [trend |-> TrendFeatures(tail), structure |-> StructureFeatures(tail),
         volatility |-> VolatilityFeatures(tail), momentum |-> MomentumFeatures(tail),
         average |-> AverageFeatures(tail), candle |-> CandleFeatures(closed), range |-> RangeFeatures(tail)]

==============================================================================
