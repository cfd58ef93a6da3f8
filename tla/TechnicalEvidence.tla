--------------------------- MODULE TechnicalEvidence ---------------------------
(***************************************************************************)
(* The seven technical analysts (app/technical_analysts) and the technical *)
(* supervisor (app/technical_supervisor): one snapshot of features per     *)
(* timeframe becomes one result per analyst, and the results of all        *)
(* timeframes one aggregate with a coherence verdict per dimension.        *)
(***************************************************************************)
EXTENDS Evidence, FiniteSetsExt

CONSTANT MirrorSum  \* a price p mirrored is MirrorSum - p

TechnicalAnalysts ==
    {"TREND", "MARKET_STRUCTURE", "VOLATILITY", "MOMENTUM", "MOVING_AVERAGE",
     "CANDLE_STRUCTURE", "RANGE_STATE"}

FixedCoherenceDimensions ==
    {"RETURN_DIRECTION", "SLOPE_DIRECTION", "STRUCTURAL_SEQUENCE_BALANCE",
     "LATEST_BREAK_DIRECTION", "RANGE_EXPANSION_REFERENCE", "ROC_SIGN",
     "RSI_MIDPOINT_RELATION", "NORMALIZED_RANGE_REFERENCE"}

MovingAverageDimensions ==
    {"PRICE_VS_SMA_POSITION", "MA_SLOPE_DIRECTION", "MULTI_PERIOD_MA_ORDERING"}

TechnicalDimensions ==
    FixedCoherenceDimensions \cup MovingAverageDimensions \cup
    {"TREND_PRIMITIVE_AGREEMENT", "DIRECTIONAL_PERSISTENCE", "STRUCTURAL_BREAK_PRESENCE",
     "BREAK_SEQUENCE_PATTERN", "MOMENTUM_PRIMITIVE_AGREEMENT", "RANGE_SIZE_STATE",
     "BODY_WICK_DOMINANCE", "WICK_SIDE_COMPARISON", "CLOSE_LOCATION_RELATION",
     "DIRECTIONAL_EFFICIENCY_BOUNDARY"}

\* The values of the agreement, boundary, break and range enumerations; those
\* of the others are signs.
AgreementVerdicts == {"ALL_AGREE", "MIXED", "INSUFFICIENT_DATA"}
BoundaryPositions == {"AT_MINIMUM", "AT_MAXIMUM", "BETWEEN_BOUNDS"}
BreakPatterns == {"REPEATED_DIRECTION", "ALTERNATING", "INSUFFICIENT_DATA"}

\* boundary_position between 0 and 1, of a fraction of two numbers.
BoundaryOf(part, whole) ==
    CASE part = 0 -> "AT_MINIMUM" [] part = whole -> "AT_MAXIMUM" [] OTHER -> "BETWEEN_BOUNDS"

----------------------------------------------------------------------------
\* The analysts.  Each takes its block of features, with the block's quality.

TechnicalResult(f, observations) ==
    IF Qualifies(f.quality) THEN Analyzed(f.quality, observations) ELSE Abstained

TrendAnalyst(f) ==
    TechnicalResult(f,
        Observe("RETURN_DIRECTION", <<>>, f.return, f.quality)
        \cup Observe("SLOPE_DIRECTION", <<>>, f.slope, f.quality)
        \cup Observe("STRUCTURAL_SEQUENCE_BALANCE", <<>>, SignOf(f.upCount, f.downCount), f.quality)
        \cup (IF f.return = "NONE" /\ f.slope = "NONE" THEN {}
              ELSE Observe("TREND_PRIMITIVE_AGREEMENT", <<>>, PrimitiveAgreement(f.return, f.slope), f.quality))
        \cup Observe("DIRECTIONAL_PERSISTENCE", <<>>, f.persistence, f.quality))

MarketStructureAnalyst(f) ==
    LET n == Len(f.breaks)
        latest == IF n = 0 THEN "NONE" ELSE f.breaks[n].direction
        pattern == IF n < 2 THEN "INSUFFICIENT_DATA"
                   ELSE IF f.breaks[n - 1].direction = latest THEN "REPEATED_DIRECTION" ELSE "ALTERNATING"
    IN  TechnicalResult(f,
            Observe("STRUCTURAL_BREAK_PRESENCE", <<>>,
                    IF n = 0 THEN "NO_BREAK_CONFIRMED" ELSE "BREAK_CONFIRMED", f.quality)
            \cup Observe("LATEST_BREAK_DIRECTION", <<>>, latest, f.quality)
            \cup Observe("BREAK_SEQUENCE_PATTERN", <<>>, pattern, f.quality))

VolatilityAnalyst(f) ==
    TechnicalResult(f, Observe("RANGE_EXPANSION_REFERENCE", <<>>, f.expansion, f.quality))

MomentumAnalyst(f) ==
    TechnicalResult(f,
        Observe("ROC_SIGN", <<>>, f.roc, f.quality)
        \cup Observe("RSI_MIDPOINT_RELATION", <<>>, f.rsi, f.quality)
        \cup (IF f.roc = "NONE" /\ f.rsi = "NONE" THEN {}
              ELSE Observe("MOMENTUM_PRIMITIVE_AGREEMENT", <<>>, PrimitiveAgreement(f.roc, f.rsi), f.quality)))

\* f.ordering is that of the fastest and the slowest average.
MovingAverageAnalyst(f) ==
    TechnicalResult(f,
        (UNION {Observe("PRICE_VS_SMA_POSITION", <<p>>, f.distance[p], f.quality) : p \in f.periods})
        \cup (UNION {Observe("MA_SLOPE_DIRECTION", <<p>>, f.maSlope[p], f.quality) : p \in f.periods})
        \cup (IF Cardinality(f.periods) < 2 THEN {}
              ELSE Observe("MULTI_PERIOD_MA_ORDERING", <<Min(f.periods), Max(f.periods)>>, f.ordering, f.quality)))

CandleStructureAnalyst(f) ==
    TechnicalResult(f,
        Observe("RANGE_SIZE_STATE", <<>>, f.rangeSize, f.quality)
        \cup Observe("BODY_WICK_DOMINANCE", <<>>, f.bodyToWicks, f.quality)
        \cup Observe("WICK_SIDE_COMPARISON", <<>>, f.upperToLower, f.quality)
        \cup Observe("CLOSE_LOCATION_RELATION", <<>>, f.closeLocation, f.quality))

RangeStateAnalyst(f) ==
    TechnicalResult(f,
        Observe("NORMALIZED_RANGE_REFERENCE", <<>>, f.normalized, f.quality)
        \cup Observe("DIRECTIONAL_EFFICIENCY_BOUNDARY", <<>>, f.efficiency, f.quality))

\* One snapshot, every analyst: the loop of build_technical_result.
AnalyzeSnapshot(s) ==
    [a \in TechnicalAnalysts |->
        CASE a = "TREND" -> TrendAnalyst(s.trend)
          [] a = "MARKET_STRUCTURE" -> MarketStructureAnalyst(s.structure)
          [] a = "VOLATILITY" -> VolatilityAnalyst(s.volatility)
          [] a = "MOMENTUM" -> MomentumAnalyst(s.momentum)
          [] a = "MOVING_AVERAGE" -> MovingAverageAnalyst(s.average)
          [] a = "CANDLE_STRUCTURE" -> CandleStructureAnalyst(s.candle)
          [] a = "RANGE_STATE" -> RangeStateAnalyst(s.range)]

----------------------------------------------------------------------------
\* The supervisor.  results: timeframe -> analyst -> result; a cell that is
\* in neither domain is missing.

Observations(results, t) ==
    UNION {results[t][a].observations : a \in DOMAIN results[t]}

\* _tally_group: one entry per observation of the dimension and subject.
TallyGroup(results, dimension, subject) ==
    LET entries == {[timeframe |-> v[1], value |-> v[2].value] :
                       v \in UNION {{t} \X {o \in Observations(results, t) :
                                             o.dimension = dimension /\ o.subject = subject} :
                                    t \in DOMAIN results}}
        verdict == AgreementOf(entries)
    IN  [dimension |-> dimension, subject |-> subject, verdict |-> verdict,
         timeframes |-> IF verdict = "INSUFFICIENT_DATA" THEN {} ELSE {e.timeframe : e \in entries},
         values |-> IF verdict = "INSUFFICIENT_DATA" THEN {} ELSE {e.value : e \in entries}]

MovingAverageGroups(results) ==
    {<<o.dimension, o.subject>> :
        o \in {o \in UNION {Observations(results, t) : t \in DOMAIN results} :
                 o.dimension \in MovingAverageDimensions}}

BuildCoherence(results) ==
    {TallyGroup(results, d, <<>>) : d \in FixedCoherenceDimensions}
        \cup {TallyGroup(results, g[1], g[2]) : g \in MovingAverageGroups(results)}

TechnicalCells(results, status) ==
    {c \in TechnicalAnalysts \X DOMAIN results :
        c[1] \in DOMAIN results[c[2]] /\ results[c[2]][c[1]].status = status}

\* TechnicalSupervisor.aggregate over the expected timeframes.
AggregateTechnical(results, expected) ==
    LET analyzed == TechnicalCells(results, "ANALYZED")
    IN  [outcome |-> ParticipationOutcome(analyzed, TechnicalAnalysts \X expected),
         quality |-> OverallQuality({results[c[2]][c[1]].quality : c \in analyzed}),
         analyzed |-> analyzed,
         abstained |-> TechnicalCells(results, "ABSTAINED"),
         coherence |-> BuildCoherence(results),
         results |-> results]

\* The validators of TechnicalSupervisorResult and of its parts.
TechnicalAggregateIsValid(r, expected) ==
    /\ DOMAIN r.results \subseteq expected
    /\ r.analyzed \cap r.abstained = {}
    /\ \A t \in DOMAIN r.results : \A a \in DOMAIN r.results[t] :
         /\ ResultIsConsistent(r.results[t][a])
         /\ <<a, t>> \in IF r.results[t][a].status = "ANALYZED" THEN r.analyzed ELSE r.abstained
    /\ \A c, d \in r.coherence : c.dimension = d.dimension /\ c.subject = d.subject => c = d
    /\ \A c \in r.coherence :
         IF c.verdict = "INSUFFICIENT_DATA" THEN c.timeframes = {}
         ELSE /\ Cardinality(c.timeframes) >= 2
              /\ \A t \in c.timeframes :
                   Cardinality({o \in Observations(r.results, t) :
                                  o.dimension = c.dimension /\ o.subject = c.subject}) = 1

----------------------------------------------------------------------------
\* The mirror image of a snapshot: every price p becomes MirrorSum - p, and so
\* every feature that has a direction the opposite one.

Opposite(x) ==
    CASE x = "UP" -> "DOWN" [] x = "DOWN" -> "UP"
      [] x = "LONG" -> "SHORT" [] x = "SHORT" -> "LONG"
      [] x = "LOW" -> "HIGH" [] x = "HIGH" -> "LOW"
      [] x = "LONG_ONLY" -> "SHORT_ONLY" [] x = "SHORT_ONLY" -> "LONG_ONLY"
      [] OTHER -> x

MirrorStructure(s) ==
    [s EXCEPT !.swings = [i \in DOMAIN @ |-> [@[i] EXCEPT !.kind = Opposite(@), !.price = MirrorSum - @]],
              !.breaks = [i \in DOMAIN @ |-> [@[i] EXCEPT !.direction = Opposite(@), !.price = MirrorSum - @]]]

MirrorSnapshot(s) ==
    [s EXCEPT !.trend.return = Opposite(@), !.trend.slope = Opposite(@),
              !.trend.upCount = s.trend.downCount, !.trend.downCount = s.trend.upCount,
              !.structure = MirrorStructure(@),
              !.momentum.roc = Opposite(@), !.momentum.rsi = Opposite(@),
              !.average.distance = [p \in DOMAIN @ |-> Opposite(@[p])],
              !.average.maSlope = [p \in DOMAIN @ |-> Opposite(@[p])],
              !.average.ordering = Opposite(@),
              !.candle.upperToLower = Opposite(@), !.candle.closeLocation = Opposite(@)]

==============================================================================
