----------------------------- MODULE FlowEvidence -----------------------------
(***************************************************************************)
(* The six flow analysts (app/flow_analysts) and the flow supervisor       *)
(* (app/flow_supervisor): the flow snapshot of one observation time        *)
(* becomes one result per analyst, and those one aggregate.                *)
(*                                                                         *)
(* Windows are numbered by their duration.  The parts of a snapshot:       *)
(*   taker        window -> [quality, delta, rate]                         *)
(*   liquidation  window -> [quality, imbalance, count]                    *)
(*   book         [quality, bands: band -> [quality, imbalance, changes]], *)
(*                changes: <<side, window>> -> sign                        *)
(*   interest     [quality, windows: window -> [quality, known, change,    *)
(*                velocity]], known when percent_change is not None        *)
(*   funding      [quality, rate, basis, windows: window -> [quality,      *)
(*                trend]]                                                  *)
(*   price        window -> [quality, return]                              *)
(*   cross        window -> [quality, correlation]                         *)
(* A rate, change or count is a number, because two are compared; the      *)
(* others are signs.  A part that is None has quality UNAVAILABLE, which   *)
(* its analyst treats alike.                                               *)
(***************************************************************************)
EXTENDS Evidence, FiniteSetsExt

FlowAnalysts ==
    {"TAKER_FLOW", "LIQUIDATION", "ORDER_BOOK_LIQUIDITY", "OPEN_INTEREST", "FUNDING",
     "PRICE_FLOW_RELATIONSHIP"}

RelationshipDimensions ==
    {"PRICE_TAKER_RELATIONSHIP", "PRICE_OPEN_INTEREST_RELATIONSHIP",
     "PRICE_LIQUIDATION_RELATIONSHIP"}

\* ordinal_trend: the shortest window against the longest.
OrdinalTrend(shortest, longest) ==
    CASE shortest > longest -> "INCREASING"
      [] shortest < longest -> "DECREASING"
      [] OTHER -> "STABLE"

\* The observations over all windows of one analyst: the agreement of the
\* categories of its qualifying windows, and the trend of a magnitude from
\* the longest window to the shortest.
AcrossWindows(ws, category(_), magnitude(_), quality(_)) ==
    IF ws = {} THEN {}
    ELSE LET short == Min(ws)
             long == Max(ws)
         IN  Observe("PERSISTENCE", <<>>, AgreementOf({[window |-> w, value |-> category(w)] : w \in ws}),
                     WorstOf({quality(w) : w \in ws}))
             \cup Observe("MAGNITUDE_TREND", <<>>,
                     IF short = long THEN "INSUFFICIENT_DATA"
                     ELSE OrdinalTrend(magnitude(short), magnitude(long)),
                     WorstOf({quality(short), quality(long)}))

----------------------------------------------------------------------------
\* The analysts.

UsableWindows(f) == {w \in DOMAIN f : Qualifies(f[w].quality)}

TakerFlowAnalyst(f) ==
    LET ws == UsableWindows(f)
    IN  AnalyzedByWorst(
            (UNION {Observe("DIRECTIONAL_PRESSURE", <<w>>, f[w].delta, f[w].quality) : w \in ws})
            \cup AcrossWindows(ws, LAMBDA w : f[w].delta, LAMBDA w : f[w].rate, LAMBDA w : f[w].quality))

LiquidationAnalyst(f) ==
    AnalyzedByWorst(
        UNION {Observe("DIRECTIONAL_PRESSURE", <<w>>, f[w].imbalance, f[w].quality)
                 \cup Observe("ACTIVITY_PRESENCE", <<w>>,
                        IF f[w].count > 0 THEN "ACTIVITY_PRESENT" ELSE "NO_ACTIVITY", f[w].quality) :
               w \in UsableWindows(f)})

\* The bands share one agreement; each has its pressure and its depth changes.
OrderBookLiquidityAnalyst(f) ==
    LET bands == UsableWindows(f.bands)
        pressed == {b \in bands : f.bands[b].imbalance # "NONE"}
    IN  IF ~Qualifies(f.quality) THEN Abstained
        ELSE AnalyzedByWorst(
            (UNION {Observe("DIRECTIONAL_PRESSURE", <<b>>, f.bands[b].imbalance, f.bands[b].quality) : b \in bands})
            \cup (UNION {UNION {Observe("DEPTH_TREND", <<b>> \o c, f.bands[b].changes[c], f.bands[b].quality) :
                                 c \in DOMAIN f.bands[b].changes} : b \in bands})
            \cup (IF pressed = {} THEN {}
                  ELSE Observe("CROSS_BAND_AGREEMENT", <<>>,
                           AgreementOf({[band |-> b, value |-> f.bands[b].imbalance] : b \in pressed}),
                           WorstOf({f.bands[b].quality : b \in pressed}))))

OpenInterestAnalyst(f) ==
    LET ws == {w \in UsableWindows(f.windows) : f.windows[w].known}
        win(w) == f.windows[w]
    IN  IF ~Qualifies(f.quality) THEN Abstained
        ELSE AnalyzedByWorst(
            (UNION {Observe("OPEN_INTEREST_TREND", <<w>>, SignOf(win(w).change, 0), win(w).quality) : w \in ws})
            \cup (UNION {Observe("OPEN_INTEREST_VELOCITY_TREND", <<w>>, win(w).velocity, win(w).quality) :
                       w \in UsableWindows(f.windows)})
            \cup AcrossWindows(ws, LAMBDA w : SignOf(win(w).change, 0), LAMBDA w : win(w).change,
                               LAMBDA w : win(w).quality))

FundingAnalyst(f) ==
    IF ~Qualifies(f.quality) THEN Abstained
    ELSE AnalyzedByWorst(
        Observe("FUNDING_SIGN", <<>>, f.rate, f.quality)
        \cup Observe("BASIS_SIGN", <<>>, f.basis, f.quality)
        \cup UNION {Observe("FUNDING_TREND", <<w>>, f.windows[w].trend, f.windows[w].quality) :
                    w \in UsableWindows(f.windows)})

\* _relationship
Relationship(price, other) ==
    CASE "LEVEL" \in {price, other} -> "NO_DIRECTION"
      [] price = other -> "AGREEMENT"
      [] OTHER -> "DIVERGENCE"

PriceFlowRelationshipAnalyst(s) ==
    LET priced == {w \in UsableWindows(s.price) : s.price[w].return # "NONE"}
        interest == {w \in UsableWindows(s.interest.windows) : s.interest.windows[w].known}
        leg(dimension, ws, value(_), quality(_)) ==
            UNION {Observe(dimension, <<w>>, Relationship(s.price[w].return, value(w)),
                           WorstOf({s.price[w].quality, quality(w)})) : w \in priced \cap ws}
    IN  AnalyzedByWorst(
            (UNION {Observe("CORRELATION_RELATIONSHIP", <<w>>, s.cross[w].correlation, s.cross[w].quality) :
                   w \in UsableWindows(s.cross)})
            \cup leg("PRICE_TAKER_RELATIONSHIP", UsableWindows(s.taker),
                     LAMBDA w : s.taker[w].delta, LAMBDA w : s.taker[w].quality)
            \cup leg("PRICE_OPEN_INTEREST_RELATIONSHIP", interest,
                     LAMBDA w : SignOf(s.interest.windows[w].change, 0), LAMBDA w : s.interest.windows[w].quality)
            \cup leg("PRICE_LIQUIDATION_RELATIONSHIP", UsableWindows(s.liquidation),
                     LAMBDA w : s.liquidation[w].imbalance, LAMBDA w : s.liquidation[w].quality))

\* One flow snapshot, every analyst.
AnalyzeFlow(s) ==
    [a \in FlowAnalysts |->
        CASE a = "TAKER_FLOW" -> TakerFlowAnalyst(s.taker)
          [] a = "LIQUIDATION" -> LiquidationAnalyst(s.liquidation)
          [] a = "ORDER_BOOK_LIQUIDITY" -> OrderBookLiquidityAnalyst(s.book)
          [] a = "OPEN_INTEREST" -> OpenInterestAnalyst(s.interest)
          [] a = "FUNDING" -> FundingAnalyst(s.funding)
          [] a = "PRICE_FLOW_RELATIONSHIP" -> PriceFlowRelationshipAnalyst(s)]

----------------------------------------------------------------------------
\* The supervisor.

\* _relationship_coherence: a dimension speaks when its windows agree, and
\* the verdict is over the dimensions that speak.
RelationshipCoherence(results) ==
    IF "PRICE_FLOW_RELATIONSHIP" \notin DOMAIN results
    THEN [verdict |-> "INSUFFICIENT_DATA", refs |-> {}]
    ELSE LET of(d) == {o \in results["PRICE_FLOW_RELATIONSHIP"].observations : o.dimension = d}
             speaking == {d \in RelationshipDimensions : AgreementOf(of(d)) = "ALL_AGREE"}
             said == {[dimension |-> d, value |-> (CHOOSE o \in of(d) : TRUE).value] : d \in speaking}
         IN  IF Cardinality(speaking) < 2 THEN [verdict |-> "INSUFFICIENT_DATA", refs |-> {}]
             ELSE [verdict |-> AgreementOf(said), refs |-> UNION {of(d) : d \in speaking}]

FlowCells(results, status) == {a \in DOMAIN results : results[a].status = status}

\* FlowSupervisor.aggregate over all six analysts.
AggregateFlow(results) ==
    LET analyzed == FlowCells(results, "ANALYZED")
    IN  [outcome |-> ParticipationOutcome(analyzed, FlowAnalysts),
         quality |-> OverallQuality({results[a].quality : a \in analyzed}),
         analyzed |-> analyzed,
         abstained |-> FlowCells(results, "ABSTAINED"),
         coherence |-> RelationshipCoherence(results),
         results |-> results]

\* The validators of FlowSupervisorResult and of the results in it.
FlowAggregateIsValid(r) ==
    /\ r.analyzed \cap r.abstained = {}
    /\ DOMAIN r.results = r.analyzed \cup r.abstained
    /\ \A a \in DOMAIN r.results :
         /\ ResultIsConsistent(r.results[a])
         /\ a \in IF r.results[a].status = "ANALYZED" THEN r.analyzed ELSE r.abstained
    /\ r.coherence.verdict = "INSUFFICIENT_DATA" <=> r.coherence.refs = {}
    /\ r.coherence.refs \subseteq UNION {r.results[a].observations : a \in DOMAIN r.results}

==============================================================================
