----------------------------- MODULE TradeDecision -----------------------------
(***************************************************************************)
(* From the evidence of the contours to candidate setups: MarketEvaluator  *)
(* (app/market_evaluation), StrategyRouter (app/strategies), Judge         *)
(* (app/judge), PolicyGate (app/decision/gate.py) and SetupConstruction    *)
(* (app/decision/setup_construction.py), as functions of one market.       *)
(*                                                                         *)
(* A market is a record of                                                 *)
(*   technical  an aggregate of TechnicalEvidence, or NoContour            *)
(*   flow       [outcome, quality], or NoContour                           *)
(*   external   an aggregate of ExternalEvidence, or NoContour             *)
(*   structure  the structure features of M15: [quality, swings, breaks],  *)
(*              a swing [kind, at, price], a break [direction, price] with *)
(*              the price of the broken swing; or NoStructure              *)
(*   symbol     [bid, ask, tick, tickValue, minDistance, ...], or NoSymbol *)
(* A map of the judge takes UP to LONG, DOWN to SHORT and LEVEL to None.   *)
(***************************************************************************)
EXTENDS TechnicalEvidence

CONSTANTS NoContour, NoStructure, NoSymbol,
          DecisionSymbol,     \* context.symbol
          DecisionExposures   \* currencies, assets and networks of the context

StrategyFamilies == {"TREND_FOLLOWING", "MEAN_REVERSION", "BREAKOUT", "EVENT_DRIVEN"}

----------------------------------------------------------------------------
\* MarketEvaluator.

ContourStatus(contour) == IF contour = NoContour THEN "MISSING" ELSE contour.outcome
ContourQuality(contour) == IF contour = NoContour THEN "NONE" ELSE contour.quality

EvaluationOutcome(m) ==
    LET statuses == {ContourStatus(c) : c \in {m.technical, m.flow, m.external}}
    IN  CASE statuses = {"ANALYZED"} -> "EVALUATED"
          [] statuses \cap {"ANALYZED", "PARTIAL"} # {} /\ statuses # {"ANALYZED"} -> "PARTIAL"
          [] OTHER -> "INSUFFICIENT_EVIDENCE"

\* _align_external_scopes
AlignedScopes(m) ==
    IF m.external = NoContour THEN {}
    ELSE {r \in m.external.results :
            IF r.analyst = "NEWS_SENTIMENT" THEN r.scope = DecisionSymbol ELSE r.scope \in DecisionExposures}

----------------------------------------------------------------------------
\* StrategyRouter.

RequiredContours(m, family) ==
    CASE family = "BREAKOUT" -> {m.technical, m.flow}
      [] family = "EVENT_DRIVEN" -> {m.external}
      [] OTHER -> {m.technical}

EligibleFamilies(m) ==
    {f \in StrategyFamilies :
        /\ \A c \in RequiredContours(m, f) :
             /\ ContourStatus(c) \in {"ANALYZED", "PARTIAL"}
             /\ ContourQuality(c) # "UNAVAILABLE"
        /\ f = "EVENT_DRIVEN" => AlignedScopes(m) # {}}

----------------------------------------------------------------------------
\* Judge.  A reference to an observation is the observation, with the role it
\* plays and the timeframe or the analyst it is of.

CandidateOf(value) ==
    CASE value = "UP" -> "LONG" [] value = "DOWN" -> "SHORT" [] OTHER -> "NONE"

Judged(outcome, direction, refs) == [outcome |-> outcome, direction |-> direction, refs |-> refs]

Insufficient == Judged("INSUFFICIENT_EVIDENCE", "NONE", {})
Mixed(refs) == Judged("MIXED", "NONE", refs)
Directed(direction, refs) == Judged("DIRECTIONAL", direction, refs)

Unresolved == [conflict |-> FALSE, candidate |-> "NONE", refs |-> {}]

CoherenceRefs(technical, entry, role) ==
    UNION {{[role |-> role, of |-> t, observation |-> o] :
              o \in {o \in Observations(technical.results, t) :
                       o.dimension = entry.dimension /\ o.subject = entry.subject}} :
           t \in entry.timeframes}

\* Wrong: timeframes that disagree leave the dimension unresolved.
ResolveAgreedEntry(technical, entry, role) ==
    LET candidates == {CandidateOf(v) : v \in entry.values}
    IN  IF entry.verdict = "ALL_AGREE" /\ candidates # {"NONE"}
        THEN [conflict |-> FALSE, candidate |-> CHOOSE c \in candidates : TRUE,
              refs |-> CoherenceRefs(technical, entry, role)]
        ELSE Unresolved

\* _resolve_coherence_entry
ResolveEntry(technical, entry, role) ==
    LET refs == CoherenceRefs(technical, entry, role)
        candidates == {CandidateOf(v) : v \in entry.values}
    IN  CASE entry.verdict = "MIXED" -> [conflict |-> TRUE, candidate |-> "NONE", refs |-> refs]
          [] entry.verdict = "ALL_AGREE" /\ candidates # {"NONE"} ->
               [conflict |-> FALSE, candidate |-> CHOOSE c \in candidates : TRUE, refs |-> refs]
          [] OTHER -> Unresolved

EntriesOf(technical, dimension) == {e \in technical.coherence : e.dimension = dimension}

\* _resolve_single_dimension, of the dimensions that have one entry.
ResolveDimension(technical, dimension, role) ==
    ResolveEntry(technical, CHOOSE e \in EntriesOf(technical, dimension) : TRUE, role)

TrendCorroborators ==
    {"PRICE_VS_SMA_POSITION", "MA_SLOPE_DIRECTION", "MULTI_PERIOD_MA_ORDERING",
     "STRUCTURAL_SEQUENCE_BALANCE", "RSI_MIDPOINT_RELATION"}

\* _corroborating_veto_refs: a corroborator that is mixed is no veto.
VetoRefs(technical, direction) ==
    UNION {LET r == ResolveEntry(technical, e, "CORROBORATING")
           IN  IF r.candidate \in {"NONE", direction} THEN {} ELSE r.refs :
           e \in UNION {EntriesOf(technical, d) : d \in TrendCorroborators}}

JudgeTrendFollowing(technical) ==
    LET return == ResolveDimension(technical, "RETURN_DIRECTION", "PRIMARY")
        slope == ResolveDimension(technical, "SLOPE_DIRECTION", "PRIMARY")
        candidates == {return.candidate, slope.candidate} \ {"NONE"}
        direction == CHOOSE c \in candidates : TRUE
        primary == return.refs \cup slope.refs
        vetoes == VetoRefs(technical, direction)
    IN  CASE return.conflict -> Mixed(return.refs)
          [] ~return.conflict /\ slope.conflict -> Mixed(slope.refs)
          [] ~return.conflict /\ ~slope.conflict /\ candidates = {} -> Insufficient
          [] ~return.conflict /\ ~slope.conflict /\ candidates # {} ->
               CASE Cardinality(candidates) > 1 -> Mixed(primary)
                 [] Cardinality(candidates) = 1 /\ vetoes # {} -> Mixed(primary \cup vetoes)
                 [] OTHER -> Directed(direction, primary)

\* _structural_break_confirmed_refs: of every timeframe.
BreakRefs(technical) ==
    UNION {{[role |-> "PRIMARY", of |-> t, observation |-> o] :
              o \in {o \in Observations(technical.results, t) :
                       o.dimension = "STRUCTURAL_BREAK_PRESENCE" /\ o.value = "BREAK_CONFIRMED"}} :
           t \in DOMAIN technical.results}

JudgeBreakout(technical) ==
    LET latest == ResolveDimension(technical, "LATEST_BREAK_DIRECTION", "PRIMARY")
        return == ResolveDimension(technical, "RETURN_DIRECTION", "CORROBORATING")
        breaks == BreakRefs(technical)
        primary == breaks \cup latest.refs
    IN  CASE latest.conflict -> Mixed(latest.refs)
          [] ~latest.conflict /\ (breaks = {} \/ latest.candidate = "NONE") -> Insufficient
          [] OTHER ->
               IF return.candidate \in {"NONE", latest.candidate}
               THEN Directed(latest.candidate, primary)
               ELSE Mixed(primary \cup return.refs)

\* _resolve_news_sentiment_result
ResolveNews(r) ==
    LET of(dimension) == {o \in r.result.observations : o.dimension = dimension}
        agreement == {o.value : o \in of("SENTIMENT_PROVIDER_AGREEMENT")}
        signed == {o \in of("PER_PROVIDER_SENTIMENT_SIGN") : CandidateOf(o.value) # "NONE"}
        refs == {[role |-> "PRIMARY", of |-> r.analyst, observation |-> o] : o \in signed}
    IN  CASE agreement = {"MIXED"} -> [conflict |-> TRUE, candidate |-> "NONE", refs |-> refs]
          [] agreement = {"ALL_AGREE"} /\ signed # {} ->
               [conflict |-> FALSE, candidate |-> CandidateOf((CHOOSE o \in signed : TRUE).value), refs |-> refs]
          [] OTHER -> Unresolved

JudgeEventDriven(m) ==
    LET resolved == {ResolveNews(r) : r \in {r \in AlignedScopes(m) : r.analyst = "NEWS_SENTIMENT"}}
        conflicts == {r \in resolved : r.conflict}
        candidates == {r.candidate : r \in resolved} \ {"NONE"}
        refs == UNION {r.refs : r \in resolved}
    IN  CASE conflicts # {} -> Mixed((CHOOSE r \in conflicts : TRUE).refs)
          [] conflicts = {} /\ candidates = {} -> Insufficient
          [] conflicts = {} /\ Cardinality(candidates) > 1 -> Mixed(refs)
          [] OTHER -> Directed(CHOOSE c \in candidates : TRUE, refs)

Judge(m, family) ==
    CASE family = "TREND_FOLLOWING" -> JudgeTrendFollowing(m.technical)
      [] family = "BREAKOUT" -> JudgeBreakout(m.technical)
      [] family = "EVENT_DRIVEN" -> JudgeEventDriven(m)
      [] family = "MEAN_REVERSION" -> Insufficient

\* JudgeFamilyResult.
JudgementIsValid(j) ==
    /\ (j.outcome = "DIRECTIONAL") <=> (j.direction # "NONE")
    /\ j.outcome = "INSUFFICIENT_EVIDENCE" => j.refs = {}
    /\ j.outcome = "DIRECTIONAL" => \E r \in j.refs : r.role = "PRIMARY"
    /\ j.outcome = "MIXED" => Cardinality(j.refs) >= 2

----------------------------------------------------------------------------
\* PolicyGate.

PassesPolicy(j) ==
    /\ j.outcome = "DIRECTIONAL"
    /\ \A r \in j.refs : r.observation.quality \in {"VALID", "PARTIAL"}

----------------------------------------------------------------------------
\* SetupConstruction.

EntryPrice(direction, symbol) == IF direction = "LONG" THEN symbol.ask ELSE symbol.bid

\* Wrong: always rounded down.
RoundStopDown(price, direction, tick) == (price \div tick) * tick

\* _round_stop_to_tick: away from the entry.
RoundStop(price, direction, tick) ==
    IF direction = "LONG" THEN (price \div tick) * tick ELSE -((-price) \div tick) * tick

BrokerDistance(direction, symbol, stop) ==
    IF direction = "LONG" THEN symbol.bid - stop ELSE stop - symbol.ask

\* The swing behind a trend, and the swing a breakout broke: a set of its
\* price, or empty.
TrendStop(direction, structure) ==
    LET behind == {s \in {structure.swings[i] : i \in DOMAIN structure.swings} :
                     s.kind = IF direction = "LONG" THEN "LOW" ELSE "HIGH"}
    IN  {s.price : s \in {s \in behind : \A r \in behind : r.at <= s.at}}

BreakoutStop(direction, structure) ==
    LET n == Len(structure.breaks)
    IN  IF n > 0 /\ CandidateOf(structure.breaks[n].direction) = direction
        THEN {structure.breaks[n].price} ELSE {}

SetupBlocked(reason) == [outcome |-> "BLOCKED", reason |-> reason]

Geometry(direction, entry, stop) == IF direction = "LONG" THEN stop < entry ELSE stop > entry

Distance(entry, stop) == IF entry > stop THEN entry - stop ELSE stop - entry

\* Wrong: the value of a tick is left out.
RiskInTicks(entry, stop, symbol) == Distance(entry, stop) \div symbol.tick

\* risk_per_unit; the prices are multiples of the tick.
RiskPerUnit(entry, stop, symbol) == (Distance(entry, stop) \div symbol.tick) * symbol.tickValue

\* _symbol_facts_usable: a tick of zero stands for a point of zero as well, which
\* is refused with it; minDistance, so many points, is not read before.
SymbolUsable(symbol) == symbol # NoSymbol /\ symbol.tick > 0 /\ symbol.tickValue > 0

StructureUsable(structure) == structure # NoStructure /\ structure.quality \in {"VALID", "PARTIAL"}

\* _construct_structural_family
ConstructStructural(m, family, direction) ==
    IF ~SymbolUsable(m.symbol) \/ ~StructureUsable(m.structure) THEN SetupBlocked("SHARED_FACT_UNAVAILABLE")
    ELSE LET stops == IF family = "TREND_FOLLOWING" THEN TrendStop(direction, m.structure)
                      ELSE BreakoutStop(direction, m.structure)
             entry == EntryPrice(direction, m.symbol)
             stop == RoundStop(CHOOSE p \in stops : TRUE, direction, m.symbol.tick)
         IN  CASE stops = {} -> SetupBlocked("MISSING_STOP_REFERENCE")
               [] stops # {} /\ ~Geometry(direction, entry, stop) -> SetupBlocked("INVALID_STOP_SIDE")
               [] OTHER ->
                    IF BrokerDistance(direction, m.symbol, stop) < m.symbol.minDistance
                    THEN SetupBlocked("BROKER_STOP_DISTANCE")
                    ELSE [outcome |-> "CONSTRUCTED", direction |-> direction, entry |-> entry, stop |-> stop,
                          risk |-> RiskPerUnit(entry, stop, m.symbol)]

\* The setups of the families that pass the policy.
Construct(m, judged) ==
    [f \in {f \in DOMAIN judged : PassesPolicy(judged[f])} |->
        IF f \in {"MEAN_REVERSION", "EVENT_DRIVEN"} THEN SetupBlocked("FAMILY_SETUP_UNAVAILABLE")
        ELSE ConstructStructural(m, f, judged[f].direction)]

\* CandidateTradeSetup: no price is negative.
SetupIsValid(setup) ==
    setup.outcome = "CONSTRUCTED" =>
        /\ setup.stop >= 0 /\ setup.entry >= 0
        /\ Geometry(setup.direction, setup.entry, setup.stop)

==============================================================================
