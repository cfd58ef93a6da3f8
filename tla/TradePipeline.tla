----------------------------- MODULE TradePipeline -----------------------------
(***************************************************************************)
(* The decision and risk pipeline of a cycle                               *)
(* (app/orchestration/decision_risk_pipeline.py) and the recommendations   *)
(* made of it: the setups of TradeDecision, the event gate, RiskGate       *)
(* (app/risk), PortfolioSupervisor (app/diversification), SessionGate      *)
(* (app/statistics/session.py), the broker sizing (app/mt5/sizing.py) and  *)
(* construct_final_recommendations.                                        *)
(*                                                                         *)
(* A market of TradeDecision also has                                      *)
(*   snapshots  the features of each timeframe, with the structure of      *)
(*            TradeDecision; technical and structure are made of them      *)
(*   event    the high-impact event gate blocks the setups                 *)
(*   account  [rollover, equity, realized, floating, openRisk], or         *)
(*            NoAccount when its assembly is blocked                       *)
(*   locked   locked_override                                              *)
(* and a symbol [mode, volMin, volMax, volStep].  Money is counted in      *)
(* hundredths of the unit of an equity, so that every percentage is a      *)
(* whole number; an allocated risk is a fraction <<numerator,              *)
(* denominator>>.                                                          *)
(***************************************************************************)
EXTENDS TradeDecision

CONSTANTS Markets,    \* bound: the markets a cycle may find
          Timeframes,  \* the expected timeframes
          SetupTimeframe,  \* M15, whose structure gives the stops
          NoAccount,
          DailyPct, PerTradePct, PortfolioPct, TargetPct  \* TradingCycleConfig

ASSUME TradingCycleAssumption ==
    /\ {DailyPct, PerTradePct, PortfolioPct, TargetPct} \subseteq Nat \ {0}
    /\ PerTradePct <= DailyPct

ASSUME TimeframesAssumption == IsFiniteSet(Timeframes)

\* What the properties need of a market: whole numbers, no price below zero
\* (Price of app/core/models/base.py, and a broker's quote), a quote in ticks,
\* trend directions that are signs, snapshots of expected timeframes only, and
\* finitely many observations.
IsAccount(a) == a \in [rollover : Int, equity : Int, realized : Int, floating : Int, openRisk : Int]

IsSymbol(s) ==
    /\ {s.bid, s.ask, s.tick, s.tickValue, s.minDistance, s.volMin, s.volMax, s.volStep} \subseteq Int
    /\ s.bid >= 0 /\ s.ask >= 0
    /\ s.tick > 0 => s.bid % s.tick = 0 /\ s.ask % s.tick = 0

IsStructure(st) ==
    /\ st.swings \in Seq([kind : {"HIGH", "LOW"}, at : Int, price : Nat])
    /\ st.breaks \in Seq([direction : Directional, price : Nat])

IsExternal(x) == IsFiniteSet(x.results) /\ \A r \in x.results : IsFiniteSet(r.result.observations)

IsMarket(m) ==
    /\ DOMAIN m = {"snapshots", "technical", "structure", "flow", "external", "symbol", "account", "event", "locked"}
    /\ m.account # NoAccount => IsAccount(m.account)
    /\ m.symbol # NoSymbol => IsSymbol(m.symbol)
    /\ m.external # NoContour => IsExternal(m.external)
    /\ DOMAIN m.snapshots \subseteq Timeframes
    /\ \A t \in DOMAIN m.snapshots :
         /\ IsStructure(m.snapshots[t].structure)
         /\ IsFiniteSet(m.snapshots[t].average.periods)
         /\ {m.snapshots[t].trend.return, m.snapshots[t].trend.slope} \subseteq MaybeSigns

ASSUME MarketsAssumption == \A m \in Markets : IsMarket(m)

VARIABLES market,     \* what the cycle found
          pipeline    \* how far it has come with it

tradeVars == <<market, pipeline>>

Positive(x) == Max({0, x})

----------------------------------------------------------------------------
\* The capacities.

DailyCapacity(a) ==
    Positive(a.rollover * DailyPct - Positive(-100 * (a.realized + a.floating)))

NewTradeCapacity(a) == Positive(DailyCapacity(a) - 100 * a.openRisk)

PortfolioCapacity(a) == Positive(a.equity * PortfolioPct - 100 * a.openRisk)

JointCapacity(a) == Min({NewTradeCapacity(a), PortfolioCapacity(a)})

----------------------------------------------------------------------------
\* RiskGate, PortfolioSupervisor and SessionGate: a family has a share
\* [risk], or the reason it has none.

Denied(reason) == [reason |-> reason]
Granted(risk) == [reason |-> "NONE", risk |-> risk]
IsGranted(share) == share.reason = "NONE"

\* risk_per_unit of CandidateRiskInput, zero for a setup that is blocked or
\* that the event gate blocks.
CandidateRisk(m, setup) ==
    IF setup.outcome = "CONSTRUCTED" /\ ~m.event THEN 100 * setup.risk ELSE 0

IndividualShare(m, judged, setups, f) ==
    LET a == m.account
    IN  CASE ~PassesPolicy(judged[f]) -> Denied("POLICY_NOT_ELIGIBLE")
          [] PassesPolicy(judged[f]) /\ CandidateRisk(m, setups[f]) <= 0 ->
               Denied("ZERO_OR_NEGATIVE_RISK_PER_UNIT")
          [] OTHER ->
               CASE DailyCapacity(a) <= 0 -> Denied("DAILY_LOSS_LIMIT_REACHED")
                 [] DailyCapacity(a) > 0 /\ NewTradeCapacity(a) <= 0 -> Denied("INSUFFICIENT_REMAINING_RISK_BUDGET")
                 [] OTHER -> Granted(Min({a.rollover * PerTradePct, NewTradeCapacity(a)}))

\* Wrong: every family gets what it asks for.
PortfolioShareUnscaled(a, requested, share) ==
    CASE ~IsGranted(share) -> Denied("RISK_NOT_ELIGIBLE")
      [] IsGranted(share) /\ PortfolioCapacity(a) <= 0 -> Denied("GLOBAL_PORTFOLIO_CAP_REACHED")
      [] OTHER -> Granted(<<share.risk, 1>>)

\* requested is the sum of what the families ask for; more than there is is
\* scaled down.
PortfolioShare(a, requested, share) ==
    CASE ~IsGranted(share) -> Denied("RISK_NOT_ELIGIBLE")
      [] IsGranted(share) /\ NewTradeCapacity(a) <= 0 -> Denied("DAILY_RISK_CAPACITY_EXHAUSTED")
      [] IsGranted(share) /\ NewTradeCapacity(a) > 0 /\ PortfolioCapacity(a) <= 0 ->
           Denied("GLOBAL_PORTFOLIO_CAP_REACHED")
      [] OTHER -> Granted(IF requested <= JointCapacity(a) THEN <<share.risk, 1>>
                          ELSE <<share.risk * JointCapacity(a), requested>>)

SessionStatus(m) ==
    LET a == m.account
    IN  CASE m.locked -> "LOCKED"
          [] ~m.locked /\ DailyCapacity(a) <= 0 -> "LOSS_LIMIT_REACHED"
          [] OTHER -> IF 100 * (a.equity - a.rollover) >= a.rollover * TargetPct
                      THEN "TARGET_REACHED" ELSE "ACTIVE"

SessionShare(m, share) ==
    CASE ~IsGranted(share) -> Denied("PORTFOLIO_NOT_ELIGIBLE")
      [] IsGranted(share) /\ SessionStatus(m) # "ACTIVE" -> Denied(SessionStatus(m))
      [] OTHER -> share

RiskShares(m, judged, setups) == [f \in DOMAIN judged |-> IndividualShare(m, judged, setups, f)]

PortfolioShares(m, risks) ==
    LET requested == MapThenSumSet(LAMBDA f : risks[f].risk, {f \in DOMAIN risks : IsGranted(risks[f])})
    IN  [f \in DOMAIN risks |-> PortfolioShare(m.account, requested, risks[f])]

SessionShares(m, portfolios) == [f \in DOMAIN portfolios |-> SessionShare(m, portfolios[f])]

Shares(m, judged, setups) == SessionShares(m, PortfolioShares(m, RiskShares(m, judged, setups)))

\* The validators of the three results that do not repeat the computation: a
\* share is above zero, and the shares fit into the capacity.
SharesAreValid(m, shares) ==
    LET granted == {f \in DOMAIN shares : IsGranted(shares[f])}
    IN  \A f \in granted :
          /\ shares[f].risk[1] > 0
          /\ MapThenSumSet(LAMBDA g : shares[g].risk[1], granted) <= JointCapacity(m.account) * shares[f].risk[2]

----------------------------------------------------------------------------
\* Broker sizing and the recommendation.

DirectionBlocked(direction, mode) ==
    mode \in {"DISABLED", "CLOSE_ONLY", "UNKNOWN"} \cup (IF direction = "LONG" THEN {"SHORT_ONLY"} ELSE {"LONG_ONLY"})

\* floor_volume_to_step of risk / perUnit, below volume_max.
VolumeToStep(risk, perUnit, symbol) ==
    Min({symbol.volMax - ((symbol.volMax - symbol.volMin) % symbol.volStep),
         symbol.volMin + ((risk[1] - symbol.volMin * perUnit * risk[2])
                            \div (symbol.volStep * perUnit * risk[2])) * symbol.volStep})

\* compute_broker_sizing with the entry price of the setup.
Sizing(setup, risk, symbol) ==
    LET perUnit == 100 * setup.risk
        volume == VolumeToStep(risk, perUnit, symbol)
    IN  CASE DirectionBlocked(setup.direction, symbol.mode) -> [outcome |-> "SYMBOL_NOT_TRADABLE"]
          [] ~DirectionBlocked(setup.direction, symbol.mode)
               /\ (symbol.volMin <= 0 \/ symbol.volStep <= 0 \/ symbol.volMax < symbol.volMin) ->
               [outcome |-> "INVALID_VOLUME_CONSTRAINTS"]
          [] OTHER ->
               CASE risk[1] < symbol.volMin * perUnit * risk[2] -> [outcome |-> "BELOW_BROKER_MINIMUM_VOLUME"]
                 [] risk[1] >= symbol.volMin * perUnit * risk[2] /\ perUnit * volume * risk[2] > risk[1] ->
                      [outcome |-> "RISK_VERIFICATION_FAILED"]
                 [] OTHER -> [outcome |-> "ACTIONABLE", volume |-> volume, risk |-> perUnit * volume]

Recommendation(setup, sizing) ==
    [direction |-> setup.direction, entry |-> setup.entry, stop |-> setup.stop,
     volume |-> sizing.volume, risk |-> sizing.risk]

\* construct_final_recommendations, when the facts of the symbol are there.
Recommendations(m, setups, shares) ==
    LET sized == {f \in DOMAIN shares : /\ m.symbol # NoSymbol
                                        /\ IsGranted(shares[f])
                                        /\ Sizing(setups[f], shares[f].risk, m.symbol).outcome = "ACTIONABLE"}
    IN  [f \in sized |-> Recommendation(setups[f], Sizing(setups[f], shares[f].risk, m.symbol))]

----------------------------------------------------------------------------
\* The pipeline.

Raised == [stage |-> "RAISED"]

\* build_technical_result and _m15_market_structure.
WithEvidence(m) ==
    LET results == [t \in DOMAIN m.snapshots |-> AnalyzeSnapshot(m.snapshots[t])]
    IN  [m EXCEPT !.technical = AggregateTechnical(results, Timeframes),
                  !.structure = IF SetupTimeframe \in DOMAIN m.snapshots
                                THEN m.snapshots[SetupTimeframe].structure ELSE NoStructure]

AnalyzeTechnical ==
    /\ pipeline.stage = "FACTS"
    /\ market' = WithEvidence(market)
    /\ pipeline' = IF TechnicalAggregateIsValid(market'.technical, Timeframes)
                   THEN [stage |-> "EVIDENCE"] ELSE Raised

Judgements(m) == [f \in EligibleFamilies(m) |-> Judge(m, f)]

JudgeMarket ==
    /\ pipeline.stage = "EVIDENCE"
    /\ LET judged == Judgements(market)
       IN  pipeline' = IF \A f \in DOMAIN judged : JudgementIsValid(judged[f])
                       THEN [stage |-> "JUDGED", judged |-> judged]
                       ELSE Raised
    /\ UNCHANGED market

ConstructSetups ==
    /\ pipeline.stage = "JUDGED"
    /\ LET setups == Construct(market, pipeline.judged)
       IN  pipeline' = IF \A f \in DOMAIN setups : SetupIsValid(setups[f])
                       THEN [stage |-> "SETUP", judged |-> pipeline.judged, setups |-> setups]
                       ELSE Raised
    /\ UNCHANGED market

\* BLOCKED_BEFORE_RISK: no account facts, no recommendations.
BlockBeforeRisk ==
    /\ pipeline.stage = "SETUP"
    /\ market.account = NoAccount
    /\ pipeline' = [stage |-> "DONE", judged |-> pipeline.judged, setups |-> pipeline.setups, advice |-> <<>>]
    /\ UNCHANGED market

ShareRisk ==
    /\ pipeline.stage = "SETUP"
    /\ market.account # NoAccount
    /\ LET risks == RiskShares(market, pipeline.judged, pipeline.setups)
           portfolios == PortfolioShares(market, risks)
           shares == SessionShares(market, portfolios)
       IN  pipeline' = IF SharesAreValid(market, shares)
                       THEN [stage |-> "SHARED", judged |-> pipeline.judged, setups |-> pipeline.setups,
                             risks |-> risks, portfolios |-> portfolios, shares |-> shares]
                       ELSE Raised
    /\ UNCHANGED market

Recommend ==
    /\ pipeline.stage = "SHARED"
    /\ pipeline' = [stage |-> "DONE", judged |-> pipeline.judged, setups |-> pipeline.setups,
                    risks |-> pipeline.risks, portfolios |-> pipeline.portfolios, shares |-> pipeline.shares,
                    advice |-> Recommendations(market, pipeline.setups, pipeline.shares)]
    /\ UNCHANGED market

TradeInit == market \in Markets /\ pipeline = [stage |-> "FACTS"]

TradeNext ==
    AnalyzeTechnical \/ JudgeMarket \/ ConstructSetups \/ BlockBeforeRisk \/ ShareRisk \/ Recommend

TradeSpec == TradeInit /\ [][TradeNext]_tradeVars

----------------------------------------------------------------------------
\* The mirror image of a market: every price p becomes MirrorSum - p, and so
\* every feature that has a direction the opposite one (TechnicalEvidence).

MirrorSymbol(s) ==
    IF s = NoSymbol THEN s
    ELSE [s EXCEPT !.bid = MirrorSum - s.ask, !.ask = MirrorSum - s.bid, !.mode = Opposite(@)]

MirrorMarket(m) ==
    [m EXCEPT !.snapshots = [t \in DOMAIN @ |-> MirrorSnapshot(@[t])], !.symbol = MirrorSymbol(@)]

MirrorAdvice(advice) ==
    [f \in DOMAIN advice |->
        [advice[f] EXCEPT !.direction = Opposite(@), !.entry = MirrorSum - @, !.stop = MirrorSum - @]]

\* What the pipeline makes of a market, when nothing raises.
AdviceOf(m) ==
    LET judged == Judgements(m)
        setups == Construct(m, judged)
    IN  IF m.account = NoAccount THEN <<>> ELSE Recommendations(m, setups, Shares(m, judged, setups))

Done == pipeline.stage = "DONE"

(***************************************************************************)
(* Long and short are treated alike from the features to the volume: the   *)
(* analysts, the maps and vetoes of the judge, the swing chosen, the       *)
(* rounding of the stop away from the entry, its distance and the sizing   *)
(* (judge.py:73-101, setup_construction.py:114-191, sizing.py:29-114) are  *)
(* each other's mirror image in every market.                              *)
(***************************************************************************)
MirroredMarketIsMirrored ==
    Done => AdviceOf(WithEvidence(MirrorMarket(market))) = MirrorAdvice(pipeline.advice)

(***************************************************************************)
(* What the recommendations of a cycle lose together at their stops, with  *)
(* what the open positions may lose, stays within the loss the day still   *)
(* allows and within the portfolio limit, and each within the limit of a   *)
(* trade; the loss is computed from the prices and volumes recommended.    *)
(***************************************************************************)
RiskStaysInBudget ==
    Done /\ pipeline.advice # <<>> =>
        LET a == market.account
            advice == pipeline.advice
            loss(f) == (100 * Distance(advice[f].entry, advice[f].stop) * market.symbol.tickValue * advice[f].volume)
                         \div market.symbol.tick
            total == MapThenSumSet(loss, DOMAIN advice) + 100 * a.openRisk
            lostToday == 100 * Positive(-(a.realized + a.floating))
        IN  /\ total + lostToday <= a.rollover * DailyPct
            /\ total <= a.equity * PortfolioPct
            /\ \A f \in DOMAIN advice : loss(f) = advice[f].risk /\ loss(f) <= a.rollover * PerTradePct

\* What each timeframe says of a dimension and a subject; what is said is heard
\* when at least two speak.
Voices(results, d, s) ==
    {[of |-> v[1], said |-> v[2]] : v \in UNION {{t} \X
        {o \in Observations(results, t) : o.dimension = d /\ o.subject = s} : t \in DOMAIN results}}

Values(results, d, s) == {v.said.value : v \in Voices(results, d, s)}

Heard(results, d, s) == Cardinality(Voices(results, d, s)) >= 2

Subjects(results) == {o.subject : o \in UNION {Observations(results, t) : t \in DOMAIN results}}

WayOf(direction) == IF direction = "LONG" THEN "UP" ELSE "DOWN"

StandsOn(results, way, primary) ==
    /\ \E d \in primary : /\ Heard(results, d, <<>>) /\ Values(results, d, <<>>) = {way}
                          /\ \A v \in Voices(results, d, <<>>) : v.said.quality \in {"VALID", "PARTIAL"}
    /\ \A d \in primary : Heard(results, d, <<>>) => Values(results, d, <<>>) \in {{way}, {"LEVEL"}}

Unopposed(results, way, veto) ==
    \A d \in veto : \A s \in Subjects(results) : Heard(results, d, s) => Values(results, d, s) # {Opposite(way)}

PrimaryOf(f) ==
    IF f = "TREND_FOLLOWING" THEN {"RETURN_DIRECTION", "SLOPE_DIRECTION"} ELSE {"LATEST_BREAK_DIRECTION"}

VetoOf(f) == {"RETURN_DIRECTION"} \cup (IF f = "TREND_FOLLOWING" THEN TrendCorroborators ELSE {})

(***************************************************************************)
(* A recommendation goes the way at least two timeframes point, on         *)
(* evidence that is not stale, and never against two timeframes that agree *)
(* on another dimension it looks at; no two timeframes contradict each     *)
(* other on the dimensions it is made of (judge.py:141-293, gate.py:61-90).*)
(***************************************************************************)
DirectionIsUncontested ==
    Done => \A f \in DOMAIN pipeline.advice :
        LET way == WayOf(pipeline.advice[f].direction)
        IN  /\ StandsOn(market.technical.results, way, PrimaryOf(f))
            /\ Unopposed(market.technical.results, way, VetoOf(f))

(***************************************************************************)
(* No result on the way is refused by its own validators, so the cycle     *)
(* ends with an answer.  The exception is dormant in production, where     *)
(* external is None: news providers of which only one has a direction      *)
(* disagree, and a MIXED judgement must cite two (strategy_judge_result.py:*)
(* 88-91, judge.py:321-333).                                               *)
(***************************************************************************)
PipelineAnswers ==
    pipeline.stage = "RAISED" =>
        \E r \in AlignedScopes(market) : ResolveNews(r).conflict /\ Cardinality(ResolveNews(r).refs) < 2

==============================================================================
