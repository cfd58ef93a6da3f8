------------------------------ MODULE CycleReport ------------------------------
(***************************************************************************)
(* What an advisory cycle tells the operator: the tail of                  *)
(* run_runtime_cycle (app/orchestration/runtime_cycle.py) around the       *)
(* pipeline of TradePipeline, the explanation of the cycle (app/llm,       *)
(* app/orchestration/explanation.py), the response of the application      *)
(* (app/application/advisory_service.py) and the sections of the Telegram  *)
(* message (app/telegram/rendering.py).                                    *)
(*                                                                         *)
(* A cycle is what the runtime cycle found:                                *)
(*   connected   MetaTrader 5 is AVAILABLE                                 *)
(*   account     account_facts() answered                                  *)
(*   positions, history   the read statuses                                *)
(*   mode        account_position_mode                                     *)
(*   held, unresolved   an open position, an unresolved tracked            *)
(*               recommendation of the symbol                              *)
(*   advanced    the tracked trades, each with whether its write succeeded *)
(*   excluded    the tracked trades that could not be read                 *)
(*   rollover    USABLE or not, and baseline whether its write FAILED      *)
(*   llm         llm_enabled                                               *)
(* The trade of a family in this cycle is named by its family; the trades  *)
(* tracked before have names of their own, since the composer refuses a    *)
(* cycle whose trade ids are on disk (AdvisoryCycle).                      *)
(***************************************************************************)
EXTENDS TradePipeline, SequencesExt

CONSTANTS Cycles,       \* bound: what a cycle may find: [cycle, market]
          FamilyOrder,  \* StrategyFamily, in the order of its members
          TradeOrder    \* the trades tracked before, in the order of their ids

\* Every family is in the order, and the trades tracked before have other names.
ASSUME OrderAssumption ==
    /\ FamilyOrder \in Seq(StrategyFamilies) /\ ToSet(FamilyOrder) = StrategyFamilies
    /\ TradeOrder \in Seq(ToSet(TradeOrder))
    /\ IsInjective(FamilyOrder) /\ IsInjective(TradeOrder)
    /\ ToSet(TradeOrder) \cap StrategyFamilies = {}

ASSUME CyclesAssumption == \A c \in Cycles : IsMarket(c.market)

VARIABLES cycle,   \* RuntimeCycleResult, but for the pipeline
          report   \* what has become of it

reportVars == <<cycle, report, market, pipeline>>

----------------------------------------------------------------------------
\* run_runtime_cycle.

\* account_risk_snapshot_assembly, and so decision_risk_pipeline_result, is
\* there; its outcome is BLOCKED when the market has NoAccount.
Assembled(c) == c.connected /\ c.account /\ c.positions = "OK" /\ c.history = "OK"

SymbolFactsAvailable == market.symbol # NoSymbol

\* final_recommendation_construction_result is there.
Constructed(c) == Assembled(c) /\ SymbolFactsAvailable

Advice(c) == IF Constructed(c) THEN pipeline.advice ELSE <<>>

\* _evaluate_netting_guard; a hedging account has none.
Guard(c, actionable) ==
    CASE ~Constructed(c) \/ c.mode = "HEDGING" -> "NONE"
      [] Constructed(c) /\ c.mode # "HEDGING" /\ c.positions = "OK" /\ c.held -> "BLOCKED_EXISTING_BROKER_POSITION"
      [] OTHER ->
           CASE c.unresolved -> "BLOCKED_EXISTING_UNRESOLVED_RECOMMENDATION"
             [] ~c.unresolved /\ actionable = 0 -> "NO_ACTIONABLE_RECOMMENDATIONS"
             [] OTHER -> IF actionable = 1 THEN "ALLOWED" ELSE "BLOCKED_MULTIPLE_ACTIONABLE_RECOMMENDATIONS"

GuardBlocks(guard) == guard \notin {"NONE", "ALLOWED", "NO_ACTIONABLE_RECOMMENDATIONS"}

\* The families whose trades are tracked, once the guard lets them pass.
Attempted(c, guard, advice) ==
    IF guard \in {"NONE", "ALLOWED"} THEN DOMAIN advice ELSE {}

CreationOutcome(c) == IF c.positions = "OK" THEN "CREATED" ELSE "SNAPSHOT_UNAVAILABLE"

\* TrackingIssuancePersistenceOutcome, when the writes end as told: they are
\* tried only for a recommendation that was created.
IssuanceOutcome(c, tracked, provenance) ==
    LET created == CreationOutcome(c) = "CREATED"
    IN  [creation |-> CreationOutcome(c), tracked |-> created /\ tracked, provenance |-> created /\ provenance]

\* _compute_cycle_outcome
RuntimeOutcome(c, guard, issued) ==
    LET lost == \E f \in DOMAIN issued : issued[f].creation = "CREATED" /\ ~(issued[f].tracked /\ issued[f].provenance)
    IN  CASE ~c.connected -> "BLOCKED"
          [] c.connected /\ (\/ ~Assembled(c)
                             \/ c.excluded # {}
                             \/ \E t \in DOMAIN c.advanced : ~c.advanced[t]
                             \/ lost
                             \/ c.baseline = "FAILED"
                             \/ GuardBlocks(guard)
                             \/ ~SymbolFactsAvailable) -> "PARTIAL_DEGRADED"
          [] OTHER -> "READY"

\* A cycle whose account facts are not there goes without the pipeline; the
\* technical evidence has been built before.
EvaluatePipeline ==
    /\ report.stage = "FOUND"
    /\ pipeline.stage = "FACTS" \/ Assembled(cycle)
    /\ TradeNext
    /\ UNCHANGED <<cycle, report>>

RunRuntimeCycle ==
    /\ report.stage = "FOUND"
    /\ pipeline.stage = IF Assembled(cycle) THEN "DONE" ELSE "EVIDENCE"
    /\ LET advice == Advice(cycle)
           guard == Guard(cycle, Cardinality(DOMAIN advice))
           attempted == Attempted(cycle, guard, advice)
       IN  \E tracked \in [attempted -> BOOLEAN], provenance \in [attempted -> BOOLEAN] :
             LET issued == [f \in attempted |-> IssuanceOutcome(cycle, tracked[f], provenance[f])]
             IN  report' = [stage |-> "EXPLAINING", calls |-> 0, advice |-> advice, guard |-> guard,
                            issued |-> issued, outcome |-> RuntimeOutcome(cycle, guard, issued)]
    /\ UNCHANGED <<cycle, market, pipeline>>

----------------------------------------------------------------------------
\* The facts an explanation may cite, each a tuple of what it is about.

\* The members of S, in the order of s.
Retain(s, S) ==
    LET upTo[n \in 0 .. Len(s)] ==
            IF n = 0 THEN <<>> ELSE IF s[n] \in S THEN Append(upTo[n - 1], s[n]) ELSE upTo[n - 1]
    IN  upTo[Len(s)]

\* build_recommendation_cards: of every actionable family.
RecommendationCards(r) == Retain(FamilyOrder, DOMAIN r.advice)

\* build_tracking_cards: the trades advanced, then those created.
TrackingCards(c, r) ==
    Retain(TradeOrder, DOMAIN c.advanced)
        \o Retain(RecommendationCards(r), {f \in DOMAIN r.issued : r.issued[f].creation = "CREATED"})

RecommendationFacts(r) == {<<"recommendation", f>> : f \in DOMAIN r.advice}

TrackingFacts(c, r) == {<<"tracking", t>> : t \in ToSet(TrackingCards(c, r))}

\* _build_cycle_facts
CycleFacts(c, r) ==
    {<<"runtime", n>> : n \in {"outcome", "mt5_runtime_status"}
         \cup (IF c.connected THEN {"positions_read_status", "history_read_status", "target_symbol_facts_available"} ELSE {})
         \cup (IF c.connected /\ c.account THEN {"account_position_mode", "account_currency"} ELSE {})}
      \cup (IF c.connected /\ c.account THEN {<<"rollover", "outcome">>} ELSE {})
      \cup (IF c.connected /\ c.positions = "OK" THEN {<<"open_risk", "outcome">>} ELSE {})
      \cup (IF c.connected /\ c.history = "OK" THEN {<<"realized_pnl", "outcome">>} ELSE {})
      \cup (IF Assembled(c) THEN {<<"account_risk_snapshot_assembly", "outcome">>, <<"decision_risk_pipeline", "outcome">>} ELSE {})
      \cup (IF Constructed(c) THEN {<<"final_recommendation", "outcome">>} ELSE {})
      \cup (IF r.guard # "NONE" THEN {<<"netting_guard", "outcome">>} ELSE {})

\* _build_warnings
Warnings(c, r) ==
    LET created == {f \in DOMAIN r.issued : r.issued[f].creation = "CREATED"}
        unwritten == {t \in DOMAIN c.advanced : ~c.advanced[t]} \cup {f \in created : ~r.issued[f].tracked}
        when(name, condition) == IF condition THEN {<<"warning", name>>} ELSE {}
    IN  {<<"warning", "excluded_tracking", t>> : t \in c.excluded}
          \cup {<<"warning", "tracking_persistence_failed", t>> : t \in unwritten}
          \cup {<<"warning", "provenance_persistence_failed", f>> : f \in {f \in created : ~r.issued[f].provenance}}
          \cup when("netting_guard_blocked", GuardBlocks(r.guard))
          \cup when("target_symbol_facts_unavailable", c.connected /\ ~SymbolFactsAvailable)
          \cup when("positions_unavailable", c.connected /\ c.positions # "OK")
          \cup when("history_unavailable", c.connected /\ c.history # "OK")
          \cup when("rollover_unusable", c.connected /\ c.account /\ c.rollover # "USABLE")

\* build_explanation_context
Facts(c, r) == CycleFacts(c, r) \cup RecommendationFacts(r) \cup TrackingFacts(c, r) \cup Warnings(c, r)

----------------------------------------------------------------------------
\* The provider.  A narrative is [narrated, tracked, cited]: the trades it
\* explains, in its order, and the facts it cites.  What it says is free text.

UnknownFact == <<"fact", "of another cycle">>

\* Bound: what a provider makes of the cards it was given: all of them, one too
\* few, one too many, two in the wrong order.
Retold(cards) ==
    {cards, Reverse(cards), Append(cards, Head(FamilyOrder))}
        \cup (IF cards = <<>> THEN {} ELSE {Front(cards)})

Narratives(c, r) ==
    [narrated : Retold(RecommendationCards(r)), tracked : Retold(TrackingCards(c, r)), cited : {{}}]
      \cup [narrated : {RecommendationCards(r)}, tracked : {TrackingCards(c, r)},
            cited : {Facts(c, r), {UnknownFact}}]

\* Wrong: compared as far as both go, as zip does.
IsValidAsFarAsItGoes(c, r, n) ==
    LET agree(s, cards) == \A i \in DOMAIN s \cap DOMAIN cards : s[i] = cards[i]
    IN  /\ n.cited \subseteq Facts(c, r)
        /\ agree(n.narrated, RecommendationCards(r))
        /\ agree(n.tracked, TrackingCards(c, r))

\* _validate_narrative
IsValidNarrative(c, r, n) ==
    /\ n.cited \subseteq Facts(c, r)
    /\ n.narrated = RecommendationCards(r)
    /\ n.tracked = TrackingCards(c, r)

\* ExplanationResult: the explanations match the cards, and no card is there
\* twice.
ExplanationIsValid(c, r, e) ==
    /\ e.narrated = RecommendationCards(r)
    /\ e.tracked = TrackingCards(c, r)
    /\ IsInjective(RecommendationCards(r)) /\ IsInjective(TrackingCards(c, r))

\* _combine
Combined(c, r, n) ==
    [provider |-> "LLM_SUCCESS", narrated |-> n.narrated, tracked |-> n.tracked, cited |-> n.cited,
     headline |-> "FREE_TEXT", warnings |-> {}]

\* render_deterministic_fallback
Headline(c, r) ==
    CASE r.outcome = "BLOCKED" -> "BLOCKED"
      [] r.outcome # "BLOCKED" /\ RecommendationCards(r) # <<>> -> "ACTIONABLE"
      [] OTHER -> IF Constructed(c) THEN "NO_TRADE" ELSE r.outcome

Fallback(c, r, provider) ==
    [provider |-> provider, narrated |-> RecommendationCards(r), tracked |-> TrackingCards(c, r), cited |-> {},
     headline |-> Headline(c, r), warnings |-> Warnings(c, r)]

Explained(e) ==
    report' = IF ExplanationIsValid(cycle, report, e)
              THEN [stage |-> "EXPLAINED", advice |-> report.advice, guard |-> report.guard, issued |-> report.issued,
                    outcome |-> report.outcome, explanation |-> e]
              ELSE Raised

\* llm_enabled is off.
ExplainWithoutProvider ==
    /\ report.stage = "EXPLAINING"
    /\ ~cycle.llm
    /\ Explained(Fallback(cycle, report, "LLM_UNAVAILABLE"))
    /\ UNCHANGED <<cycle, market, pipeline>>

\* The provider raises: no retry.
ProviderFails ==
    /\ report.stage = "EXPLAINING"
    /\ cycle.llm
    /\ Explained(Fallback(cycle, report, "LLM_UNAVAILABLE"))
    /\ UNCHANGED <<cycle, market, pipeline>>

\* Nothing that can be told: asked once more.
AskAgain ==
    IF report.calls = 0 THEN report' = [report EXCEPT !.calls = 1]
    ELSE Explained(Fallback(cycle, report, "LLM_INVALID_OUTPUT"))

\* A refusal, an incomplete answer or text that is no narrative.
ProviderErrs ==
    /\ report.stage = "EXPLAINING"
    /\ cycle.llm
    /\ AskAgain
    /\ UNCHANGED <<cycle, market, pipeline>>

ProviderAnswers ==
    /\ report.stage = "EXPLAINING"
    /\ cycle.llm
    /\ \E n \in Narratives(cycle, report) :
         IF IsValidNarrative(cycle, report, n) THEN Explained(Combined(cycle, report, n)) ELSE AskAgain
    /\ UNCHANGED <<cycle, market, pipeline>>

----------------------------------------------------------------------------
\* The response.

\* derive_no_trade_reason: the stage the trade of a family ended at, or NONE.
\* The results of the gates behind it are blocked too, each with a reason of its
\* own for that, which is not told.
StageBeforeRisk(f) ==
    CASE f \notin DOMAIN pipeline.judged -> "EVALUATION"
      [] f \in DOMAIN pipeline.judged /\ ~PassesPolicy(pipeline.judged[f]) ->
           IF pipeline.judged[f].outcome = "DIRECTIONAL" THEN "POLICY" ELSE "JUDGE"
      [] OTHER -> CASE pipeline.setups[f].outcome = "BLOCKED" -> "SETUP"
                    [] pipeline.setups[f].outcome # "BLOCKED" /\ market.event -> "EVENT"
                    [] OTHER -> "NONE"

StageFromRisk(c, f) ==
    LET stops(share, echo) == share.reason \notin {"NONE", echo}
    IN  CASE stops(pipeline.risks[f], "POLICY_NOT_ELIGIBLE") -> "RISK"
          [] ~stops(pipeline.risks[f], "POLICY_NOT_ELIGIBLE")
               /\ stops(pipeline.portfolios[f], "RISK_NOT_ELIGIBLE") -> "PORTFOLIO"
          [] OTHER -> CASE stops(pipeline.shares[f], "PORTFOLIO_NOT_ELIGIBLE") -> "SESSION"
                        [] ~stops(pipeline.shares[f], "PORTFOLIO_NOT_ELIGIBLE")
                             /\ Constructed(c) /\ IsGranted(pipeline.shares[f])
                             /\ f \notin DOMAIN pipeline.advice -> "FINAL"
                        [] OTHER -> "NONE"

\* Without a pipeline there is nothing to tell.
NoTradeStages(c) ==
    [f \in ToSet(FamilyOrder) |->
        CASE ~Assembled(c) -> "NONE"
          [] Assembled(c) /\ (StageBeforeRisk(f) # "NONE" \/ market.account = NoAccount) -> StageBeforeRisk(f)
          [] OTHER -> StageFromRisk(c, f)]

\* is_issuable
IsIssuable(r, f) == f \in DOMAIN r.issued /\ r.issued[f].creation = "CREATED" /\ r.issued[f].tracked

\* _derive_issuance_reason, when there is one.
HasIssuanceReason(r, f) == r.guard \notin {"NONE", "ALLOWED"} \/ f \in DOMAIN r.issued

\* derive_application_status
Status(r, recommended) ==
    CASE r.outcome = "BLOCKED" -> "SERVICE_UNAVAILABLE"
      [] r.outcome = "PARTIAL_DEGRADED" -> "DEGRADED"
      [] OTHER -> IF recommended # {} THEN "READY" ELSE "NO_TRADE"

\* Wrong: what was withheld after the gates has no reason.
ReasonsOfTheGates(r, stages) ==
    LET stopped == {f \in DOMAIN stages : stages[f] # "NONE"}
    IN  IF r.outcome = "BLOCKED" THEN <<>> ELSE [f \in stopped |-> stages[f]]

\* map_recommendations: a family with a stage of its own is not looked at
\* further; one without a result has no entry.
Reasons(r, stages) ==
    LET stopped == {f \in DOMAIN stages : stages[f] # "NONE"}
        withheld == {f \in DOMAIN r.advice \ stopped : ~IsIssuable(r, f)}
    IN  IF r.outcome = "BLOCKED" THEN <<>>
        ELSE [f \in stopped \cup withheld |-> IF f \in stopped THEN stages[f] ELSE "ISSUANCE"]

\* Else InternalApplicationError: a family that no stage stopped is actionable,
\* and one that is not issuable has a reason for it.
IsMappable(c, r, stages) ==
    r.outcome = "BLOCKED" \/ ~Constructed(c) \/ market.account = NoAccount
      \/ \A f \in DOMAIN stages :
           stages[f] = "NONE" => f \in DOMAIN r.advice /\ (IsIssuable(r, f) \/ HasIssuanceReason(r, f))

\* map_advisory_response
AnswerRequest ==
    /\ report.stage = "EXPLAINED"
    /\ LET stages == NoTradeStages(cycle)
           reasons == Reasons(report, stages)
           recommended == {f \in DOMAIN report.advice \ DOMAIN reasons : IsIssuable(report, f)}
       IN  report' = IF IsMappable(cycle, report, stages)
                     THEN [stage |-> "ANSWERED", advice |-> report.advice, guard |-> report.guard,
                           issued |-> report.issued, explanation |-> report.explanation, status |-> Status(report, recommended),
                           recommended |-> recommended, reasons |-> reasons]
                     ELSE Raised
    /\ UNCHANGED <<cycle, market, pipeline>>

\* render_advisory_response: the trades its sections speak of, each with the
\* section.
Sections(r) ==
    IF r.status = "SERVICE_UNAVAILABLE" THEN {}
    ELSE {<<"RECOMMENDATION", f>> : f \in r.recommended}
           \cup {<<"NO_TRADE_REASON", f>> : f \in DOMAIN r.reasons}
           \cup {<<"NARRATIVE", f>> : f \in ToSet(r.explanation.narrated)}

ReportInit ==
    /\ \E c \in Cycles : cycle = c.cycle /\ market = c.market
    /\ pipeline = [stage |-> "FACTS"]
    /\ report = [stage |-> "FOUND"]

ReportNext ==
    \/ EvaluatePipeline
    \/ RunRuntimeCycle
    \/ ExplainWithoutProvider \/ ProviderFails \/ ProviderAnswers \/ ProviderErrs
    \/ AnswerRequest

ReportSpec == ReportInit /\ [][ReportNext]_reportVars

----------------------------------------------------------------------------

(***************************************************************************)
(* Every family is answered once: in a cycle whose account is known it is  *)
(* either recommended or has one reason, whatever combination of gates,    *)
(* guard and writes stopped it, the refusals of later gates that only      *)
(* repeat an earlier one never stand for a reason, and the mapping never   *)
(* runs into a result it takes for impossible (advisory_service.py:91-311).*)
(***************************************************************************)
EveryFamilyIsAnswered ==
    report.stage = "ANSWERED" /\ Assembled(cycle) /\ market.account # NoAccount =>
        LET families == ToSet(FamilyOrder)
        IN  /\ report.recommended \cup DOMAIN report.reasons = families
            /\ report.recommended \cap DOMAIN report.reasons = {}
            /\ \A f \in DOMAIN report.reasons :
                 report.reasons[f] \in {"RISK", "PORTFOLIO", "SESSION", "FINAL", "ISSUANCE"} =>
                     pipeline.setups[f].outcome = "CONSTRUCTED" /\ ~market.event

(***************************************************************************)
(* A cycle that has written a record is answered, whatever the language    *)
(* model does in between: the trades that are tracked are exactly those    *)
(* recommended, and the explanation tells every actionable trade in order  *)
(* and cites facts of this cycle only (explanation.py:619-728).            *)
(***************************************************************************)
IssuedCyclesAreAnswered ==
    /\ report.stage # "RAISED"
    /\ report.stage = "ANSWERED" =>
         /\ report.recommended = {f \in DOMAIN report.issued : report.issued[f].tracked}
         /\ report.explanation.cited \subseteq Facts(cycle, report)
         /\ report.explanation.narrated = RecommendationCards(report)

(***************************************************************************)
(* "A CREATED recommendation whose tracking_persisted write itself failed  *)
(* has no durable tracking record at all and must never be exposed as      *)
(* operator-facing output" (advisory_service.py:198-201).  The narrative   *)
(* of the fallback is the direction, the entry, the stop, the take-profit  *)
(* and the volume of a trade (explanation.py:545-560), and the message     *)
(* shows it (telegram/rendering.py:144-145); one of the language model may *)
(* say anything, and is left out.                                          *)
(***************************************************************************)
UnrecordedIsNotExposed ==
    report.stage = "ANSWERED" =>
        \A f \in DOMAIN report.issued :
            report.issued[f].creation = "CREATED" /\ ~report.issued[f].tracked =>
                /\ <<"RECOMMENDATION", f>> \notin Sections(report)
                /\ report.explanation.provider # "LLM_SUCCESS" => <<"NARRATIVE", f>> \notin Sections(report)

==============================================================================
