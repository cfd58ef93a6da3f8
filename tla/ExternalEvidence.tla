--------------------------- MODULE ExternalEvidence ---------------------------
(***************************************************************************)
(* The four external intelligence analysts                                 *)
(* (app/external_intelligence_analysts) and their supervisor               *)
(* (app/external_intelligence_supervisor).  The records they read:         *)
(*   event     [provider, id, revision, time, importance, facts], facts a  *)
(*             function from what is reported ("actual", "forecast",       *)
(*             "previous") to its value                                    *)
(*   rate      [provider, series, time, revision, values], values the set  *)
(*             of its one value, or empty when it is None                  *)
(*   yield     a rate with [market, kind, tenor] besides, market its       *)
(*             country and currency                                        *)
(*   item      [provider, id, published, received, symbols]                *)
(*   sentiment [provider, source, id, itemReceived, published, score]      *)
(*   chain     [provider, series, time, metrics], metrics a function from  *)
(*             what is reported to its value, with [exchange] in a flow    *)
(* Each list is in the order its history returns.  A value that is not     *)
(* reported is not in the domain.                                          *)
(***************************************************************************)
EXTENDS Evidence

CONSTANTS Staleness,    \* staleness_threshold of the analysts
          Proximity,    \* proximity_window of the macro analyst
          Recency       \* recency_window of the news analyst

ASSUME ExternalAssumption == {Staleness, Proximity, Recency} \subseteq Nat

ExternalAnalysts == {"MACRO_EVENT", "RATES_YIELD", "NEWS_SENTIMENT", "ON_CHAIN"}

\* classify_quality
FreshnessOf(time, now) == IF now - time <= Staleness THEN "VALID" ELSE "STALE"

WorstFreshness(times, now) == WorstOf({FreshnessOf(t, now) : t \in times})

\* The last two elements of a list.
LastTwo(list) == <<list[Len(list) - 1], list[Len(list)]>>

\* The way sorted() ranks what a history returns.
StableSort(list, key(_)) == Ranked(list, [i \in DOMAIN list |-> key(list[i])])

SetOf(list) == {list[i] : i \in DOMAIN list}

\* The groups of a list by a key, and the trend between the last two members
\* of a group of at least two.
Group(list, key(_), k) == SelectSeq(list, LAMBDA o : key(o) = k)

TrendsOf(list, dimension, key(_), value(_), now) ==
    UNION {LET ranked == StableSort(Group(list, key, k), LAMBDA o : o.time)
               previous == LastTwo(ranked)[1]
               current == LastTwo(ranked)[2]
           IN  IF Len(ranked) < 2 THEN {}
               ELSE Observe(dimension, k, SignOf(value(current), value(previous)),
                            WorstFreshness({previous.time, current.time}, now)) :
           k \in {key(o) : o \in SetOf(list)}}

----------------------------------------------------------------------------
\* MacroEventAnalyst.

EventObservations(e, now) ==
    LET q == FreshnessOf(e.time, now)
        subject == <<e.provider, e.id>>
    IN  Observe("EVENT_IMPORTANCE", subject, e.importance, q)
        \cup Observe("EVENT_PROXIMITY", subject,
                CASE e.time < now -> "ALREADY_OCCURRED"
                  [] e.time - now <= Proximity /\ e.time >= now -> "WITHIN_WINDOW"
                  [] OTHER -> "OUTSIDE_WINDOW", q)
        \cup (IF {"actual", "forecast"} \subseteq DOMAIN e.facts
              THEN Observe("SURPRISE", subject, SignOf(e.facts["actual"], e.facts["forecast"]), q) ELSE {})
        \cup (IF {"actual", "previous"} \subseteq DOMAIN e.facts
              THEN Observe("ACTUAL_VS_PREVIOUS", subject, SignOf(e.facts["actual"], e.facts["previous"]), q)
              ELSE {})

\* The revisions of one event that are compared: the last two with an actual.
RevisionPairs(events) ==
    LET actual == {i \in DOMAIN events : "actual" \in DOMAIN events[i].facts}
        key(i) == <<events[i].provider, events[i].id>>
        ranked(k) == Ranked(events, [i \in {i \in actual : key(i) = k} |-> events[i].revision])
    IN  {LastTwo(ranked(k)) : k \in {k \in {key(i) : i \in actual} : Len(ranked(k)) >= 2}}

MacroEventAnalyst(events, now) ==
    AnalyzedByWorst(
        (UNION {EventObservations(e, now) : e \in SetOf(events)})
        \cup (IF events = <<>> THEN {}
              ELSE Observe("EVENT_PRESENCE", <<>>, IF Len(events) = 1 THEN "SINGLE_EVENT" ELSE "MULTIPLE_EVENTS",
                           WorstFreshness({e.time : e \in SetOf(events)}, now)))
        \cup UNION {Observe("REVISION_DIRECTION", <<p[2].provider, p[2].id, p[1].revision, p[2].revision>>,
                            SignOf(p[2].facts["actual"], p[1].facts["actual"]),
                            WorstFreshness({p[1].time, p[2].time}, now)) : p \in RevisionPairs(events)})

----------------------------------------------------------------------------
\* RatesYieldAnalyst.

ValueOf(o) == CHOOSE v \in o.values : TRUE

\* _series_trend_observations, of policy rates and of yields.
SeriesTrends(list, dimension, now) ==
    TrendsOf(SelectSeq(list, LAMBDA o : o.values # {}), dimension,
             LAMBDA o : <<o.provider, o.series>>, ValueOf, now)

\* Every pair of tenors of one curve at one time, in the order of the list.
CurveSlopes(yields) ==
    LET known == {i \in DOMAIN yields : yields[i].values # {}}
        curve(o) == <<o.provider, o.market, o.kind>>
    IN  {[at |-> <<yields[p[1]].time, p[1], p[2]>>, time |-> yields[p[1]].time,
          value |-> ValueOf(yields[p[2]]) - ValueOf(yields[p[1]]),
          curve |-> curve(yields[p[1]]) \o <<yields[p[1]].tenor, yields[p[2]].tenor>>] :
            p \in {p \in known \X known : /\ yields[p[1]].tenor < yields[p[2]].tenor
                                          /\ yields[p[1]].time = yields[p[2]].time
                                          /\ curve(yields[p[1]]) = curve(yields[p[2]])}}

Later(a, b) ==
    \E n \in DOMAIN a : a[n] > b[n] /\ \A m \in 1 .. n - 1 : a[m] = b[m]

CurveObservations(yields, now) ==
    LET slopes == CurveSlopes(yields)
        trend(entries) ==
            LET current == CHOOSE c \in entries : \A d \in entries \ {c} : Later(c.at, d.at)
                earlier == entries \ {current}
                previous == CHOOSE c \in earlier : \A d \in earlier \ {c} : Later(c.at, d.at)
            IN  IF earlier = {} THEN {}
                ELSE Observe("CURVE_SLOPE_TREND", current.curve, SignOf(current.value, previous.value),
                             WorstFreshness({previous.time, current.time}, now))
    IN  (UNION {Observe("CURVE_SLOPE", c.curve, SignOf(c.value, 0), FreshnessOf(c.time, now)) : c \in slopes})
        \cup UNION {trend({c \in slopes : c.curve = k}) : k \in {c.curve : c \in slopes}}

\* The last yield of each kind, of one market, tenor and time.
RealNominalObservations(yields, now) ==
    LET valued == SelectSeq(yields, LAMBDA o : o.values # {})
        key(o) == <<o.provider, o.market, o.tenor, o.time>>
        last(k, kind) == SelectSeq(Group(valued, key, k), LAMBDA o : o.kind = kind)
    IN  UNION {LET nominal == last(k, "NOMINAL")
                   real == last(k, "REAL")
               IN  IF <<>> \in {nominal, real} THEN {}
                   ELSE Observe("REAL_NOMINAL_RELATIONSHIP", <<k[1], k[3]>>,
                                SignOf(ValueOf(nominal[Len(nominal)]), ValueOf(real[Len(real)])),
                                FreshnessOf(k[4], now)) :
               k \in {key(o) : o \in SetOf(valued)}}

RatesYieldAnalyst(rates, yields, now) ==
    AnalyzedByWorst(SeriesTrends(rates, "POLICY_RATE_TREND", now)
                    \cup SeriesTrends(yields, "YIELD_TREND", now)
                    \cup CurveObservations(yields, now)
                    \cup RealNominalObservations(yields, now))

----------------------------------------------------------------------------
\* NewsSentimentAnalyst.

\* compute_relevance: an item that names no symbols has no relevance.
Relevant(items, symbol) == {i \in SetOf(items) : symbol \in i.symbols}
WithRelevance(items) == {i \in SetOf(items) : i.symbols # {}}

\* The scored opinions on the relevant recent items.
EligibleSentiment(items, sentiment, symbol, now) ==
    LET recent == {<<i.provider, i.id, i.received>> :
                     i \in {i \in Relevant(items, symbol) : now - i.published <= Recency}}
    IN  {o \in SetOf(sentiment) : <<o.source, o.id, o.itemReceived>> \in recent /\ o.score # "NONE"}

NewsSentimentAnalyst(items, sentiment, symbol, now) ==
    LET known == WithRelevance(items)
        eligible == EligibleSentiment(items, sentiment, symbol, now)
        providers == {o.provider : o \in eligible}
        signs(p) == {o.score : o \in {o \in eligible : o.provider = p}}
        signOf(p) == IF Cardinality(signs(p)) = 1 THEN CHOOSE v \in signs(p) : TRUE ELSE "MIXED"
        quality(os) == WorstFreshness({o.published : o \in os}, now)
        unambiguous == {[provider |-> p, value |-> signOf(p)] : p \in {p \in providers : signOf(p) # "MIXED"}}
    IN  AnalyzedByWorst(
            (IF known = {} THEN {}
             ELSE Observe("RELEVANT_ITEM_PRESENCE", <<>>,
                     IF Relevant(items, symbol) = {} THEN "NO_ITEMS" ELSE "ITEMS_FOUND", quality(known)))
            \cup (UNION {Observe("PER_PROVIDER_SENTIMENT_SIGN", <<p>>, signOf(p),
                                quality({o \in eligible : o.provider = p})) : p \in providers})
            \cup (IF providers = {} THEN {}
                  ELSE Observe("SENTIMENT_PROVIDER_AGREEMENT", <<>>, AgreementOf(unambiguous), quality(eligible))))

----------------------------------------------------------------------------
\* OnChainAnalyst.

\* _trend_entries of one metric.
MetricTrends(list, metric, dimension, key(_), now) ==
    TrendsOf(SelectSeq(list, LAMBDA o : metric \in DOMAIN o.metrics), dimension, key,
             LAMBDA o : o.metrics[metric], now)

\* The difference of two metrics of one record.
BalanceOf(list, plus, minus, dimension, subject(_), now) ==
    UNION {Observe(dimension, subject(o), SignOf(o.metrics[plus], o.metrics[minus]), FreshnessOf(o.time, now)) :
           o \in {o \in SetOf(list) : {plus, minus} \subseteq DOMAIN o.metrics}}

OnChainAnalyst(activity, supply, flows, stablecoins, now) ==
    LET series(o) == <<o.provider, o.series>>
        venue(o) == <<o.provider, o.series, o.exchange>>
    IN  AnalyzedByWorst(
            (UNION {MetricTrends(activity, m, "ACTIVITY_TREND", series, now) :
                     m \in {"active_addresses", "transaction_count"}})
            \cup (UNION {MetricTrends(supply, m, "SUPPLY_TREND", series, now)
                          \cup MetricTrends(stablecoins, m, "STABLECOIN_SUPPLY_TREND", series, now) :
                          m \in {"total_supply", "circulating_supply"}})
            \cup MetricTrends(flows, "balance", "EXCHANGE_BALANCE_TREND", venue, now)
            \cup BalanceOf(flows, "inflow", "outflow", "EXCHANGE_NET_FLOW", venue, now)
            \cup BalanceOf(stablecoins, "mint_amount", "burn_amount", "STABLECOIN_NET_ISSUANCE", series, now))

----------------------------------------------------------------------------
\* The supervisor.  results: a set of [analyst, scope, time, result], one per
\* analyst and scope; a later result than the aggregate's time is refused.

ExternalIsRefused(results, now) ==
    \/ \E r \in results : r.time > now
    \/ \E r, s \in results : r # s /\ r.analyst = s.analyst /\ r.scope = s.scope

AggregateExternal(results) ==
    LET analyzed == {r \in results : r.result.status = "ANALYZED"}
        types == {r.analyst : r \in analyzed}
    IN  [outcome |-> ParticipationOutcome(types, ExternalAnalysts),
         quality |-> OverallQuality({r.result.quality : r \in analyzed}),
         analyzed |-> types,
         abstained |-> {r.analyst : r \in results} \ types,
         results |-> results]

\* The validators of ExternalIntelligenceSupervisorResult and of its results.
ExternalAggregateIsValid(a) ==
    /\ \A r \in a.results : ResultIsConsistent(r.result)
    /\ a.analyzed = {r.analyst : r \in {r \in a.results : r.result.status = "ANALYZED"}}
    /\ a.abstained = {r.analyst : r \in a.results} \ a.analyzed
    /\ a.outcome = ParticipationOutcome(a.analyzed, ExternalAnalysts)
    /\ a.quality = OverallQuality({r.result.quality : r \in {r \in a.results : r.result.status = "ANALYZED"}})

==============================================================================
