---------------------------- MODULE ExternalHistory ----------------------------
(***************************************************************************)
(* The bounded, append-only histories of the external intelligence layer   *)
(* (app/macro, app/rates, app/news, app/news_intel, app/onchain) and the   *)
(* analyses made of them.  A feed repeats itself, corrects itself and      *)
(* arrives in any order; the history decides what it takes.                *)
(*                                                                         *)
(* received_at is the ingestion's, not the feed's, and no fingerprint      *)
(* compares it; only a news item keeps it, because an opinion names the    *)
(* item version it is about by that time.                                  *)
(***************************************************************************)
EXTENDS ExternalEvidence

CONSTANTS EventFeed, RateFeed, ItemFeed, SentimentFeed, ChainFeed,  \* what the feeds may deliver
          NewsSymbol,   \* the symbol analysed
          LogCapacity,  \* capacity of every history
          LastMoment    \* bound: the analyses run at 0 .. LastMoment

ASSUME HistoryAssumption ==
    /\ LogCapacity \in Nat \ {0} /\ LastMoment \in Nat
    /\ \A e \in EventFeed : {e.time, e.revision} \subseteq Nat

VARIABLES
    eventLog, rateLog, itemLog, opinionLog, chainLog,  \* the histories
    liveFeed,     \* the package whose feed is alive
    external      \* the last aggregate, or the stage "NONE" / "RAISED"

historyVars == <<eventLog, rateLog, itemLog, opinionLog, chainLog, liveFeed, external>>

NoAggregate == [stage |-> "NONE"]

\* BoundedBuffer.append: the oldest inserted goes first.
Buffered(buffer, record) ==
    IF Len(buffer) < LogCapacity THEN Append(buffer, record) ELSE Append(Tail(buffer), record)

----------------------------------------------------------------------------
\* EconomicEventHistory.append and its like for rates and yields: a settled
\* record of a key is final.

EventKey(e) == <<e.provider, e.id, e.revision>>
EventSettledOnceRevised(e) == e.revision > 0
EventSettled(e) == "actual" \in DOMAIN e.facts
RateKey(o) == <<o.provider, o.series, o.time, o.revision>>
RateSettled(o) == o.values # {}

Takes(buffer, record, key(_), settled(_)) ==
    LET recorded == {r \in SetOf(buffer) : key(r) = key(record)}
    IN  record \notin recorded /\ \A r \in recorded : ~settled(r)

\* The other histories take every version that is not a copy.
Fingerprint(record) == [f \in DOMAIN record \ {"received"} |-> record[f]]

TakesVersion(buffer, record) == \A r \in SetOf(buffer) : Fingerprint(r) # Fingerprint(record)

AppendEvent(e) ==
    /\ liveFeed = "macro"
    /\ Takes(eventLog, e, EventKey, EventSettled)
    /\ eventLog' = Buffered(eventLog, e)
    /\ UNCHANGED <<rateLog, itemLog, opinionLog, chainLog, liveFeed, external>>

AppendRate(o) ==
    /\ liveFeed = "rates"
    /\ Takes(rateLog, o, RateKey, RateSettled)
    /\ rateLog' = Buffered(rateLog, o)
    /\ UNCHANGED <<eventLog, itemLog, opinionLog, chainLog, liveFeed, external>>

AppendItem(i) ==
    /\ liveFeed = "news"
    /\ TakesVersion(itemLog, i)
    /\ itemLog' = Buffered(itemLog, i)
    /\ UNCHANGED <<eventLog, rateLog, opinionLog, chainLog, liveFeed, external>>

AppendSentiment(o) ==
    /\ liveFeed = "news"
    /\ TakesVersion(opinionLog, o)
    /\ opinionLog' = Buffered(opinionLog, o)
    /\ UNCHANGED <<eventLog, rateLog, itemLog, chainLog, liveFeed, external>>

AppendChain(o) ==
    /\ liveFeed = "onchain"
    /\ TakesVersion(chainLog, o)
    /\ chainLog' = Buffered(chainLog, o)
    /\ UNCHANGED <<eventLog, rateLog, itemLog, opinionLog, liveFeed, external>>

----------------------------------------------------------------------------
\* all_events, all_observations, ...: sorted, whatever the order of insertion.

AllEvents == StableSort(eventLog, LAMBDA e : 100 * e.time + e.revision)
AllRates == StableSort(rateLog, LAMBDA o : 100 * o.time + o.revision)
Chain(kind) == StableSort(SelectSeq(chainLog, LAMBDA o : o.kind = kind), LAMBDA o : o.time)

\* The four analyses at a moment and their aggregate.
Analyze(now) ==
    LET of(analyst, result) == [analyst |-> analyst, scope |-> NewsSymbol, time |-> now, result |-> result]
        results == {of("MACRO_EVENT", MacroEventAnalyst(AllEvents, now)),
                    of("RATES_YIELD", RatesYieldAnalyst(
                        SelectSeq(AllRates, LAMBDA o : "tenor" \notin DOMAIN o),
                        SelectSeq(AllRates, LAMBDA o : "tenor" \in DOMAIN o), now)),
                    of("NEWS_SENTIMENT", NewsSentimentAnalyst(itemLog, opinionLog, NewsSymbol, now)),
                    of("ON_CHAIN", OnChainAnalyst(Chain("activity"), Chain("supply"), Chain("flow"),
                                                  Chain("stablecoin"), now))}
        aggregate == AggregateExternal(results)
    IN  /\ external' = IF ExternalIsRefused(results, now) \/ ~ExternalAggregateIsValid(aggregate)
                       THEN [stage |-> "RAISED"]
                       ELSE [stage |-> "AGGREGATED", aggregate |-> aggregate]
        /\ UNCHANGED <<eventLog, rateLog, itemLog, opinionLog, chainLog, liveFeed>>

HistoryInit ==
    /\ eventLog = <<>> /\ rateLog = <<>> /\ itemLog = <<>>
    /\ opinionLog = <<>> /\ chainLog = <<>>
    /\ liveFeed \in {"macro", "rates", "news", "onchain"}
    /\ external = NoAggregate

\* Bound: a run ends with its aggregate.
HistoryNext ==
    /\ external = NoAggregate
    /\ \/ \E e \in EventFeed : AppendEvent(e)
       \/ \E o \in RateFeed : AppendRate(o)
       \/ \E i \in ItemFeed : AppendItem(i)
       \/ \E o \in SentimentFeed : AppendSentiment(o)
       \/ \E o \in ChainFeed : AppendChain(o)
       \/ \E now \in 0 .. LastMoment : Analyze(now)

HistorySpec == HistoryInit /\ [][HistoryNext]_historyVars

----------------------------------------------------------------------------
\* Properties.

(***************************************************************************)
(* A revision that the macro analyst compares is a revision: the two       *)
(* values it calls prior and latest (macro_event.py:212-258) carry         *)
(* different revision numbers, in that order, however the feed repeated,   *)
(* reordered or contradicted itself, since the history refuses a second    *)
(* settled value under one number (macro/history.py:132-148).              *)
(***************************************************************************)
RevisionsAreCompared ==
    \A p \in RevisionPairs(AllEvents) : p[1].revision < p[2].revision

==============================================================================
