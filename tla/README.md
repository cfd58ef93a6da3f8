# Verification of the AI trading advisor

TLA+ models of `boyarkavolzhentsev/ai-trading-advisor` (Python, `src/app`, plus one
MQL5 expert), checked with TLC and, where a statement should hold for every value
of the constants, proved with TLAPS.

The advisor watches a market (Binance order book, taker flow and open interest,
MetaTrader 5 candles), and on request runs one *cycle*: it reads the MT5 account,
updates what became of the recommendations it made before, lets a pipeline of
pure evaluators decide whether a trade is worth recommending, and persists every
recommendation it issues. It never places an order: the trader does, in the MT5
terminal, and the advisor has to find out afterwards which broker position, if
any, came from which recommendation.

Paths below are relative to `src/app`.

## 1. Inventory

### Components with state

| Component | State it keeps | Operations | Hard behaviours |
|---|---|---|---|
| Tracking: `mt5/matching.py`, `mt5/tracker.py`, `mt5/recommendation_persistence.py` | one JSON document per `trade_id`: status, matched position, pre-existing positions, window | match, advance, create, read, write | the broker acts between the reads; a failed read or write of one document; a window of history that moves; crash between two writes |
| Runtime cycle: `orchestration/runtime_cycle.py` | the claims and the unresolved set of the running pass | load documents, read history, advance all, assemble facts, guard, issue | order of documents in one pass; netting lock derived afresh each cycle |
| Advisory service: `application/advisory_service.py`, `cycle_receipt.py` | a receipt file per `logical_cycle_id` | claim, run, answer | two processes claiming one id; crash after the claim; retry |
| Composer: `production_advisory/composer.py`, `lock.py` | lifecycle NEW/STARTED/STOPPED, an asyncio lock | startup, shutdown, run_cycle | wait for the lock between check and use; a thread beside the loop; exit on every path |
| MT5 client: `mt5/client.py` | connected flag | initialize, shutdown, account, positions, history_deals | one shared connection; reads that fail |
| Rollover: `mt5/rollover.py`, `mt5/persistence.py` | one state file: trading day and its balance baseline | decide, read, write | day change during a failed write; baseline later than the day start |
| Order book: `market_data/realtime/order_book_sync.py`, `.../binance/futures/realtime/provider.py` | local book, buffer, sync state; resync tasks | start_buffering, on_delta, apply_snapshot, _resync | deltas lost, snapshot racing the stream, several resync tasks at once |
| Transport: `market_data/realtime/transport.py`, `reconnect.py`, `health.py` | bounded queue, reader task, backoff | connect, run, enqueue, stop | loss by a full queue, reconnect, stop during a connect |
| Flow bootstrap: `flow/realtime_bootstrap.py`, `flow/open_interest_poller.py` | the tasks of every stream, their health | start, stop | a task that dies alone; partial start |
| Flow engine and histories: `flow/*.py`, `market_data/realtime/taker_flow.py` | windows, bucketed flow | ingest, evaluate | late and duplicate events |
| Calendar bridge: `mql5/experts/HighImpactCalendarBridge.mq5`, `high_impact_event_bridge/file_reader.py` | a JSON file written by the terminal | write, read | torn or stale file |
| Candle store: `technical/candle_store.py`, `technical/production.py` | candles per timeframe | read, merge, snapshot | gaps, the candle still forming, failing reads |
| External histories: `macro`, `rates`, `news`, `news_intel`, `onchain` | bounded append-only logs | append, analyze | repeats, revisions, contradictions, eviction |

### Components without state

The decision and risk pipeline (`decision`, `risk`, `judge`, `strategies`,
`diversification`, `market_evaluation`), the sizing and final recommendation
(`mt5/sizing.py`, `orchestration/final_recommendation.py`), the technical, flow and
external-intelligence analysts and supervisors, the calendar gate, the explanation
with its LLM client, the mapping to the response, the HTTP/Telegram renderers and the
statistics aggregator are functions of one cycle's inputs. Nothing in them races, but
their result models re-derive each other's results in their validators, so that a
combination nobody foresaw raises instead of answering.

### How they interact

```
 HTTP / Telegram ──> ApplicationAdvisoryService ──receipt──> receipt directory
                          │ run_cycle
                          v
                ProductionAdvisoryComposer ──lock──> one cycle at a time per process
                   │ startup/shutdown      │ preflight: tracking + provenance directories
                   v                       v
            FlowRealtimeBootstrap     technical read (thread) ──> run_runtime_cycle
             │ transport, order book,        │ MT5Client: account, positions, history
             │ taker flow, open interest     │ rollover state file
             v                               │ advance every tracked recommendation
          FlowEngine (snapshot) ────────────>│ pipeline ─> guard ─> create + write
                                             v
                               tracking directory, provenance directory
```

Everything in one process runs on one event loop (`flow/realtime_bootstrap.py:31`);
the only concurrency inside a process is between awaits, and between the technical
read in its thread and the loop. Processes share only directories; the broker and
the trader share nothing with the advisor but the account.

### What makes each part correct

* Tracking: a recommendation owns at most one position, no position has two owners,
  an owner never changes, the position was opened by this recommendation and not
  before it; a closed status tells what the broker booked; a pending recommendation
  does not stay pending for ever.
* Cycle: on an account that nets, at most one recommendation is unresolved.
* Service: an id runs at most one cycle, ever; each of its `trade_id`s is issued at
  most once; every request is answered.
* Composer: cycles run one at a time, in the order of their `as_of`, only while
  started, with the MT5 connection open only inside them.
* Rollover: one baseline per trading day, never moving backwards.
* Order book: when it says it is synchronized, it is the exchange's book at its
  update id; it comes back after every gap.
* Facts: what a cycle sizes trades with is of one trading day, and counts no deal
  twice, although it is read in several steps.
* Calendar bridge: a reader never takes a torn file for an empty calendar.
* Candle stores: a candle that was stored never has to be corrected.
* Flow engine: a window that misses something says so.
* Flow runtime: a stream is fed again after every loss; `stop()` leaves nothing behind
  but the resynchronisations of the order book, which it does not know of.
* Pipeline: long and short are each other's mirror image, the money at risk stays in
  every budget, and every result a stage may produce is accepted by the next.
* Report: each strategy family is either recommended or has one reason, and whatever
  was issued is told, however the LLM answers.

`PROJECT.json` lists every component with its status, and every hazard at the line
where it bites with the properties that watch it.


## 2. Modules

```
TrackingRules ── RecommendationTracking ──┬── RecommendationTrackingProofs
                                          └── MCTracking ── MCIssuance

OneCyclePerId <·· AdvisoryCycle ──┬── AdvisoryCycleProofs
                                  └── MCAdvisory ── MCIssuance (with MCTracking)

OrderBookFeed <·· OrderBookSync ──┬── OrderBookSyncProofs
                                  └── MCOrderBook ──┐
                                                    ├── MCRealtime
FlowRuntime ──┬── MCRuntime ────────────────────────┘
              └── FlowProofs

                  ┌── TechnicalFeatures ── TechnicalSeries ── MCSeries ───┐
TechnicalEvidence ┴── TradeDecision ── TradePipeline ──┬── CycleReport ──┐│
                                                       └── MCTrade ──────┤│
                                                                MCReport ┴┤
FlowEvidence ── FlowFeatures ── MCFlow ───────────────────────────────────┤
ExternalEvidence ── ExternalHistory ── MCHistory ─────────────────────────┼── MCCycle
AccountFacts ── MCFacts ──────────────────────────────────────────────────┤
CalendarBridge ── MCCalendar ─────────────────────────────────────────────┘

AccountFacts ── AccountFactsProofs
CycleReport, CalendarBridge ── CycleProofs
TechnicalSeries, ExternalHistory ── HistoryProofs
FlowRuntime, FlowFeatures ── FlowProofs
FiniteSums ── RecommendationTrackingProofs, AccountFactsProofs, CycleProofs,
              FlowProofs, HistoryProofs

TechnicalEvidence, FlowEvidence and ExternalEvidence extend Evidence.

── EXTENDS      <·· implements (INSTANCE with a refinement mapping)
```

Names follow the code. An operator under a comment that starts with `Wrong:` is not
part of the model: it is a plausible slip of the definition below it, and the
property that notices it is named in `PROJECT.json`, `mutants`. The line range each
definition stands for is in `PROJECT.json`, `map`.

### TrackingRules and RecommendationTracking

`TrackingRules` holds the pure rules: `MatchOutcome` is `match_recommendation`
(`mt5/matching.py`), `LifecycleStatus` is `reconstruct_position_lifecycle` with the
classification of its result, `AdvanceTracked` is `advance_tracked_recommendation`
(`mt5/tracker.py`). A history read is the set of the indices of the broker's deals
that it returned.

| In the module | In the code |
|---|---|
| `deals` | the account's deal history, as the broker books it |
| `docs` | the tracking directory, one JSON document per `trade_id` |
| `cyc` | the local variables of one `run_runtime_cycle`: `as_of`, the read and its status, the claimed position ids, the unresolved trade ids |
| `BeginCycle` | `create_advisory` captures `as_of` |
| `LoadAndReadHistory` | the documents are loaded, the unreadable ones left out, and `history_deals` is called once from `_compute_history_start` |
| `AdvanceTrade` | one round of `_advance_all_existing_tracking` and the write of its outcome |
| `FinishCycle` | `positions()`, the decision pipeline (any set of actionable families), `_evaluate_netting_guard`, `create_tracked_recommendation` and the writes |
| `AbandonCycle` | an exception, a terminal that is not AVAILABLE, a crash |
| `OpenPosition`, `AddToPosition`, `ReducePosition`, `ReversePosition`, `CloseByPosition` | the broker and the trader, at any moment between two steps |

What is abstracted:

* Time is a number of ticks; a trading day has `DayLength` of them. No deal carries
  the very instant of `as_of` (the code compares with `<=` on both sides of it).
* A volume is a number of volume steps. A price and an entry or exit time are left
  out: no status depends on them.
* One symbol. A deal of another symbol qualifies for nothing in `matching.py`, and
  `mt5_symbol` is fixed per process.
* A `trade_id` is a number whose order is the lexicographic order in which
  `list_trade_ids` sorts.
* The broker of the model books no deal the code calls non-trading, unknown or
  malformed.
* All writes of one document are atomic: `os.replace` of a flushed temporary file.

### AdvisoryCycle and OneCyclePerId

`AdvisoryCycle` is `ApplicationAdvisoryService.create_advisory` over
`ProductionAdvisoryComposer.run_cycle`, for any number of processes that share the
receipt, tracking and provenance directories. `pc` is where a request is:

| `pc` | The request is at |
|---|---|
| `claiming` | `CycleReceiptPersistence.claim`, `as_of` captured |
| `claimed` | the lifecycle check of `run_cycle` |
| `queued` | the wait of the cycle lock |
| `entered` | the preflight `_reject_if_duplicate_cycle` |
| `technical` | the awaited technical read in its thread |
| `issuing` | the synchronous rest of the runtime cycle: per family the tracking write, then the provenance write |
| `SERVED`, `DUPLICATE`, ... | answered |
| `lost` | its process died under it |

The event loop is modelled by `LoopFree`: a request that has not reached an `await`
(`Synchronous`) keeps every other callback of its process from running. Only the
wait for a held lock and the technical read give the loop away, exactly as in the
code. A crash (`Restart`) may hit between any two steps, also between two writes of
one synchronous stretch. The HTTP and the Telegram adapter both let the requests in
flight end before they call `shutdown()`, and accept none afterwards: that is
`Drains`.

`OneCyclePerId` is what a caller may rely on: an id denotes one attempt, which
begins once, issues each of its `trade_id`s at most once and only while it lasts, and
never again when it is over. `AdvisoryCycle` implements it with `attempt` derived
from the receipts and from the request that holds the claim.

### OrderBookSync and OrderBookFeed

`OrderBookSync` is `OrderBookSynchronizer` with the `_dispatch_loop` and `_resync`
tasks of `BinanceFuturesOrderBookStream` around it, for one symbol.

| In the module | In the code |
|---|---|
| `head`, `emitted` | the exchange's last update, and the last one it sent |
| `stream` | the bounded queue of `WebSocketTransport` |
| `state`, `buffer`, `book`, `lastId` | the synchronizer |
| `task` | the `_resync` tasks: where each is, its attempt, the snapshot it holds |
| `draining` | the events the loop of `apply_snapshot` has still to apply |
| `published` | the last book put into the reader's queue |
| `Dispatch` | one iteration of `_dispatch_loop`: `on_delta` and what follows from its result |
| `Resync(t)` | the steps of one `_resync` between its awaits |

`BookAt[n]` is the exchange's book after its `n`-th update: a constant, any function,
so that nothing depends on what the book looks like. Update ids are dense, an event's
`pu` is `first - 1`. An event carries every level that changed at all during its
updates, also one that was changed back. A snapshot is the whole book; the code asks
for a limited depth. The loop inside `apply_snapshot` is the only loop here that
takes several steps; while it runs (`~LoopFree`) nothing else of the process does.

`OrderBookFeed` is what the reader of the stream may rely on: every published book is
the exchange's at its update id, and each is newer than the one before.

Two facts the model brought to light that are no disagreement with any doc:
`start_buffering()` or a late `apply_snapshot` of one task takes a book that another
task had synchronized out of SYNCED (`provider.py:285`,
`order_book_sync.py:148-149`); and every event taken before the first turn of a
scheduled `_resync` schedules another, so a backlog becomes as many simultaneous
snapshot requests (`provider.py:266-267`). Neither breaks what the reader is promised.

### AccountFacts

The broker goes on while `run_runtime_cycle` reads the account, the deals and the
positions; then the cycle reads the baseline file, decides (`decide_rollover`), writes
it, assesses realized PnL and open risk, and assembles the four
(`assemble_account_risk_snapshot`).

| In the module | In the code |
|---|---|
| `now`, `held`, `dealt` | the broker: its clock, positions, deals |
| `shift` | the change of offset of the rollover time zone in this run |
| `rolloverHour`, `ChangePolicy` | `MT5RolloverPolicyConfig`, changed by an operator at a restart |
| `file` | the baseline file: none, a state, or something that is no state |
| `facts` | the locals of one cycle: `as_of`, account, deals, positions, baseline |
| `StartFacts` … `AssembleFacts` | the reads and steps of the cycle in their order |
| `StopCycle` | a crash or an exception at any of them |
| `watched`, `reported` | history: what a cycle said it had persisted for one day |

An amount is the set of deals or positions it is summed over: to count a deal twice or
on the wrong day is visible, rounding is not. `as_of` may lag behind the broker's clock
(`Lags`); a fact its own model refuses leads to the stage `RAISED`.

### CalendarBridge

`QueryCalendar`, `WriteTemporary`, `RemoveTarget`, `MoveIntoPlace` are the expert, with
`AbandonPublication` for every error branch; `RequestVerdict` captures `as_of`, and
`ReachVerdict` is one synchronous read of the file followed by the gate. Time is counted
in slots of five minutes, in which every window of both programs is a whole number. The
server's offset changes at `OffsetAt`, by any of `Offsets`: `Instants` is what a naive
server time may stand for, two of them when the clock is put back and none when it skips.

### TechnicalFeatures and TechnicalSeries

`TechnicalFeatures` computes the snapshot of `TechnicalFeatureEngine` from closed
candles: trend, structure (swings and breaks), volatility, momentum, moving averages,
candle structure and range, each with its quality. Decimals are fractions, compared
exactly. `TechnicalSeries` puts a broker around it: `Trade` changes the candle of the
running hour, `HourPasses` ends it, `BeginReading` captures `as_of` and `ReadFrame` is one
turn of the loop over the timeframes, in which the read may fail. Rates fail as a whole
when one of them has an hour of `AmbiguousHours`.

### Evidence, TechnicalEvidence, FlowEvidence, ExternalEvidence

The analysts and supervisors, as operators. A number is what an analyst tells of it:
`UP`, `DOWN`, `LEVEL` or `NONE`. They are evaluated inside `TechnicalSeries` (snapshots),
`TradePipeline` (technical), `FlowFeatures` (flow) and `ExternalHistory` (external), never
alone.

### FlowFeatures

`RecordEvent` is a forwarder that feeds the engine; `WantFlow` captures the `as_of` of a
cycle and `BuildFlow` is `build_flow_result` when its turn comes: what was recorded in
between is in the histories already, and possibly instead of something older. `feed` is
everything that was ever recorded; a history is its tail.

### ExternalHistory

The five append-only logs with their keys, fingerprints, revision rules and capacity, and
`Analyze`, the four analysts and their supervisor over what the logs hold. A record is
refused exactly where the code raises `DuplicateEventError` or `RevisionConflictError`.

### TradeDecision and TradePipeline

`TradeDecision` is evaluation, routing, judgement and setup construction as operators of
one `market`; `TradePipeline` takes it through the stages `AnalyzeTechnical`,
`JudgeMarket`, `ConstructSetups`, `BlockBeforeRisk`, `ShareRisk`, `Recommend`. A stage whose
result a validator refuses leads to `RAISED`. Money is counted in hundredths, prices are
small whole numbers, an allocated risk is a fraction: the volume floor, tick rounding
and percentages are exact, the 28 digits of a decimal are not modelled.

### CycleReport

The pipeline is followed to what the operator sees. `EvaluatePipeline` is one stage of
it, `RunRuntimeCycle` the guard, issuance (each write may fail) and the outcome of
the cycle; `ExplainWithoutProvider`, `ProviderFails`, `ProviderAnswers`, `ProviderErrs` are
the ways of `explain_runtime_cycle`, in which the model may answer anything that parses;
`AnswerRequest` is the mapping to the response. `Sections` is what the Telegram message
contains.

### FlowRuntime

`FlowRealtimeBootstrap` over `WebSocketTransport`, on one event loop.

| In the module | In the code |
|---|---|
| `health` | the tasks as `classify_task` tells them, `CANCELLED` until a cancelled one has ended |
| `line`, `connection`, `resent` | where `run()` is, `_connection`, what `_resubscribe_all` sends |
| `desired` | `_desired_streams` |
| `dead` | a connection that is gone, which its reader has not noticed |
| `ending` | `_stop_event` |
| `dispatch` | the task of `_dispatch_loop` |
| `forwarder` | `_forward_*`: before, inside and after its `subscribe()` |
| `resyncs` | how many `_resync` tasks of the order book are at work |
| `start`, `stop`, `at` | where the calls of `start()` and `stop()` are |

Each action is what runs between two awaits. `start()` may be answered with an exception
and then calls `stop()` itself; `stop()` may be called at any point of everything else,
also while a connection is being made.

`RuntimeTasks` are the tasks the bootstrap keeps in `_tasks` and its poller. The order book
stream starts others with `asyncio.create_task` and keeps no reference to them: a `_resync`
when `order_book()` has subscribed (`provider.py:303`) and one at every gap its dispatch loop
meets (`provider.py:267`). `stop()` of the stream ends the dispatch loop only
(`provider.py:246-253`), so a `_resync` that sleeps in its backoff or waits for a snapshot
outlives a `stop()` that returned. What such a task does is `OrderBookSync`; here it is
counted (`ResyncWhenTaken`, `FindGap`, `ResyncEnds`), and `StopLeavesOnlyResyncs` says that
these are all that is left and that no other is started.

### MCCycle, MCRealtime and MCIssuance

`MCCycle` puts the parts of a cycle side by side in one state space: a variable `part`
says which one is at work, the others rest. They share nothing but results, and each
takes what it is handed from everything it may be, so that running them one at a time
loses no behaviour of any of them. `MCRealtime` does the same for the order book stream and
the flow runtime, each with its fairness, and `MCIssuance` for what keeps recommendations
apart: the documents of `RecommendationTracking` and the requests of `AdvisoryCycle`. It
has a configuration for an account that hedges, one for an account that nets and one for
the liveness of the documents, in which no request is at work.

## 3. Runs

A run is an MC module with one of its configurations. States are distinct states.

| Run | Asks | States |
|---|---|---|
| `hedging` | two recommendations in one cycle of a hedging account, close-bys, failed history reads, crashes: `NoSharedPosition`, `NotFilledIsTrue`, `ClosedMeansFlat`; three requests in one process, two families, receipts that vanish: `IssuedOnce`, `ToldIsRecorded`, `ConnectionIsBracketed`, `RunsOnlyWhenStarted`, `CyclesRunInAsOfOrder` | 984 000 |
| `netting` | netting account, reversals, failed history reads, crashes: `OneUnresolved`, `GenesisIsAlwaysRead`; two processes, two ids: `AtMostOneCycle`, `ImplementsPromise`, `EveryRequestAnswered`, `TypeOK` | 801 000 |
| `live` | every fault: `TrackingTypeOK`, `MatchIsPermanent`, `ClosedIsFinal`, and the liveness of `PendingIsResolved`, `ClosedPositionIsBooked` | 103 000 |
| `order_book` | three `_resync` tasks, lost events, full queues, failing fetches: `SyncedBookIsExact`, `ImplementsFeed`, `EveryGapIsAnswered`, `TypeOK`; and the flow runtime with refused and lost connections, tasks that fail, `stop()` at any moment: `FedUntilStopped`, `StopLeavesOnlyResyncs` | 380 000 |
| `cycle_parts` | the parts of a cycle, one at a time: `FreshVerdictIsTrue`; `FactsAreOfOneDay`, `BaselineIsKept`, `OnlyEmptyAccountsRaise`; `StoredCandlesAreFinal`, `StructureIsNotRepainted`, `MirroredSeriesIsMirrored`; `RevisionsAreCompared`; `FlowIsTrue`; `MirroredMarketIsMirrored`, `RiskStaysInBudget`, `DirectionIsUncontested`, `PipelineAnswers`; `EveryFamilyIsAnswered`, `IssuedCyclesAreAnswered` | 2 821 000 |
| `stale_position` | violates `OwnedPositionIsFresh` | finding 1 |
| `turnover` | violates `ClosedMeansFlat` | finding 2 |
| `revived` | violates `NotFilledIsFinal` | finding 3 |
| `advisory_stopped` | violates `BeginsOnlyWhenStarted` | finding 4 |
| `order_book_stuck` | violates `NextEventRetries` | finding 5 |
| `stop_raises` | violates `FailedDispatchIsNotRaised` | finding 6 |
| `unrecorded` | violates `UnrecordedIsNotExposed` | finding 7 |

`CHECK_DEADLOCK FALSE` is set where the system may stop: a service with no request left,
an exchange with no update left, a cycle that is over and a runtime that is stopped. The
runs of the tracking alone check deadlock: a cycle can always begin.

What the properties of `cycle_parts` say is written above each of them. They compare
what a part hands on with the world it was read from, not with its own rules: the gate's
verdict with the calendar in the terminal, the realized PnL with the instants of the
broker's deals, a stored candle with what the broker made of its hours in the end, the
flow features with those of everything that was ever recorded, the money at risk with
the prices and volumes recommended, the mirrored market with the mirrored advice.

### Bounds

* Tracking: two `trade_id`s and two positions are the least for which documents
  compete, for which the order of a pass matters and for which a claim can be lost;
  an execution window of one tick inside days of two lets a recommendation live
  across a day boundary; four ticks leave room for a cycle before, inside and after
  the window. Three deals open, add to or reduce, and close a position. Volumes of up
  to two steps against an approved volume of two give partial fills, exact ones and
  overfills. In `live`, two deals (an opening one and a closing one) are enough
  because its liveness properties are about one position each.
* Advisory: `AtMostOneCycle` and the promise relate two claims of one id, so two
  requests over two processes; the second id shows that ids do not interfere. The
  order of waiters needs a holder and two waiters: three requests. Two families make
  a cycle's issuance interruptible between documents. One receipt directory emptied
  at any moment stands for every way of losing a receipt.
* Order book: seven updates in events of one or more, a stream of three and a buffer
  of two make each queue overflow while a snapshot is on its way, and leave events
  after the overflow. Two attempts distinguish a retry from the last one. Three tasks
  are one more than it takes for a stale snapshot to arrive over a fresh one. The
  book has a level that disappears and one that is changed and changed back. The
  actions each fire; how often is not a matter of the bound, since the safety
  properties are proved for all of them (section 5).

* Calendar: two events in neighbouring slots are the least for which the time the gate
  calls safe may fall into a second event. Eight slots let the file become older than its
  limit of three, and let a request wait until a newer export, which looks back half an
  hour (six slots), no longer covers it. The offset changes early, forward or back
  (before it does, time is as without a change). The two events are interchangeable
  (symmetry): no definition prefers one of them.
* Facts: two days of two hours with the change of the offset at the border of the days;
  one position, which opens, floats and is closed at any point between the three reads.
  Equities include zero.
* Series: five hours of history (with and without a missing hour) and one more that is
  live; lookbacks of two, swings of one bar on each side, H4 of two candles. Histories have
  every combination of three shapes, one of which makes a new high and one a new low. A
  store of five candles overflows, and a fetch of five hours begins inside a candle of H4.
* History: a key may get two settled values and two revisions; logs of two evict.
  `NewsSymbol` is one symbol.
* Flow: one kind of event is recorded in a behaviour, the others are empty: the
  calculators of different kinds do not read each other, but for the correlations, which
  take price from the trades. Histories of two under three events evict inside a window.
* Pipeline: prices from 1 to 9 around a spread, two timeframes, structures without a swing,
  with swings on the wrong side and with two breaks; accounts with no risk left, with
  a reached target, with most of the budget used. Reports: every market in an ordinary
  cycle, and every failure of the cycle with a market that has two setups.
* Flow runtime: one transport with two streams, one of them the order book's, the poller,
  one `_resync` at a time (whether one more is started does not depend on how many there
  are), one loss, one refusal and one error that
  nobody expects, each at any moment. A second transport adds interleavings and no new
  interaction: transports meet only in the order in which `stop()` closes them. The
  refresh of the funding intervals is left out of the instance: to `stop()` it is one more
  consumer.

### Fairness, and why the code justifies it

* Tracking (`live`): time passes, cycles keep being requested and run to their end,
  and faults, which may recur any number of times, stop at last (`<>[][~Fault]_trackingVars`).
  The requests come from outside the program: the code has no scheduler. Without
  requests nothing is ever resolved, which the property does not claim. Nothing is
  asked of the broker or of the trader. Issuing is never required: `FinishCycle` is
  fair only in its form that recommends nothing.
* Advisory: `WF(Advance(r))`: the event loop runs every ready callback and the thread
  of the technical read returns. Nothing is asked of startup, shutdown, restarts or
  arrivals. `Advance` contains a failure at each place where the code can fail, so
  fairness cannot force a success.
* Order book: `WF` of the dispatch loop and of each task: the loop runs every ready
  callback, a REST request is answered or fails (the client has a timeout), a sleep
  ends. Nothing is asked of the exchange or of the connection.

* Flow runtime: `WF` of the task of each transport, of each forwarder, of the end of
  cancelled tasks, and of `start()` and `stop()` once they are called: the loop runs every
  ready task, and a connection attempt, a send or a `wait_for` of five seconds has an
  end. Nothing makes the network drop or refuse a connection, a task fail, or anybody
  call `stop()`.

`EveryRequestAnswered` holds across crashes since `lost` counts as an answer: it says
that no path out of the locked section keeps the lock.
`PendingIsResolved` lets a contested recommendation be pending for ever, and no other: one
whose candidate is a single position filled with exactly the approved volume must be
matched, one without a candidate must expire. Contested are several candidates
(AMBIGUOUS) and a single one with less or more than the approved volume (PARTIAL_FILL,
VOLUME_MISMATCH): these never expire in `match_recommendation`, and on a netting account
they hold the symbol's lock until somebody intervenes; the code documents that. `EveryGapIsAnswered` counts a used-up resynchronisation as an answer; what
happens after it is finding 5.

## 4. Findings

1. `stale_position` (`mt5/matching.py:91`). A position opened on an earlier trading
   day, added to between `as_of` and the `positions()` snapshot and closed before it,
   is in no snapshot, and its genesis is older than the history window. Its later
   fill is taken for its genesis, and the recommendation owns a position that existed
   before it. `matching.py:84-87` promises the earliest deal "across the *entire*
   supplied history" as a second protection; the supplied history does not reach far
   enough to be one.
2. `turnover` (`mt5/tracker.py:143`). An INOUT deal on a netting account drives the
   net volume below zero, which counts as closed, although the position is open on
   the other side; `mt5_tracking.py:101-104` says `net volume == 0`.
3. `revived` (`mt5/tracker.py:246`). A NOT_FILLED document is still polled over the
   same deals. When the document that claimed its candidate cannot be read in one
   cycle, the candidate is free and NOT_FILLED turns OPEN; `runtime_cycle.py:103-104`
   calls NOT_FILLED "terminal by construction".
4. `advisory_stopped` (`production_advisory/composer.py:268`). The lifecycle is
   checked before the wait for the lock and not after, and `shutdown()` does not take
   the lock: a request that waited gets the lock after `shutdown()`, passes the preflight
   and runs its cycle on closed resources, which `composer.py:261-266` excludes.
   `BeginsOnlyWhenStarted` is about that step only; a cycle that has begun when
   `shutdown()` ends is no violation of it. Both adapters drain, so it takes another
   embedding; in `hedging`, where they do, no cycle is even under way
   (`RunsOnlyWhenStarted`).
5. `order_book_stuck` (`provider.py:285`). After the last attempt the synchronizer is
   left BUFFERING, in which a depth event never schedules a resynchronisation; the
   log line promises "until the next depth event triggers another attempt". Three
   snapshots in a row that no event bridges are enough.
6. `stop_raises` (`provider.py:150`). `stop()` of a stream awaits its dispatch task also
   when it has failed long ago, and suppresses `CancelledError` only: the error leaves
   `FlowRealtimeBootstrap.stop()` before a transport is stopped, and since `_started` is
   already FALSE a second `stop()` returns at once. `realtime_bootstrap.py:359-362` says
   "an already-FAILED task must never be re-awaited here (that would re-raise its exception
   out of `stop()`)". The loop fails when a mapper raises anything but `MarketDataError`,
   which the router lets through (`router.py:25-32`).
7. `unrecorded` (`explanation.py:545`). The explanation tells every actionable
   recommendation, also one whose tracking write failed (`explanation.py:162-199`), and the
   narrative of the fallback is its direction, entry, stop, take-profit and volume, which
   the Telegram message shows (`rendering.py:105-146`). `advisory_service.py:198-201` says
   such a one "must never be exposed as operator-facing output". A narrative of the
   language model is free text and is left out of `UnrecordedIsNotExposed`.

### What else the models brought to light

These are not runs of their own: they follow from reading the code closely enough to
model it, and the modules behave as the code does.

Account facts
* A failed baseline write leaves the cycle with a baseline that is not on disk; a later
  cycle of the day takes its own, later equity (`runtime_cycle.py:382-383`).
  `BaselineIsKept` therefore speaks of baselines that were reported as persisted.
* An account with equity zero makes `AccountRiskSnapshot` raise out of the cycle
  (`facts.py:135`): the exception in `OnlyEmptyAccountsRaise`.
* A position closed between `as_of` and the account read counts neither as floating nor
  as realized in that cycle (`runtime_cycle.py:342,358`).
* A position whose stop lies behind its entry counts no open risk (`mt5/risk.py:51-73`),
  although its floating profit is in the snapshot and would be lost on the way to the
  stop; `core/models/risk_gate_result.py:95-97` speaks of the loss from the current mark.
* `enums/runtime_cycle.py` says of PARTIAL_DEGRADED that the fact assembly is blocked;
  `runtime_cycle.py:502` asks whether it is missing.

Calendar
* `HighImpactCalendarBridge.mq5:163` ignores the result of `FileWriteArray`: a torn file may
  be published. The reader takes it for MALFORMED, and the gate then lets setups pass,
  with the quality of its data beside the verdict. One event whose server time is
  ambiguous or does not exist has the same effect.
* The export window is counted in server time and loses events next to a change of its
  offset; events the terminal cannot look up are left out silently.
* A file written after the `as_of` of the cycle counts as FRESH however much later it is
  (`file_reader.py:195`: its age is negative), and nothing bounds the wait between the two
  (the cycle lock, the technical read). Half an hour later the export has dropped events
  that still block the cycle's own instant. `FreshVerdictIsTrue` therefore speaks of the
  blackouts inside the window of the export (`ExportCoversCycle`); the proof of the
  property without that condition failed, and a longer horizon gave the behaviour.

Candles and evidence
* After a failed fetch the snapshot is made of the old candles, with quality VALID
  (`technical/production.py`). One rate with an ambiguous server time fails the fetch of
  its whole timeframe. A host clock ahead of the broker's would freeze a candle that is
  still forming; the model has one clock. An H1 hour without a trade drops its H4 candle.
* The rates and on-chain trends rank by observation time only; the news analyst counts
  versions of an item that were superseded; after an eviction the key of a settled record
  can be opened again. Production instantiates none of these histories.
* The price context has no truncation check of its own (`flow/price_context.py`);
  repeated snapshots of one window count as independent samples of a correlation.

Pipeline and report
* Two news providers of which only one has a direction are MIXED with one reference,
  which `strategy_judge_result.py:88-91` refuses: the exception in `PipelineAnswers`,
  dormant while production passes no external evidence.
* A trend setup LONG and a breakout setup SHORT may be recommended in one cycle.
* The narrative covers every actionable recommendation, also one that the guard withheld
  (`explanation.py:162-199`; finding 7 is about one whose tracking write failed). The
  message then holds the reason it was withheld for as well.
* A symbol whose point is not positive is refused like one whose tick is not
  (`setup_construction.py:104`); in `SymbolUsable` a tick of zero stands for both.
* After LLM_SUCCESS the narrative's own warnings replace the deterministic ones.

Flow runtime
* A `subscribe()` whose send raises ends its forwarder for good (FAILED); `start()` looks
  for failures once, after 10 ms. `FedUntilStopped` stops at a task that has ended.
* `stop()` during the send of a resubscription makes `run()` fail with its assertion
  (`transport.py:208-212`): FAILED, although the shutdown was intended.
* A `_resync` that outlives `stop()` goes on with its attempts (`provider.py:274-295`): when
  the bootstrap owned its REST client, the request goes through a closed one, whose
  `RuntimeError` is no `MarketDataError`, and ends the task with an error nobody retrieves.
  The docstring of `stop()` lists what it ends, and these tasks are not on the list.
* A transport may fail while it is awaited; its error leaves `stop()`, too.
* After an established connection drops without a message there is no backoff; a
  `stop()` during a pending connect waits for five seconds and cancels.

## 5. Proofs

TLAPS proves the following for every value of the constants that satisfies the
modules' assumptions. The assumptions say that counts are natural numbers, that flags
are Booleans, that the bounded sets are finite, that "none" values are not members
of the sets they are beside (`NoStateAssumption` among them), that the numbers of a
market are whole, its quotes in ticks and the directions of its trends signs, that no
price or quote is negative (`base.py:57` says so of a `Price`; of the broker's bid and
ask, which no model bounds, it is assumed), that a family's snapshots are of expected
timeframes and its observations finitely many (`MarketsAssumption`, `CyclesAssumption`), that the timeframes are finitely many
(`TimeframesAssumption`), that the broker's candles have whole prices and lie in hours
that have begun (`SeriesAssumption`), and events times and revision numbers that are not
negative (`HistoryAssumption`, `economic_event.py:83`), and that the trades tracked before have other names than the
families, each of which is in the order once (`OrderAssumption`), and that the
transports, the streams and the other tasks of a runtime are different tasks and each
transport is joined (`FlowRuntimeAssumption`), and that the windows and the capacities of
the flow engine are positive and its trades and liquidations have whole quantities
(`FlowAssumption`).

| Module | Theorem | Under |
|---|---|---|
| `RecommendationTrackingProofs` | `TypeCorrect`, `MatchNeverChanges`, `GenesisAlwaysRead` | nothing |
| | `PositionsAreNotShared` | documents can be read (`~ReadFaults`) |
| | `NettingLockHolds` (`OneUnresolved`) | the account is not HEDGING, no close-bys unless it nets, documents can be read and written |
| | `GivenUpForGood` (`NotFilledIsTrue`) | documents can be written (`~WriteFaults`) |
| | `ClosedIsFlat` (`ClosedMeansFlat`), `ClosedStays` (`ClosedIsFinal`) | no turn-overs (`~Reversals`), and every owned position is fresh (`[]OwnedPositionIsFresh`) |
| `AdvisoryCycleProofs` | `TypeCorrect` | nothing |
| | `OneCycleEver`, `OneAttemptPerId` | receipts stay on disk (`~ReceiptsVanish`) |
| | `ConnectionBracket`, `AsOfOrder`, `ToldIsOnDisk` | nothing |
| | `StartedWhileRunning` (`RunsOnlyWhenStarted`) | the adapter drains before it shuts down (`Drains`) |
| | `DocumentsWrittenOnce` (`IssuedOnce`) | receipts stay on disk, or there is one process |
| `OrderBookSyncProofs` | `TypeCorrect`, `SyncedIsExact`, `ImplementsTheFeed` | nothing |
| `FlowProofs` | `StoppedForGood` (`StopLeavesOnlyResyncs`), `FlowTellsTruth` (`FlowIsTrue`) | nothing |
| `AccountFactsProofs` | `FactsAreTyped`, `BaselineHolds`, `OnlyEmptyRaise` | nothing |
| | `OneDay` (`FactsAreOfOneDay`) | the time zone shifts by one hour at most |
| `HistoryProofs` | `StoredIsFinal` (`StoredCandlesAreFinal`), `NotRepainted` (`StructureIsNotRepainted`), `RevisionsCompared` (`RevisionsAreCompared`) | nothing |
| `CycleProofs` | `FreshVerdict`, `TradeBudget`, `CycleBudget`, `TradeDirection`, `CycleDirection`, `TradeAnswers`, `CycleAnswers` (`PipelineAnswers`), `EveryFamilyAnswered`, `IssuedAnswered` | nothing |

The conditions are needed, not convenient:

* A document that cannot be read has no claim and holds no lock in that cycle
  (`runtime_cycle.py:328-336`, finding 3 is a consequence); a document that cannot be
  written keeps on disk a status that the guard of that cycle no longer sees, and the
  claim of an advance that was not written has no owner on disk.
* An id whose receipt is gone can be claimed again; the preflight then saves the
  documents, but only among cycles of one process, which wait for each other.
* A turn-over closes a document whose position is open (finding 2, run `turnover`). A
  position that is older than its document's signal is finding 1 (run
  `stale_position`): the history window may hide deals of it. `ClosedIsFlat` says that
  nothing else makes a closed document lie.
* Without a draining adapter a request that waited runs on closed resources (finding 4).
* A shift of the day's border by more than an hour may put a deal among the readings
  of the clock that are skipped or repeated.

**Sums.** `FiniteSums` is about the sums the models compute with
`MapThenSumSet`: their type, adding or removing an element, scaling, comparing, and
leaving out a part of the set. The induction theorems of the library take an operator
as a parameter, which the installed provers cannot instantiate; the module states
induction over a *set* of numbers or of subsets (`NatSetInduction`,
`SubsetInduction`), which they can, from the well-foundedness of `<`. Volumes and
profits of a position, open risks and losses at the stop are all such sums, and the
order of the cards (`Retain`, a recursive function over a sequence) is proved the same
way.

**Tracking.** `MatchNeverChanges` needs only that a poll never touches the match of a
document that has one (`Polled`). `PositionsAreNotShared` needs `ClaimInv`: during a
pass, the claims in the cycle's memory cover the owner of every document on disk,
including the ones the pass itself has just written; without it a document could be
given a position an earlier document of the same pass had won.
`GenesisAlwaysRead` needs `GenesisInv`:
an owned position has an opening deal no older than its owner's signal, and the window
of a running pass reaches back to the signal of every document still to be polled.
That is what makes the `assert in_deals` of `reconstruct_position_lifecycle`
unreachable.

The status of a document is proved from what the broker has booked. `DocInv`: a
document owns a position exactly when its status says so, and one that was given up
has its window behind it, so that no later deal adds a candidate.
`OneUnresolved` alone is not inductive, since a NOT_FILLED document is polled again and
may still be matched: `SettledInv` says of all documents but one that whatever position
they own or could still win is over for good; `PassInv` that what a pass has polled and
not reported holds no lock; `BookInv` that on a netting account the net volume the
tracker computes from any suffix of the history is at most the position's.
`NotFilledInv` adds to its property that every claim in memory has an owner on disk.
`BalanceInv` says that the sum of a position's deals is its exposure, and that a read in
which it nets to nothing has all of them; with it `FinalInv` (a closed document is over
on the whole of what was booked, with the sign of its profit) is kept by every poll, and
the same read gives the same status again.

**Advisory.** `TypeInv` joins the types with `HolderIsHead`: whoever is inside the
locked section is the head of its process's queue. It is what makes `Leave` release
the right request. `ReceiptInv` says that an id has at most one claimant among the
requests of all processes, and that it has a receipt; `RanInv` that no cycle has run
while the claimant is still before its preflight. `IssueInv` adds that no document
exists for a family the claimant has still to issue; from it every write is an `Issue`
of `OneCyclePerId`, every receipt a `Begin`, every answer or crash an `End`, and all
else a stutter.

Of the lock, `QueueInv` says that a queue holds its own process's requests, each once
and only while they wait or run: with it the connection is one request's.
`LifeInv` is the life of the process under a drain: while anybody waits or runs it is
STARTED, and a shutdown that is pending has no request left. `OrderInv` needs
`SyncInv`, the rule of the event loop: at most one request of a process is between two
awaits. A request that has captured its `as_of` and not yet entered the queue is
therefore the newest, which keeps the queue sorted. `SectionInv`: no document exists
for what the cycle inside the lock has still to write; `ToldInv`: whatever a request has
taken note of is on disk, also before it answers.

**Order book.** `FeedInv` joins, with the types and the property itself:
`InOrder` (the events still to be delivered follow each other and everything in the
buffer), `Fresh` (no event in the stream or the buffer is as old as what was
published), `Drainer` (at most one task is inside `apply_snapshot`, its book is newer
than the published one and older than every event to come), `Retrying` (a sleeping
task has an attempt left) and `BufferedOnly` (only BUFFERING has a buffer). `Fresh` is
the part that is not obvious: a snapshot that a slow request brings back may well be
older than what another task published meanwhile; it is harmless because only events
received after the last `start_buffering()` can bridge it, and those are newer than
anything published. `Drainer` says the same of the moment between the snapshot and
the end of its drain. `FeedStep` proves in one induction that each step keeps
`FeedInv` and is a step of `OrderBookFeed` or a stutter.

**Stopping.** `StopInv` follows the stages of `stop()`: `TasksEnd` says which tasks have
ended when a stage is over and that every dispatch is off once the connections are to
close, `TransportsEnd` that the transports before the one `stop()` waits for have
ended, and `CalledOnce` that nothing is started behind it. What is left is then `_resync`
tasks only: `ResyncsStarted` says that no other task than the book's forwarder and its
dispatch starts one, and both have ended. `Disconnected` is what a test hardly shows: a transport's task that has ended, in whatever way, has given up
its connection, and one that is connecting has none yet.

**Flow windows.** `FlowInv` says that what was recorded of each kind is in the order of
its times (strictly, for the kinds of which two events never carry the same time) and that the last
result was computed of the histories. `FlowIsTrue` then compares the end of a feed, which
the bounded history holds, with its beginning, which is what happened by `as_of`: two
parts that overlap in any way, and may not overlap at all (`Shares`). `SameWindow` is what
the truncation check of `quality.py` is worth: a window that passes it selects the same
events of both, each some places later in the one than in the other (`Moved`), and
`SameSum` that their signed quantities add up to the same. `SameLatest` says it of
the latest observation at or before a time: whatever the history has dropped, it is the
same one, unless the history has none. That the result was not refused
(`AggregateIsValid`) is a fact about the analysts and needs no history.

**Account facts.** `FileInv`: once a baseline was reported, the file holds it or that of
a later day, and a cycle that has decided for the watched day has decided the same; that
a cycle finds the file unreadable does not break it, since such a file is never
overwritten. `FloatingInv` keeps a position that floats apart from the deals that close
it up to `as_of`, `DealsInv` tells which deals were read, and `BookInv` that the broker
books one position per ticket and no further deal of a closed one: together no amount
is counted twice.

**Histories.** Two sorts decide what is told of a history, so `RankedIsRanking` comes
first: what `Ranked` returns is a permutation of its places in the order of their keys,
because a rank is a cardinality that no two places share. `SeriesInv` says that the
broker's candles lie in hours that have begun and that what is stored is final. The
broker only changes the candle of the hour it is in (`EndedStays`), and the provider may
return a candle that is being formed, but never one that tells something else than
its hours (`OhlcvIsTrue`): for H4 that is the completeness test of the resampler
(`Resampled`), without which a bucket with a missing hour would pass for a candle.

`NotRepainted` is about what is told of the candles. The store sorts what it is given, so
a candle offered late would slip in before others and change which bars stand beside a
swing. `StructureInv` rules that out: a store *remembers* what the provider offers, that
is, a time older than its last candle is one it has, unless it is full and has dropped it
(`Remembering`). This is kept because the offer only shrinks backwards
(`OfferedShrinks`): an hour without a trade stays without one, and a bucket of H4 that
was not whole once it had ended is never whole later, whichever hours the window of
raw candles has lost since (`SameBucket`). So a store continues the one before
(`RecordedContinues`; that a full store does not take in an older candle for one it
drops is the pigeonhole of `NoRoomBefore`), the tails without a missing candle of the two
overlap in one stretch (`TailsOverlap`), and a pivot with its bars in that stretch is a
swing of both or of neither, broken by the same bar (`ShiftedSwing`, `ShiftedBreak`).
Where the earlier store ends before the later tail begins there is nothing to compare
(`NothingBefore`).

`EventsInv` says that a settled record is the last of its key in the log, whatever was
evicted. From it two records with an actual value and one name have two revision
numbers, wherever the two sorts put them (`RevisionsFollow`).

**Calendar.** `CalendarInv`: a text of the expert, published or not, that is whole holds
exactly what the calendar held in its window when it was queried, in server time, and a
verdict is that of the file that was there when it was reached.
`FreshVerdict` then has to show that no instant inside the window is resolved to another
one, which the conditions of the property exclude only next to a change of the offset.

**Budget.** `TradeInv` describes what the pipeline has in hand at each stage.
`StructuralSetup` shows that the distance of entry and stop is a whole number of
ticks, whatever the rounding did; `SizedTrade` that the volume floor never exceeds a
share; `DividedRisk` that shares scaled down to the joint capacity add up to no more
than it; `LossesFit` joins them by the sums. No loss is rounded away: the loss at the
stop is the risk that was allocated, exactly.

**Direction.** `DirectionInv` ties the judgements and the setups to the evidence they
were made from, and `IsEvidence` says what the supervisor has: the coherence entries are
those of what is said, and a timeframe says one thing of a dimension and a subject. The
latter (`SnapshotSpeaksOnce`) is a fact about the seven technical analysts together: each
keeps to dimensions of its own (`HomeOf`). From it an entry has as many voices as it
has timeframes, and what `ResolveEntry` makes of it is what the voices say (`Resolved`);
`TrendDirection` and `BreakoutDirection` then follow a judgement that passed the policy
back to them. Without it two observations of one timeframe would pass for the agreement
of two.

**Answers.** `PipelineAnswers` says that a cycle never raises on a model of its own, and
each stage hands its validators another reason to: `TradeAnswers` goes through them in the
order of the pipeline. The supervisor's result is valid because `TallyGroup` counts what
`Voices` says (`AggregateIsValid`); a judgement that is not NOT_ASSESSABLE cites what it
must (`ValidJudgements`): a dimension that resolved to a direction has two
timeframes behind it, and since a timeframe has one voice it has two references
(`DimensionRefs`). A setup's prices are not negative after they were rounded to ticks
and lie on the right sides of each other. Shares that were scaled down add up to the
capacity exactly (`SharesFit`, by `SumTimes`), where a sum a cent too large would raise.
What remains is the news: providers disagree also when only one of them has a direction,
and a MIXED judgement must cite two references (`NewsRefs`); the exception the property
makes.

**Report.** `ReportInv` carries `TradeInv` through the guard, the writes, the explanation
and the answer. `StagesTellAdvice` is the heart: over the seven results a family has
on its way, no stage stopped it exactly when it is recommended; the refusals that only
echo an earlier gate never stand for a reason. `CardsAreOnce` is why the
validators of `ExplanationResult` never refuse an explanation, and
`EveryCycleIsMappable` why `map_recommendations` never raises.

Only model-checked:

* the liveness properties (`PendingIsResolved`, `ClosedPositionIsBooked`,
  `EveryRequestAnswered`, `EveryGapIsAnswered`,
  `FedUntilStopped`), which need fairness and `ENABLED`;
* the mirrored candles and the mirrored market (`MirroredSeriesIsMirrored`,
  `MirroredMarketIsMirrored`): they compare two evaluations of long chains of folds over
  sequences and of `CHOOSE`. What a fold computes is induction over data.

## 6. What is not modelled, and why

* The statistics aggregator: nothing in the production path calls it. Bootstrap and
  configuration: they read the environment once and construct objects.
* `TakerFlowAggregator` (`market_data/realtime/taker_flow.py`): nothing in production
  calls it; the flow engine has its own windows, which are modelled.
* The Binance REST providers: stateless requests and their conversion. Of the open
  interest poller its task and its `stop()` are modelled, not the poll itself; the same
  holds for the refresh of the funding intervals.
* Conversion of broker and exchange payloads; the wire format of the LLM client; texts,
  rendering and routing of the adapters, but for the sections of a message.
* Of the streams: the readers' bounded queues per symbol, `unsubscribe()`, the health
  statistics and the length of the backoff.
* Precision of decimals: numbers of the pipeline and of the candles are exact fractions.
* `list_trade_ids` returning nothing on an `OSError` (in the model: every document
  excluded), file systems that fold case, directories configured to be the same one.

Facts a reader of the models should know of the code: `as_of` is captured before the
wait for the lock; an answer INTERNAL_ERROR may follow durable writes, so that a
recommendation exists which no caller was told of; after a failed tracking write the
guard of that cycle uses the advanced document in memory while the disk keeps the old
one.

## 7. Plan

Done: tracking, because it decides what the trader is told about money; the advisory
service, which decides what is issued at all; the order book, which feeds every decision;
then the flow runtime below it, and the parts of a cycle from what it reads to what it
tells.

Next:

1. The composition of `FlowRuntime` with the lifecycle of `AdvisoryCycle`, in place of the
   two awaits that stand for it there.
2. `TakerFlowAggregator` and the open interest poll, should production come to use the
   one and depend on the timing of the other.
