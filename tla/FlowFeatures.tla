----------------------------- MODULE FlowFeatures -----------------------------
(***************************************************************************)
(* FlowFeatureEngine (app/flow/engine.py) and the calculators of app/flow: *)
(* the forwarders record what the exchange sent, in bounded histories, and *)
(* build_flow_result (realtime_bootstrap.py:463-482) makes one snapshot of *)
(* them for the as_of of a cycle, which the flow analysts and their        *)
(* supervisor (FlowEvidence) read.                                         *)
(*                                                                         *)
(* feed[k] is all that was recorded of a kind; a history is the end of it. *)
(* A window of duration d is the last (start, end] whose end is a multiple *)
(* of d and not after as_of (windows.py), so no window reaches as_of       *)
(* itself in general.  Windows are numbered by their duration, prices and  *)
(* quantities are small numbers.                                           *)
(***************************************************************************)
EXTENDS FlowEvidence, SequencesExt

CONSTANTS
    Windows,        \* their durations
    Bands,          \* label -> [top, bps]: a number of levels, or 0 and a distance
    BookStaleness,  \* DEFAULT_MAX_STALENESS of the order book
    SlowStaleness,  \* and of open interest and funding
    FlowCapacity,   \* kind -> capacity of its history
    SnapshotCapacity,
    FlowEvents,     \* kind -> what may be recorded, but for the time
    FeedGroups,     \* bound: the kinds that are alive in one run
    MaxEvents,      \* bound: events of a kind
    LastTick,       \* bound: the clock
    NoFlow          \* build_flow_result has not just returned

FlowKinds == {"trades", "liquidations", "books", "interest", "funding"}

\* The kinds of which two events never carry the same time.
SteadyKinds == {"books", "interest", "funding"}

\* What the feed offers, and the sizes of the histories and the windows.
ASSUME FlowAssumption ==
    /\ Windows \subseteq Nat \ {0}
    /\ FlowCapacity \in [FlowKinds -> Nat \ {0}]
    /\ FeedGroups \subseteq SUBSET FlowKinds
    /\ \A k \in {"trades", "liquidations"} : \A e \in FlowEvents[k] : "quantity" \in DOMAIN e /\ e.quantity \in Int

VARIABLES
    ticks,    \* the clock
    feed,     \* kind -> everything that was recorded
    alive,    \* the kinds the exchange sends in this run
    wanted,   \* as_of of the cycle that waits for its turn
    paired,   \* history.snapshots: window -> returns and deltas
    flow      \* what build_flow_result has just returned

flowVars == <<ticks, feed, alive, wanted, paired, flow>>

----------------------------------------------------------------------------
\* history.py, windows.py, quality.py

History(k) == SubSeq(feed[k], Len(feed[k]) - Min({Len(feed[k]), FlowCapacity[k]}) + 1, Len(feed[k]))
HasEvicted(k) == Len(feed[k]) > FlowCapacity[k]

WindowEnd(asOf, d) == (asOf \div d) * d
WindowStart(asOf, d) == WindowEnd(asOf, d) - d

\* select_window: the places of its items.
SelectWindow(items, asOf, d) ==
    {i \in DOMAIN items : WindowStart(asOf, d) < items[i].at /\ items[i].at <= WindowEnd(asOf, d)}

\* latest_at_or_before: its place, the first of equals; 0 for None.
LatestAtOrBefore(items, cutoff) ==
    LET candidates == {i \in DOMAIN items : items[i].at <= cutoff}
    IN  IF candidates = {} THEN 0
        ELSE Min({i \in candidates : \A j \in candidates : items[j].at <= items[i].at})

\* Wrong: a window counts as truncated when nothing of it is left.
TruncatedWhole(items, evicted, asOf, d) ==
    evicted /\ items # <<>> /\ Min({items[i].at : i \in DOMAIN items}) > WindowEnd(asOf, d)

\* truncation_reason
Truncated(items, evicted, asOf, d) ==
    evicted /\ items # <<>> /\ Min({items[i].at : i \in DOMAIN items}) > WindowStart(asOf, d)

Freshness(items, i, asOf, limit) == IF asOf - items[i].at > limit THEN "STALE" ELSE "VALID"

SumAt(amounts, places) == MapThenSumSet(LAMBDA i : amounts[i], places)

----------------------------------------------------------------------------
\* The calculators.

\* The windows are compared by their rate, so it is scaled to whole numbers.
Longest == Max(Windows)

Signed(events) ==
    [i \in DOMAIN events |-> IF events[i].side = "BUY" THEN events[i].quantity ELSE -events[i].quantity]

TakerFlowFeatures(trades, evicted, asOf) ==
    [d \in Windows |->
        LET in == SelectWindow(trades, asOf, d)
            delta == SumAt(Signed(trades), in)
        IN  [quality |-> CASE in = {} -> "UNAVAILABLE"
                           [] Truncated(trades, evicted, asOf, d) -> "PARTIAL"
                           [] OTHER -> "VALID",
             delta |-> SignOf(delta, 0),
             rate |-> delta * (Longest \div d)]]

\* A sold liquidation is one of a long position.
LiquidationFeatures(liquidations, evicted, asOf) ==
    [d \in Windows |->
        LET in == SelectWindow(liquidations, asOf, d)
        IN  [quality |-> IF Truncated(liquidations, evicted, asOf, d) THEN "PARTIAL" ELSE "VALID",
             imbalance |-> SignOf(-SumAt(Signed(liquidations), in), 0),
             count |-> Cardinality(in)]]

\* Twice the mid price; 0 for None.
TwiceMid(book) == IF book.bids = <<>> \/ book.asks = <<>> THEN 0 ELSE book.bids[1].price + book.asks[1].price

Absolute(x) == IF x < 0 THEN -x ELSE x
Within(level, mid, bps) == Absolute(2 * level.price - mid) * 10000 <= mid * bps
Reaches(level, mid, bps) == Absolute(2 * level.price - mid) * 10000 >= mid * bps

NoDepth == [known |-> FALSE]

\* _side_band_depth
SideBandDepth(levels, band, mid) ==
    LET selected == {i \in DOMAIN levels : IF band.top > 0 THEN i <= band.top ELSE Within(levels[i], mid, band.bps)}
    IN  IF levels = <<>> \/ (band.top = 0 /\ mid = 0) THEN NoDepth
        ELSE [known |-> TRUE,
              depth |-> SumAt([i \in DOMAIN levels |-> levels[i].quantity], selected),
              covered |-> IF band.top > 0 THEN Len(levels) >= band.top ELSE Reaches(Last(levels), mid, band.bps)]

SideOf(book, side) == IF side = "bid" THEN book.bids ELSE book.asks
DepthOf(book, side, band) == SideBandDepth(SideOf(book, side), band, TwiceMid(book))

\* The change of the depth of a side over a window, when both ends are known
\* and not the same book.
DepthChanges(books, band, asOf) ==
    LET end(d) == LatestAtOrBefore(books, WindowEnd(asOf, d))
        begin(d) == LatestAtOrBefore(books, WindowStart(asOf, d))
        told == {c \in {"bid", "ask"} \X Windows :
                   /\ 0 < begin(c[2]) /\ begin(c[2]) # end(c[2])
                   /\ DepthOf(books[end(c[2])], c[1], band).known
                   /\ DepthOf(books[begin(c[2])], c[1], band).known}
    IN  [c \in told |-> SignOf(DepthOf(books[end(c[2])], c[1], band).depth,
                               DepthOf(books[begin(c[2])], c[1], band).depth)]

BandFeatures(books, i, band, asOf, freshness) ==
    LET bid == DepthOf(books[i], "bid", band)
        ask == DepthOf(books[i], "ask", band)
        known == bid.known /\ ask.known
    IN  [quality |-> IF ~known THEN "UNAVAILABLE"
                     ELSE WorstOf({freshness, IF bid.covered /\ ask.covered THEN "VALID" ELSE "PARTIAL"}),
         imbalance |-> IF known THEN (IF bid.depth + ask.depth > 0 THEN SignOf(bid.depth, ask.depth) ELSE "NONE")
                       ELSE "NONE",
         changes |-> DepthChanges(books, band, asOf)]

OrderBookFeatures(books, asOf) ==
    LET i == LatestAtOrBefore(books, asOf)
        freshness == Freshness(books, i, asOf, BookStaleness)
    IN  IF i = 0 THEN [quality |-> "UNAVAILABLE", bands |-> <<>>]
        ELSE [quality |-> freshness,
              bands |-> [b \in DOMAIN Bands |-> BandFeatures(books, i, Bands[b], asOf, freshness)]]

\* A window without an observation at both ends has no change; percent_change
\* is None when it began at nothing, and scaled to whole numbers.
OpenInterestFeatures(interest, asOf) ==
    LET i == LatestAtOrBefore(interest, asOf)
        quality == Freshness(interest, i, asOf, SlowStaleness)
        window(d) ==
            LET end == LatestAtOrBefore(interest, WindowEnd(asOf, d))
                begin == LatestAtOrBefore(interest, WindowStart(asOf, d))
                change == interest[end].value - interest[begin].value
            IN  IF begin = 0 THEN [quality |-> "UNAVAILABLE", known |-> FALSE, change |-> 0, velocity |-> "NONE"]
                ELSE [quality |-> quality,
                      known |-> interest[begin].value > 0,
                      change |-> IF interest[begin].value > 0 THEN (2 * change) \div interest[begin].value ELSE 0,
                      velocity |-> SignOf(change, 0)]
    IN  IF i = 0 THEN [quality |-> "UNAVAILABLE", windows |-> <<>>]
        ELSE [quality |-> quality, windows |-> [d \in Windows |-> window(d)]]

FundingFeatures(funding, asOf) ==
    LET i == LatestAtOrBefore(funding, asOf)
        quality == Freshness(funding, i, asOf, SlowStaleness)
        window(d) ==
            LET samples == Cardinality(SelectWindow(funding, asOf, d))
                end == LatestAtOrBefore(funding, WindowEnd(asOf, d))
                begin == LatestAtOrBefore(funding, WindowStart(asOf, d))
            IN  [quality |-> CASE samples = 0 /\ end = 0 -> "UNAVAILABLE"
                               [] samples < 2 -> WorstOf({"PARTIAL", quality})
                               [] OTHER -> quality,
                 trend |-> IF begin = 0 THEN "NONE" ELSE SignOf(funding[end].rate, funding[begin].rate)]
    IN  IF i = 0 THEN [quality |-> "UNAVAILABLE", windows |-> <<>>]
        ELSE [quality |-> quality,
              rate |-> SignOf(funding[i].rate, 0),
              basis |-> SignOf(funding[i].mark, funding[i].index),
              windows |-> [d \in Windows |-> window(d)]]

\* Trades are recorded in the order of their times, so the first and the last
\* of a window are those of its places; a truncated window is not told here.
PriceContextFeatures(trades, asOf) ==
    [d \in Windows |->
        LET in == SelectWindow(trades, asOf, d)
            first == trades[Min(in)].price
            last == trades[Max(in)].price
        IN  IF Cardinality(in) < 2
            THEN [quality |-> IF in = {} THEN "UNAVAILABLE" ELSE "PARTIAL", return |-> "NONE", move |-> 0]
            ELSE [quality |-> "VALID", return |-> SignOf(last, first), move |-> (2 * (last - first)) \div first]]

\* What a snapshot adds to the two series of the cross feature.
PairsOf(taker, price) ==
    [d \in Windows |-> [known |-> price[d].return # "NONE", move |-> price[d].move, rate |-> taker[d].rate]]

\* compute_cross_feature_observation, over the snapshots before and this one.
CrossFeatures(snapshots) ==
    [d \in Windows |->
        LET places == {i \in DOMAIN snapshots : snapshots[i][d].known}
            sum(f(_)) == MapThenSumSet(LAMBDA i : f(snapshots[i][d]), places)
            n == Cardinality(places)
            covariance(f(_), g(_)) == n * sum(LAMBDA p : f(p) * g(p)) - sum(f) * sum(g)
            move(p) == p.move
            rate(p) == p.rate
        IN  IF n < 3 \/ covariance(move, move) = 0 \/ covariance(rate, rate) = 0
            THEN [quality |-> "UNAVAILABLE", correlation |-> "NONE"]
            ELSE [quality |-> "VALID", correlation |-> SignOf(covariance(move, rate), 0)]]

----------------------------------------------------------------------------
\* FlowFeatureEngine.build_snapshot

FlowSnapshot(asOf) ==
    LET taker == TakerFlowFeatures(History("trades"), HasEvicted("trades"), asOf)
        price == PriceContextFeatures(History("trades"), asOf)
    IN  [taker |-> taker,
         liquidation |-> LiquidationFeatures(History("liquidations"), HasEvicted("liquidations"), asOf),
         book |-> OrderBookFeatures(History("books"), asOf),
         interest |-> OpenInterestFeatures(History("interest"), asOf),
         funding |-> FundingFeatures(History("funding"), asOf),
         price |-> price,
         cross |-> CrossFeatures(Append(paired, PairsOf(taker, price)))]

\* An event with the time it happened at.
Dated(e, t) == [f \in DOMAIN e \cup {"at"} |-> IF f = "at" THEN t ELSE e[f]]

\* A forwarder or the poller records an event: now, or what happened a tick ago.
RecordEvent(k) ==
    /\ k \in alive
    /\ Len(feed[k]) < MaxEvents
    /\ \E e \in FlowEvents[k], at \in {ticks - 1, ticks} :
         /\ feed[k] # <<>> => Last(feed[k]).at <= at
         /\ feed[k] # <<>> /\ k \in SteadyKinds => Last(feed[k]).at # at
         /\ feed' = [feed EXCEPT ![k] = Append(@, Dated(e, at))]
    /\ flow' = NoFlow
    /\ UNCHANGED <<ticks, alive, wanted, paired>>

\* as_of is taken when the request comes, before the cycle has its turn.
WantFlow ==
    /\ wanted = NoFlow
    /\ wanted' = ticks
    /\ flow' = NoFlow
    /\ UNCHANGED <<ticks, feed, alive, paired>>

\* build_flow_result; "RAISED" when a result refuses itself.
BuildFlow ==
    /\ wanted # NoFlow
    /\ LET snapshot == FlowSnapshot(wanted)
           result == AggregateFlow(AnalyzeFlow(snapshot))
           pairs == Append(paired, PairsOf(snapshot.taker, snapshot.price))
       IN  /\ flow' = [asOf |-> wanted, snapshot |-> snapshot,
                       outcome |-> IF FlowAggregateIsValid(result) THEN result.outcome ELSE "RAISED"]
           /\ paired' = SubSeq(pairs, Max({1, Len(pairs) - SnapshotCapacity + 1}), Len(pairs))
    /\ wanted' = NoFlow
    /\ UNCHANGED <<ticks, feed, alive>>

TickPasses ==
    /\ ticks < LastTick
    /\ ticks' = ticks + 1
    /\ flow' = NoFlow
    /\ UNCHANGED <<feed, alive, wanted, paired>>

FlowInit ==
    /\ ticks = 1
    /\ feed = [k \in FlowKinds |-> <<>>]
    /\ alive \in FeedGroups
    /\ wanted = NoFlow
    /\ paired = <<>>
    /\ flow = NoFlow

FlowNext == (\E k \in alive : RecordEvent(k)) \/ WantFlow \/ BuildFlow \/ TickPasses

FlowSpec == FlowInit /\ [][FlowNext]_flowVars

----------------------------------------------------------------------------
\* Properties.

\* What had been recorded and had happened by as_of, however much of it the
\* histories have dropped since: events come in the order of their times.
Known(k) == SubSeq(feed[k], 1, Max({0} \cup {i \in DOMAIN feed[k] : feed[k][i].at <= flow.asOf}))

(***************************************************************************)
(* A flow result tells the truth about the whole of what happened by       *)
(* as_of, or says that it does not: a window of trades or liquidations     *)
(* that is VALID misses nothing the bounded history has dropped            *)
(* (quality.py:51-72), a change over a window is between the two           *)
(* observations it should be between (windows.py:124-138), the latest      *)
(* observation is the latest and as fresh as it says, and nothing that     *)
(* came between as_of and the turn of the cycle shows (engine.py:92-207).  *)
(* A price window has no truncation of its own, but the taker window of    *)
(* the same duration then is not VALID.                                    *)
(***************************************************************************)
FlowIsTrue ==
    flow # NoFlow =>
        LET told == flow.snapshot
            taker == TakerFlowFeatures(Known("trades"), FALSE, flow.asOf)
            price == PriceContextFeatures(Known("trades"), flow.asOf)
            liquidation == LiquidationFeatures(Known("liquidations"), FALSE, flow.asOf)
            book == OrderBookFeatures(Known("books"), flow.asOf)
            interest == OpenInterestFeatures(Known("interest"), flow.asOf)
            funding == FundingFeatures(Known("funding"), flow.asOf)
        IN  /\ flow.outcome # "RAISED"
            /\ \A d \in Windows :
                 /\ told.taker[d].quality = "VALID" => told.taker[d] = taker[d] /\ told.price[d] = price[d]
                 /\ told.liquidation[d].quality = "VALID" => told.liquidation[d] = liquidation[d]
            /\ told.book.quality # "UNAVAILABLE" =>
                 /\ told.book.quality = book.quality
                 /\ \A b \in DOMAIN Bands :
                      /\ told.book.bands[b].quality = book.bands[b].quality
                      /\ told.book.bands[b].imbalance = book.bands[b].imbalance
                      /\ \A c \in DOMAIN told.book.bands[b].changes :
                           /\ c \in DOMAIN book.bands[b].changes
                           /\ told.book.bands[b].changes[c] = book.bands[b].changes[c]
            /\ told.interest.quality # "UNAVAILABLE" =>
                 /\ told.interest.quality = interest.quality
                 /\ \A d \in Windows :
                      Qualifies(told.interest.windows[d].quality) => told.interest.windows[d] = interest.windows[d]
            /\ told.funding.quality # "UNAVAILABLE" =>
                 /\ told.funding.quality = funding.quality
                 /\ told.funding.rate = funding.rate /\ told.funding.basis = funding.basis
                 /\ \A d \in Windows :
                      told.funding.windows[d].trend # "NONE" =>
                          told.funding.windows[d].trend = funding.windows[d].trend

==============================================================================
