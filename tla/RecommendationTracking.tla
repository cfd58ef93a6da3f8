----------------------- MODULE RecommendationTracking -----------------------
(***************************************************************************)
(* The tracking side of run_runtime_cycle (app/orchestration/              *)
(* runtime_cycle.py): advisory cycles, one at a time, poll the broker's    *)
(* deal history, advance every tracked recommendation in lexicographic     *)
(* trade_id order, then read the open positions, apply the netting guard   *)
(* and issue new recommendations.  A trade_id is a number, its order the   *)
(* lexicographic one.  The trader and the broker act at any moment between *)
(* the steps of a cycle; a document's read or write may fail, and the      *)
(* process may stop between any two steps.                                 *)
(***************************************************************************)
EXTENDS TrackingRules

CONSTANTS
    Trades,      \* trade_ids the cycles derive
    Positions,   \* broker position ids, opened in increasing order
    GuardMode,   \* margin_mode read by account_facts()
    BrokerNets,  \* whether the broker keeps one position per symbol
    NoDoc,       \* no document on disk for a trade_id
    DayLength,   \* length of a broker trading day
    RecSides,    \* directions the decision pipeline may choose
    MaxRecs,     \* bound: actionable families in one cycle
    MaxTime,     \* bound: the market is closed from MaxTime on
    MaxDeals,    \* bound: deals the broker books
    Lots,        \* bound: volumes of one deal
    Profits,     \* bound: profits of one closing deal
    Reversals,   \* whether the broker books INOUT deals
    CloseBys,    \* whether the broker books OUT_BY deals
    HistoryFaults, ReadFaults, WriteFaults, CycleCrashes

ASSUME TradesAssumption == Trades \subseteq Nat /\ IsFiniteSet(Trades)
ASSUME PositionsAssumption == Positions \subseteq Nat /\ NoPosition \notin Positions
ASSUME ModeAssumption == GuardMode \in {"HEDGING", "NETTING", "UNKNOWN"}
ASSUME TimeAssumption == MaxTime \in Nat /\ DayLength \in Nat \ {0}
ASSUME BrokerAssumption == Lots \subseteq Nat /\ Profits \subseteq Int /\ MaxDeals \in Nat
ASSUME RecsAssumption == RecSides \subseteq Sides /\ MaxRecs \in Nat
ASSUME FlagsAssumption ==
    {BrokerNets, Reversals, CloseBys, HistoryFaults, ReadFaults, WriteFaults, CycleCrashes} \subseteq BOOLEAN

VARIABLES
    now,        \* the clock, in ticks
    deals,      \* the broker's deal history
    docs,       \* the tracking directory: trade_id -> document
    cyc         \* the running cycle

trackingVars == <<now, deals, docs, cyc>>

----------------------------------------------------------------------------
(* Types.                                                                  *)

Times == 0 .. MaxTime

Deals == [pos : Positions, side : Sides, entry : {"IN", "OUT", "INOUT", "OUT_BY"},
          vol : Lots, profit : Profits \cup {0}, time : Times]

Docs == [status : Statuses, side : Sides, signal : Times,
         pre : SUBSET Positions, matched : Positions \cup {NoPosition}]

ASSUME NoDocAssumption == NoDoc \notin Docs

Cycles == [phase : {"idle", "begun", "advancing"}, asOf : Times, start : Times,
           ok : BOOLEAN, todo : SUBSET Trades, claimed : SUBSET Positions,
           unresolved : SUBSET Trades]

NoCycle == [phase |-> "idle", asOf |-> 0, start |-> 0, ok |-> FALSE,
            todo |-> {}, claimed |-> {}, unresolved |-> {}]

Tracked == {t \in Trades : docs[t] # NoDoc}

Owner(t) == docs[t].matched

\* Wrong: None counts as a claim.
ClaimedByEven(S) == {Owner(t) : t \in S}

\* The positions claimed by the documents of S.
ClaimedBy(S) == {Owner(t) : t \in S} \ {NoPosition}

----------------------------------------------------------------------------
(* The broker (external).                                                  *)

Booked(p) == DealsOf(deals, DOMAIN deals, p)

\* Signed exposure of a position: what it really holds.
Exposure(p) ==
    Volume(deals, {i \in Booked(p) : deals[i].side = "BUY"})
        - Volume(deals, {i \in Booked(p) : deals[i].side = "SELL"})

OpenPositions == {p \in Positions : Exposure(p) # 0}

SideOf(p) == IF Exposure(p) > 0 THEN "BUY" ELSE "SELL"

Size(p) == IF Exposure(p) > 0 THEN Exposure(p) ELSE -Exposure(p)

Book(p, side, entry, vol, profit) ==
    /\ now < MaxTime
    /\ Len(deals) < MaxDeals
    /\ deals' = Append(deals, [pos |-> p, side |-> side, entry |-> entry,
                               vol |-> vol, profit |-> profit, time |-> now])
    /\ UNCHANGED <<now, docs, cyc>>

\* A new position: its id is never one the broker used before.
OpenPosition(p, side, vol) ==
    /\ Booked(p) = {}
    /\ \A q \in Positions : q < p => Booked(q) # {}
    /\ BrokerNets => OpenPositions = {}
    /\ Book(p, side, "IN", vol, 0)

\* A further fill of the same direction.
AddToPosition(p, vol) ==
    /\ p \in OpenPositions
    /\ Book(p, SideOf(p), "IN", vol, 0)

\* A partial or full close.
ReducePosition(p, vol, profit) ==
    /\ p \in OpenPositions
    /\ vol <= Size(p)
    /\ Book(p, Opposite(SideOf(p)), "OUT", vol, profit)

\* On a netting account a larger opposite order turns the position over.
ReversePosition(p, vol, profit) ==
    /\ Reversals /\ BrokerNets
    /\ p \in OpenPositions
    /\ vol > Size(p)
    /\ Book(p, Opposite(SideOf(p)), "INOUT", vol, profit)

\* On a hedging account a position is closed by an opposite one.
CloseByPosition(p, profit) ==
    /\ CloseBys /\ ~BrokerNets
    /\ p \in OpenPositions
    /\ Size(p) \in Lots
    /\ Book(p, Opposite(SideOf(p)), "OUT_BY", Size(p), profit)

Tick ==
    /\ now < MaxTime
    /\ now' = now + 1
    /\ UNCHANGED <<deals, docs, cyc>>

----------------------------------------------------------------------------
(* The cycle.                                                              *)

DayStart(time) == time - (time % DayLength)

\* as_of is captured by create_advisory; every read happens later.  No deal
\* carries the very instant of as_of.
BeginCycle ==
    /\ cyc.phase = "idle"
    /\ \A i \in DOMAIN deals : deals[i].time < now
    /\ cyc' = [NoCycle EXCEPT !.phase = "begun", !.asOf = now]
    /\ now' = IF now < MaxTime THEN now + 1 ELSE now
    /\ UNCHANGED <<deals, docs>>

\* Wrong: only the trading day is read.
HistoryStartOfDay(s, loaded) == s = DayStart(cyc.asOf)

\* _compute_history_start: s is the start of the smallest window covering the
\* trading day and the signal time of every loaded document.
HistoryStart(s, loaded) ==
    /\ s \in {DayStart(cyc.asOf)} \cup {docs[t].signal : t \in loaded}
    /\ s <= DayStart(cyc.asOf)
    /\ \A t \in loaded : s <= docs[t].signal

\* Every listed document is read once; the unreadable ones are excluded.
\* Then the deal history is read once.
LoadAndReadHistory(ok, excluded) ==
    LET loaded == Tracked \ excluded
    IN  /\ cyc.phase = "begun"
        /\ excluded \subseteq Tracked
        /\ excluded # {} => ReadFaults
        /\ ~ok => HistoryFaults
        /\ \E s \in Times :
               /\ HistoryStart(s, loaded)
               /\ cyc' = [cyc EXCEPT !.phase = "advancing", !.ok = ok, !.start = s,
                                     !.todo = loaded, !.claimed = ClaimedBy(loaded)]
        /\ UNCHANGED <<now, deals, docs>>

\* What the one history read of this cycle returned; a failed read is empty.
HistoryRead ==
    {i \in DOMAIN deals : cyc.ok /\ cyc.start <= deals[i].time /\ deals[i].time <= cyc.asOf}

\* Wrong: a failed read counts as a confirmed empty history.
AdvancedOnAnyRead(t) ==
    AdvanceTracked(deals, HistoryRead, TRUE, cyc.asOf, docs[t], cyc.claimed \ {docs[t].matched})

\* Wrong: the claims of the other documents are ignored.
AdvancedUnclaimed(t) == AdvanceTracked(deals, HistoryRead, cyc.ok, cyc.asOf, docs[t], {})

Advanced(t) ==
    AdvanceTracked(deals, HistoryRead, cyc.ok, cyc.asOf, docs[t], cyc.claimed \ {docs[t].matched})

\* Wrong: the document is rewritten in place, a failed write destroys it.
AdvanceTradeInPlace(t, written) ==
    LET updated == Advanced(t)
    IN  /\ cyc.phase = "advancing"
        /\ t \in cyc.todo
        /\ \A u \in cyc.todo : t <= u
        /\ ~written => WriteFaults
        /\ docs' = [docs EXCEPT ![t] = IF written THEN updated ELSE NoDoc]
        /\ cyc' = [cyc EXCEPT !.todo = @ \ {t},
                              !.claimed = @ \cup ({updated.matched} \ {NoPosition}),
                              !.unresolved = @ \cup {u \in {t} : updated.status \in LockHoldingStatuses}]
        /\ UNCHANGED <<now, deals>>

\* One document of _advance_all_existing_tracking, in trade_id order, and
\* the write of its outcome: a failed write leaves the old document, and the
\* claim and the status it reached stay in the cycle's memory.
AdvanceTrade(t, written) ==
    LET updated == Advanced(t)
    IN  /\ cyc.phase = "advancing"
        /\ t \in cyc.todo
        /\ \A u \in cyc.todo : t <= u
        /\ ~written => WriteFaults
        /\ docs' = IF written THEN [docs EXCEPT ![t] = updated] ELSE docs
        /\ cyc' = [cyc EXCEPT !.todo = @ \ {t},
                              !.claimed = @ \cup ({updated.matched} \ {NoPosition}),
                              !.unresolved = @ \cup {u \in {t} : updated.status \in LockHoldingStatuses}]
        /\ UNCHANGED <<now, deals>>

\* Recommendations need a READY fact assembly: both reads OK and no deal of
\* the trading day that the realized PnL cannot classify.
CanRecommend(positionsOk) ==
    /\ cyc.ok /\ positionsOk
    /\ \A i \in HistoryRead : deals[i].time >= DayStart(cyc.asOf) => deals[i].entry # "OUT_BY"

\* Wrong: only the broker's positions are consulted.
IssuanceAllowedWhenFlat(actionable) ==
    IF GuardMode = "HEDGING"
    THEN actionable # {}
    ELSE OpenPositions = {} /\ Cardinality(actionable) = 1

\* _evaluate_netting_guard, applied to every account that is not HEDGING.
IssuanceAllowed(actionable) ==
    IF GuardMode = "HEDGING"
    THEN actionable # {}
    ELSE /\ OpenPositions = {}
         /\ cyc.unresolved = {}
         /\ Cardinality(actionable) = 1

NewDoc(side) ==
    [status |-> "PENDING", side |-> side, signal |-> cyc.asOf,
     pre |-> OpenPositions, matched |-> NoPosition]

\* The positions are read, the pipeline finds the actionable families, the
\* guard decides and each new document is written; written are the ones
\* whose write succeeded before a fault.
FinishCycle(positionsOk, actionable, side, written) ==
    /\ cyc.phase = "advancing"
    /\ cyc.todo = {}
    /\ ~positionsOk => HistoryFaults
    /\ actionable # {} => CanRecommend(positionsOk) /\ cyc.asOf + ExecutionWindow <= MaxTime
    /\ written \subseteq actionable
    /\ written # actionable => WriteFaults \/ CycleCrashes
    /\ IF IssuanceAllowed(actionable)
       THEN docs' = [t \in Trades |-> IF t \in written THEN NewDoc(side) ELSE docs[t]]
       ELSE UNCHANGED docs
    /\ cyc' = NoCycle
    /\ UNCHANGED <<now, deals>>

\* MT5 is not AVAILABLE, or an exception or a crash ends the cycle.
AbandonCycle ==
    /\ CycleCrashes
    /\ cyc.phase # "idle"
    /\ cyc' = NoCycle
    /\ UNCHANGED <<now, deals, docs>>

----------------------------------------------------------------------------

TrackingInit ==
    /\ now = 0
    /\ deals = <<>>
    /\ docs = [t \in Trades |-> NoDoc]
    /\ cyc = NoCycle

FreshTrades == {A \in SUBSET (Trades \ Tracked) : Cardinality(A) <= MaxRecs}

Broker ==
    \/ \E p \in Positions, side \in Sides, vol \in Lots : OpenPosition(p, side, vol)
    \/ \E p \in Positions, vol \in Lots : AddToPosition(p, vol)
    \/ \E p \in Positions, vol \in Lots, profit \in Profits : ReducePosition(p, vol, profit)
    \/ \E p \in Positions, vol \in Lots, profit \in Profits : ReversePosition(p, vol, profit)
    \/ \E p \in Positions, profit \in Profits : CloseByPosition(p, profit)

Cycle ==
    \/ BeginCycle
    \/ \E ok \in BOOLEAN, excluded \in SUBSET Tracked : LoadAndReadHistory(ok, excluded)
    \/ \E t \in Trades, written \in BOOLEAN : AdvanceTrade(t, written)
    \/ \E positionsOk \in BOOLEAN, actionable \in FreshTrades, side \in RecSides :
           \E written \in SUBSET actionable : FinishCycle(positionsOk, actionable, side, written)
    \/ AbandonCycle

TrackingNext == Broker \/ Tick \/ Cycle

TrackingSpec == TrackingInit /\ [][TrackingNext]_trackingVars

\* A step in which the terminal, the disk or the process fails before the
\* cycle has done its work.
Fault ==
    \/ AbandonCycle /\ (cyc.phase = "begun" \/ cyc.todo # {})
    \/ \E ok \in BOOLEAN, excluded \in SUBSET Tracked :
           (~ok \/ excluded # {}) /\ LoadAndReadHistory(ok, excluded)
    \/ \E t \in Trades : AdvanceTrade(t, FALSE) /\ docs[t] # Advanced(t)

\* Cycles keep being requested and run to their end; faults recur any number
\* of times, but not for ever.
TrackingFairness ==
    /\ WF_trackingVars(Tick)
    /\ WF_trackingVars(BeginCycle)
    /\ WF_trackingVars(\E ok \in BOOLEAN, excluded \in SUBSET Tracked : LoadAndReadHistory(ok, excluded))
    /\ WF_trackingVars(\E t \in Trades, written \in BOOLEAN : AdvanceTrade(t, written))
    /\ WF_trackingVars(\E ok \in BOOLEAN : FinishCycle(ok, {}, "BUY", {}))
    /\ <>[][~Fault]_trackingVars

FairTracking == TrackingSpec /\ TrackingFairness

----------------------------------------------------------------------------
(* Properties.                                                             *)

\* Every variable has its type.
TrackingTypeOK ==
    /\ now \in Times
    /\ deals \in Seq(Deals)
    /\ docs \in [Trades -> Docs \cup {NoDoc}]
    /\ cyc \in Cycles

\* No two documents on disk own the same broker position: the claims of one
\* pass, of failed writes and of earlier cycles all keep others away.
NoSharedPosition ==
    \A t, u \in Tracked : t # u /\ Owner(t) # NoPosition => Owner(t) # Owner(u)

\* Match immutability: a document on disk, once it owns a position, owns that
\* position for ever, whatever faults, restarts and other documents do.
MatchIsPermanent ==
    [][\A t \in Trades : docs[t] # NoDoc /\ docs[t].matched # NoPosition =>
           docs'[t] # NoDoc /\ docs'[t].matched = docs[t].matched]_trackingVars

\* Every poll of a matched document sees its position's opening deals: the
\* history window always reaches back to them (the assert of
\* reconstruct_position_lifecycle cannot fail).
GenesisIsAlwaysRead ==
    cyc.phase = "advancing" /\ cyc.ok =>
        \A t \in cyc.todo : Owner(t) # NoPosition =>
            OpeningDeals(deals, HistoryRead, Owner(t)) # {}

\* A document the tracker closed tells the truth about the broker: its
\* position is flat and its status is the sign of what the broker booked.
ClosedMeansFlat ==
    \A t \in Tracked : docs[t].status \in ClosedStatuses =>
        /\ Exposure(Owner(t)) = 0
        /\ docs[t].status = TerminalStatus(Profit(deals, Booked(Owner(t))))

\* A closed document is never revised: no later deal, poll or fault reopens
\* it or changes its result.
ClosedIsFinal ==
    [][\A t \in Trades : docs[t] # NoDoc /\ docs[t].status \in ClosedStatuses =>
           docs'[t] # NoDoc /\ docs'[t].status = docs[t].status]_trackingVars

\* "NOT_FILLED is terminal by construction": it is never revised either.
NotFilledIsFinal ==
    [][\A t \in Trades : docs[t] # NoDoc /\ docs[t].status = "NOT_FILLED" =>
           docs'[t] # NoDoc /\ docs'[t].status = "NOT_FILLED"]_trackingVars

\* A document is NOT_FILLED only if every position first opened in its
\* direction inside its window was open before it was issued or belongs to
\* another document.
NotFilledIsTrue ==
    \A t \in Tracked : docs[t].status = "NOT_FILLED" =>
        \A p \in Positions \ docs[t].pre :
            FirstLifecycleConsistent(deals, DOMAIN deals, docs[t], p) =>
                \E u \in Tracked \ {t} : Owner(u) = p

\* The netting lock: at most one recommendation is unresolved at any time.
OneUnresolved ==
    \A t, u \in Tracked :
        docs[t].status \in LockHoldingStatuses /\ docs[u].status \in LockHoldingStatuses => t = u

\* Pre-existing exposure is never owned: no deal of an owned position is
\* older than the recommendation's signal.
OwnedPositionIsFresh ==
    \A t \in Tracked : Owner(t) # NoPosition =>
        \A i \in Booked(Owner(t)) : deals[i].time >= docs[t].signal

\* The broker's history offers t several positions, or one with another volume
\* than the approved: the matching rules keep such a document pending on purpose.
Contested(t) ==
    LET all == DOMAIN deals
        candidates == EligiblePositions(deals, all, docs[t], ClaimedBy(Tracked \ {t}))
    IN  \/ Cardinality(candidates) > 1
        \/ \E p \in candidates : Volume(deals, QualifyingFills(deals, all, docs[t], p)) # ApprovedVolume

\* Every pending recommendation is eventually resolved, one exact fill matched
\* and an empty window expired, unless what the broker did leaves it contested.
PendingIsResolved ==
    \A t \in Trades :
        docs[t] # NoDoc /\ docs[t].status = "PENDING" ~>
            docs[t] # NoDoc /\ (docs[t].status # "PENDING" \/ Contested(t))

\* Once the broker has closed an owned position, its document is eventually
\* closed with it.
ClosedPositionIsBooked ==
    \A t \in Trades :
        docs[t] # NoDoc /\ docs[t].matched # NoPosition /\ Exposure(docs[t].matched) = 0 ~>
            docs[t] # NoDoc /\ docs[t].status \in ClosedStatuses

=============================================================================
