--------------------- MODULE RecommendationTrackingProofs ---------------------
(***************************************************************************)
(* What RecommendationTracking guarantees for every broker history, every  *)
(* set of recommendations and positions, and whatever faults and crashes:  *)
(* the match of a document is for ever and its own, and what a status      *)
(* says of the broker: on an account that is not HEDGING at most one       *)
(* recommendation is unresolved, a NOT_FILLED document has no candidate of *)
(* its own, and a closed document tells what the broker booked and is      *)
(* never revised.                                                          *)
(***************************************************************************)
EXTENDS RecommendationTracking, FiniteSums, SequenceTheorems

-----------------------------------------------------------------------------
(* Lemmas about the rules.                                                  *)

\* What a poll may do to a document: its side, signal and pre-existing
\* positions stay, and a position it newly owns is among the eligible ones.
Polled(doc, updated, eligible) ==
    /\ updated \in Docs
    /\ updated.signal = doc.signal
    /\ updated.matched = doc.matched \/ (doc.matched = NoPosition /\ updated.matched \in eligible)

\* A change of status alone is a poll that keeps the match.
LEMMA StatusPolled ==
    ASSUME NEW doc \in Docs, NEW s \in Statuses, NEW eligible
    PROVE  Polled(doc, [doc EXCEPT !.status = s], eligible)
<1> DEFINE updated == [doc EXCEPT !.status = s]
<1>1. updated = [status |-> s, side |-> doc.side, signal |-> doc.signal,
                 pre |-> doc.pre, matched |-> doc.matched]
  BY DEF Docs
<1>2. updated \in Docs /\ updated.signal = doc.signal /\ updated.matched = doc.matched
  BY <1>1 DEF Docs
<1> QED
  BY <1>2 DEF Polled

\* A first match to an eligible position is a poll.
LEMMA MatchPolled ==
    ASSUME NEW doc \in Docs, doc.matched = NoPosition,
           NEW eligible \in SUBSET Positions, NEW p \in eligible
    PROVE  Polled(doc, [doc EXCEPT !.matched = p, !.status = "OPEN"], eligible)
<1> DEFINE owned == [doc EXCEPT !.matched = p]
           updated == [doc EXCEPT !.matched = p, !.status = "OPEN"]
<1>1. /\ owned = [status |-> doc.status, side |-> doc.side, signal |-> doc.signal,
                  pre |-> doc.pre, matched |-> p]
      /\ owned \in Docs
  BY DEF Docs
<1>2. updated = [owned EXCEPT !.status = "OPEN"]
  OBVIOUS
<1>3. updated \in Docs /\ updated.signal = doc.signal /\ updated.matched = p
  <2> HIDE DEF updated, owned
  <2>1. "OPEN" \in Statuses
    BY DEF Statuses
  <2>2. Polled(owned, updated, {})
    BY <1>1, <1>2, <2>1, StatusPolled
  <2> QED
    BY <1>1, <2>2 DEF Polled
<1> QED
  BY <1>3 DEF Polled

\* The matching step gives an unmatched document at most an eligible position.
LEMMA MatchStepPolled ==
    ASSUME NEW ds, NEW read, NEW ok, NEW covers, NEW doc \in Docs, doc.matched = NoPosition,
           NEW claimed, EligiblePositions(ds, read, doc, claimed) \subseteq Positions
    PROVE  Polled(doc, MatchStep(ds, read, ok, covers, doc, claimed),
                  EligiblePositions(ds, read, doc, claimed))
<1> DEFINE E == EligiblePositions(ds, read, doc, claimed)
           outcome == MatchOutcome(ds, read, ok, covers, doc, claimed)
           pick == CHOOSE p \in E : TRUE
<1>1. CASE outcome = "MATCHED"
  <2>1. Cardinality(E) = 1
    BY <1>1 DEF MatchOutcome
  <2>2. pick \in E
    BY <2>1, FS_EmptySet
  <2>3. MatchStep(ds, read, ok, covers, doc, claimed)
            = [doc EXCEPT !.matched = pick, !.status = "OPEN"]
    BY <1>1 DEF MatchStep
  <2>4. Polled(doc, [doc EXCEPT !.matched = pick, !.status = "OPEN"], E)
    <3> HIDE DEF pick, E
    <3> QED
      BY <2>2, MatchPolled DEF E
  <2> QED
    BY <2>3, <2>4
<1>2. CASE outcome = "EXPIRED_CONFIRMED_UNFILLED"
  <2>1. MatchStep(ds, read, ok, covers, doc, claimed) = [doc EXCEPT !.status = "NOT_FILLED"]
    BY <1>2 DEF MatchStep
  <2>2. "NOT_FILLED" \in Statuses
    BY DEF Statuses
  <2> QED
    BY <2>1, <2>2, StatusPolled
<1>3. CASE outcome \notin {"MATCHED", "EXPIRED_CONFIRMED_UNFILLED"}
  BY <1>3 DEF MatchStep, Polled
<1> QED
  BY <1>1, <1>2, <1>3

\* The lifecycle step changes nothing but the status.
LEMMA LifecycleStepPolled ==
    ASSUME NEW ds, NEW read, NEW ok, NEW doc \in Docs
    PROVE  Polled(doc, LifecycleStep(ds, read, ok, doc), {})
<1>1. LifecycleStatus(ds, read, doc.matched) \in Statuses
  BY DEF LifecycleStatus, TerminalStatus, Statuses
<1>2. Polled(doc, [doc EXCEPT !.status = LifecycleStatus(ds, read, doc.matched)], {})
  BY <1>1, StatusPolled
<1>3. Polled(doc, doc, {})
  BY DEF Polled
<1> QED
  BY <1>2, <1>3 DEF LifecycleStep

\* A match is permanent, and a new one is an eligible position: one that was
\* not open before the recommendation and that no other document claims.
LEMMA AdvanceTrackedPolled ==
    ASSUME NEW ds, NEW read, NEW ok, NEW covers, NEW doc \in Docs, NEW claimed,
           EligiblePositions(ds, read, doc, claimed) \subseteq Positions
    PROVE  Polled(doc, AdvanceTracked(ds, read, ok, covers, doc, claimed),
                  EligiblePositions(ds, read, doc, claimed))
<1> DEFINE E == EligiblePositions(ds, read, doc, claimed)
           matching == IF doc.matched = NoPosition
                       THEN MatchStep(ds, read, ok, covers, doc, claimed)
                       ELSE doc
<1>1. Polled(doc, matching, E)
  <2>1. CASE doc.matched = NoPosition
    BY <2>1, MatchStepPolled
  <2>2. CASE doc.matched # NoPosition
    BY <2>2 DEF Polled
  <2> QED
    BY <2>1, <2>2
<1>2. Polled(matching, LifecycleStep(ds, read, ok, matching), {})
  <2>1. matching \in Docs
    BY <1>1 DEF Polled
  <2> HIDE DEF matching
  <2> QED
    BY <2>1, LifecycleStepPolled
<1>3. AdvanceTracked(ds, read, ok, covers, doc, claimed) = LifecycleStep(ds, read, ok, matching)
  BY DEF AdvanceTracked
<1> QED
  BY <1>1, <1>2, <1>3 DEF Polled

-----------------------------------------------------------------------------
(* Type correctness.  A cycle only polls documents that exist.              *)

TypeInv == TrackingTypeOK /\ cyc.todo \subseteq Tracked

\* The broker only appends to its history.
LEMMA BrokerBooks ==
    ASSUME TypeInv, Broker
    PROVE  /\ \E d \in Deals : deals' = Append(deals, d)
           /\ UNCHANGED <<now, docs, cyc>>
<1>1. ASSUME NEW p \in Positions, NEW side \in Sides, NEW entry \in {"IN", "OUT", "INOUT", "OUT_BY"},
             NEW vol \in Lots, NEW profit \in Profits \cup {0}, Book(p, side, entry, vol, profit)
      PROVE  /\ \E d \in Deals : deals' = Append(deals, d)
             /\ UNCHANGED <<now, docs, cyc>>
  <2> DEFINE d == [pos |-> p, side |-> side, entry |-> entry,
                   vol |-> vol, profit |-> profit, time |-> now]
  <2>1. d \in Deals
    BY DEF Deals, TypeInv, TrackingTypeOK
  <2> QED
    BY <1>1, <2>1 DEF Book
<1>2. \A p \in Positions : SideOf(p) \in Sides /\ Opposite(SideOf(p)) \in Sides
  BY DEF SideOf, Opposite, Sides
<1>3. ASSUME NEW p \in Positions, NEW side \in Sides, NEW vol \in Lots, OpenPosition(p, side, vol)
      PROVE  Book(p, side, "IN", vol, 0)
  BY <1>3 DEF OpenPosition
<1>4. ASSUME NEW p \in Positions, NEW vol \in Lots, AddToPosition(p, vol)
      PROVE  Book(p, SideOf(p), "IN", vol, 0)
  BY <1>4 DEF AddToPosition
<1>5. ASSUME NEW p \in Positions, NEW vol \in Lots, NEW profit \in Profits,
             ReducePosition(p, vol, profit)
      PROVE  Book(p, Opposite(SideOf(p)), "OUT", vol, profit)
  BY <1>5 DEF ReducePosition
<1>6. ASSUME NEW p \in Positions, NEW vol \in Lots, NEW profit \in Profits,
             ReversePosition(p, vol, profit)
      PROVE  Book(p, Opposite(SideOf(p)), "INOUT", vol, profit)
  BY <1>6 DEF ReversePosition
<1>7. ASSUME NEW p \in Positions, NEW profit \in Profits, CloseByPosition(p, profit)
      PROVE  Size(p) \in Lots /\ Book(p, Opposite(SideOf(p)), "OUT_BY", Size(p), profit)
  BY <1>7 DEF CloseByPosition
<1> QED
  BY <1>1, <1>2, <1>3, <1>4, <1>5, <1>6, <1>7 DEF Broker

\* A deal the broker books leaves the earlier ones where they were.
LEMMA AppendedDeals ==
    ASSUME deals \in Seq(Deals), NEW d \in Deals, deals' = Append(deals, d)
    PROVE  /\ deals' \in Seq(Deals)
           /\ DOMAIN deals \subseteq DOMAIN deals'
           /\ \A i \in DOMAIN deals : deals'[i] = deals[i]
BY AppendProperties

\* Positions a read shows are positions; so a poll yields a document.
LEMMA AdvancedPolled ==
    ASSUME TypeInv, NEW t \in Tracked
    PROVE  /\ docs[t] \in Docs
           /\ EligiblePositions(deals, HistoryRead, docs[t], cyc.claimed \ {docs[t].matched})
                  \subseteq Positions
           /\ Polled(docs[t], Advanced(t),
                  EligiblePositions(deals, HistoryRead, docs[t], cyc.claimed \ {docs[t].matched}))
<1>1. docs[t] \in Docs
  BY DEF TypeInv, TrackingTypeOK, Tracked
<1>2. \A i \in HistoryRead : deals[i] \in Deals
  BY DEF HistoryRead, TypeInv, TrackingTypeOK
<1>3. \A claimed : EligiblePositions(deals, HistoryRead, docs[t], claimed) \subseteq Positions
  BY <1>2 DEF EligiblePositions, Deals
<1> QED
  BY <1>1, <1>3, AdvanceTrackedPolled DEF Advanced

\* A newly issued recommendation is a document without a position.
LEMMA NewDocType ==
    ASSUME TypeInv, NEW side \in Sides
    PROVE  /\ NewDoc(side) \in Docs
           /\ NewDoc(side).matched = NoPosition
BY DEF NewDoc, Docs, Statuses, OpenPositions, TypeInv, TrackingTypeOK, Cycles

\* The cycle that is not running is well typed.
LEMMA NoCycleType == NoCycle \in Cycles
BY TimeAssumption DEF NoCycle, Cycles, Times

\* The module starts well typed.
LEMMA TypeInit == TrackingInit => TypeInv
<1> SUFFICES ASSUME TrackingInit PROVE TypeInv
  OBVIOUS
<1>1. now \in Times /\ deals \in Seq(Deals) /\ docs \in [Trades -> Docs \cup {NoDoc}]
  BY TimeAssumption, EmptySeq DEF TrackingInit, Times
<1>2. cyc \in Cycles /\ cyc.todo = {}
  BY NoCycleType DEF TrackingInit, NoCycle
<1> QED
  BY <1>1, <1>2 DEF TypeInv, TrackingTypeOK

\* What a poll does to the directory and to the cycle's memory.
LEMMA AdvanceTradeType ==
    ASSUME TypeInv, NEW t \in Trades, NEW written \in BOOLEAN, AdvanceTrade(t, written)
    PROVE  TypeInv'
<1>1. t \in Tracked
  BY DEF AdvanceTrade, TypeInv
<1>2. Advanced(t) \in Docs
  BY <1>1, AdvancedPolled DEF Polled
<1>3. docs' \in [Trades -> Docs \cup {NoDoc}]
  BY <1>2 DEF AdvanceTrade, TypeInv, TrackingTypeOK
<1>4. Tracked' = Tracked
  BY <1>1, <1>2, NoDocAssumption DEF AdvanceTrade, Tracked, TypeInv, TrackingTypeOK
<1>5. Advanced(t).matched \in Positions \cup {NoPosition}
  BY <1>2 DEF Docs
<1>6. cyc' \in Cycles /\ cyc'.todo \subseteq cyc.todo
  <2> DEFINE m == Advanced(t).matched
             held == {u \in {t} : Advanced(t).status \in LockHoldingStatuses}
  <2>1. cyc' = [phase |-> cyc.phase, asOf |-> cyc.asOf, start |-> cyc.start, ok |-> cyc.ok,
                todo |-> cyc.todo \ {t}, claimed |-> cyc.claimed \cup ({m} \ {NoPosition}),
                unresolved |-> cyc.unresolved \cup held]
    BY DEF AdvanceTrade, TypeInv, TrackingTypeOK, Cycles
  <2>2. /\ cyc.todo \ {t} \in SUBSET Trades
        /\ cyc.claimed \cup ({m} \ {NoPosition}) \in SUBSET Positions
        /\ cyc.unresolved \cup held \in SUBSET Trades
    BY <1>5 DEF TypeInv, TrackingTypeOK, Cycles
  <2> HIDE DEF m, held
  <2> QED
    BY <2>1, <2>2 DEF TypeInv, TrackingTypeOK, Cycles
<1> QED
  BY <1>3, <1>4, <1>6 DEF AdvanceTrade, TypeInv, TrackingTypeOK

\* The end of a cycle, with the documents it issues.
LEMMA FinishCycleType ==
    ASSUME TypeInv, NEW positionsOk \in BOOLEAN, NEW actionable \in FreshTrades,
           NEW side \in RecSides, NEW written \in SUBSET actionable,
           FinishCycle(positionsOk, actionable, side, written)
    PROVE  /\ TypeInv'
           /\ written \cap Tracked = {}
           /\ docs' = docs \/ docs' = [t \in Trades |-> IF t \in written THEN NewDoc(side) ELSE docs[t]]
<1>1. NewDoc(side) \in Docs
  BY RecsAssumption, NewDocType
<1>2. docs' = docs \/ docs' = [t \in Trades |-> IF t \in written THEN NewDoc(side) ELSE docs[t]]
  BY DEF FinishCycle
<1>3. docs' \in [Trades -> Docs \cup {NoDoc}]
  BY <1>1, <1>2 DEF TypeInv, TrackingTypeOK
<1>4. cyc' \in Cycles /\ cyc'.todo = {}
  BY NoCycleType DEF FinishCycle, NoCycle
<1>5. written \cap Tracked = {}
  BY DEF FreshTrades
<1> QED
  BY <1>2, <1>3, <1>4, <1>5 DEF FinishCycle, TypeInv, TrackingTypeOK

\* Every step of the broker and of a cycle keeps the types.
LEMMA TypeNext == TypeInv /\ [TrackingNext]_trackingVars => TypeInv'
<1> SUFFICES ASSUME TypeInv, [TrackingNext]_trackingVars PROVE TypeInv'
  OBVIOUS
<1>1. CASE Broker
  <2>1. PICK d \in Deals : deals' = Append(deals, d) /\ UNCHANGED <<now, docs, cyc>>
    BY <1>1, BrokerBooks
  <2>2. deals' \in Seq(Deals)
    BY <2>1, AppendedDeals DEF TypeInv, TrackingTypeOK
  <2> QED
    BY <2>1, <2>2 DEF TypeInv, TrackingTypeOK, Tracked
<1>2. CASE Tick
  BY <1>2, TimeAssumption DEF Tick, TypeInv, TrackingTypeOK, Tracked, Times
<1>3. CASE BeginCycle
  <2>1. now' \in Times
    BY <1>3, TimeAssumption DEF BeginCycle, TypeInv, TrackingTypeOK, Times
  <2>2. cyc' \in Cycles /\ cyc'.todo = {}
    BY <1>3, NoCycleType DEF BeginCycle, NoCycle, Cycles, TypeInv, TrackingTypeOK
  <2> QED
    BY <1>3, <2>1, <2>2 DEF BeginCycle, TypeInv, TrackingTypeOK
<1>4. ASSUME NEW ok \in BOOLEAN, NEW excluded \in SUBSET Tracked,
             LoadAndReadHistory(ok, excluded)
      PROVE  TypeInv'
  <2> DEFINE loaded == Tracked \ excluded
  <2>1. PICK s \in Times :
            cyc' = [cyc EXCEPT !.phase = "advancing", !.ok = ok, !.start = s,
                               !.todo = loaded, !.claimed = ClaimedBy(loaded)]
    BY <1>4 DEF LoadAndReadHistory
  <2>2. loaded \in SUBSET Trades /\ ClaimedBy(loaded) \in SUBSET Positions
    BY DEF Tracked, ClaimedBy, Owner, TypeInv, TrackingTypeOK, Docs
  <2>3. cyc' = [phase |-> "advancing", asOf |-> cyc.asOf, start |-> s, ok |-> ok,
                todo |-> loaded, claimed |-> ClaimedBy(loaded), unresolved |-> cyc.unresolved]
    BY <2>1 DEF TypeInv, TrackingTypeOK, Cycles
  <2>4. cyc' \in Cycles
    BY <2>2, <2>3 DEF TypeInv, TrackingTypeOK, Cycles
  <2>5. cyc'.todo \subseteq Tracked
    BY <2>3
  <2> QED
    BY <1>4, <2>4, <2>5 DEF LoadAndReadHistory, TypeInv, TrackingTypeOK, Tracked
<1>5. CASE AbandonCycle
  BY <1>5, NoCycleType DEF AbandonCycle, NoCycle, TypeInv, TrackingTypeOK
<1>6. CASE UNCHANGED trackingVars
  BY <1>6 DEF trackingVars, TypeInv, TrackingTypeOK, Tracked
<1> QED
  BY <1>1, <1>2, <1>3, <1>4, <1>5, <1>6, AdvanceTradeType, FinishCycleType DEF TrackingNext, Cycle

\* Every reachable state is well typed; in particular a poll always yields a
\* document and a claim is always a broker position.
THEOREM TypeCorrect == TrackingSpec => []TrackingTypeOK
<1>1. TypeInv => TrackingTypeOK
  BY DEF TypeInv
<1> QED
  BY <1>1, TypeInit, TypeNext, PTL DEF TrackingSpec

-----------------------------------------------------------------------------
(* Match immutability.  Only a poll touches a document that owns a          *)
(* position, and a poll never lets it go.                                   *)

\* What any step does to a document on disk: it stays, and is at most polled.
LEMMA DocStep ==
    ASSUME TypeInv, [TrackingNext]_trackingVars, NEW t \in Tracked
    PROVE  /\ docs'[t] # NoDoc
           /\ docs'[t] = docs[t] \/ (\E written \in BOOLEAN : AdvanceTrade(t, written))
           /\ docs'[t].signal = docs[t].signal
           /\ docs[t].matched # NoPosition => docs'[t].matched = docs[t].matched
<1>0. t \in Trades /\ docs[t] # NoDoc
  BY DEF Tracked
<1>1. ASSUME NEW u \in Trades, NEW written \in BOOLEAN, AdvanceTrade(u, written)
      PROVE  /\ docs'[t] \in {docs[t], Advanced(t)}
             /\ u = t \/ docs'[t] = docs[t]
  BY <1>0, <1>1 DEF AdvanceTrade, TypeInv, TrackingTypeOK
<1>2. ASSUME ~ \E u \in Trades, written \in BOOLEAN : AdvanceTrade(u, written)
      PROVE  docs'[t] = docs[t]
  <2>1. CASE Broker
    BY <2>1, BrokerBooks
  <2>2. ASSUME NEW positionsOk \in BOOLEAN, NEW actionable \in FreshTrades, NEW side \in RecSides,
               NEW written \in SUBSET actionable,
               FinishCycle(positionsOk, actionable, side, written)
        PROVE  docs'[t] = docs[t]
    <3>1. /\ t \notin written
          /\ docs' = docs \/ docs' = [u \in Trades |-> IF u \in written THEN NewDoc(side) ELSE docs[u]]
      BY <2>2, FinishCycleType
    <3> QED
      BY <1>0, <3>1
  <2> QED
    BY <1>2, <2>1, <2>2 DEF TrackingNext, Tick, Cycle, BeginCycle, LoadAndReadHistory, AbandonCycle, trackingVars
<1>3. /\ Advanced(t) \in Docs
      /\ Advanced(t).signal = docs[t].signal
      /\ docs[t].matched # NoPosition => Advanced(t).matched = docs[t].matched
  BY AdvancedPolled DEF Polled
<1> QED
  BY <1>0, <1>1, <1>2, <1>3, NoDocAssumption

\* Once a document on disk owns a position it owns it for ever, whatever
\* history is read, whatever fails and wherever the process stops.
THEOREM MatchNeverChanges == TrackingSpec => MatchIsPermanent
<1>1. ASSUME TypeInv, [TrackingNext]_trackingVars, NEW t \in Trades,
             docs[t] # NoDoc, docs[t].matched # NoPosition
      PROVE  docs'[t] # NoDoc /\ docs'[t].matched = docs[t].matched
  BY <1>1, DocStep DEF Tracked
<1>2. TypeInv /\ [TrackingNext]_trackingVars =>
          [\A t \in Trades : docs[t] # NoDoc /\ docs[t].matched # NoPosition =>
              docs'[t] # NoDoc /\ docs'[t].matched = docs[t].matched]_trackingVars
  BY <1>1
<1> QED
  BY <1>2, TypeInit, TypeNext, PTL DEF TrackingSpec, MatchIsPermanent

-----------------------------------------------------------------------------
(* No two documents share a position.  While a cycle polls, every position  *)
(* owned on disk is in the cycle's claims: that needs every document to have *)
(* been read.                                                               *)

ClaimInv ==
    /\ NoSharedPosition
    /\ cyc.phase = "advancing" =>
           \A t \in Tracked : Owner(t) # NoPosition => Owner(t) \in cyc.claimed

\* No position has an owner at first.
LEMMA ClaimInit == TrackingInit => ClaimInv
BY DEF TrackingInit, ClaimInv, NoSharedPosition, Tracked, NoCycle

\* A poll never takes a position that another document owns or has claimed.
LEMMA ClaimNext ==
    ASSUME TypeInv, ClaimInv, ~ReadFaults, [TrackingNext]_trackingVars
    PROVE  ClaimInv'
<1>1. ASSUME NEW t \in Trades, NEW written \in BOOLEAN, AdvanceTrade(t, written)
      PROVE  ClaimInv'
  <2> DEFINE claimed == cyc.claimed \ {docs[t].matched}
             m == Advanced(t).matched
  <2>1. /\ t \in Tracked
        /\ cyc.phase = "advancing"
        /\ cyc'.claimed = cyc.claimed \cup ({m} \ {NoPosition})
        /\ docs' = IF written THEN [docs EXCEPT ![t] = Advanced(t)] ELSE docs
    BY <1>1 DEF AdvanceTrade, TypeInv, TrackingTypeOK, Cycles
  <2>2. m = docs[t].matched \/ (docs[t].matched = NoPosition /\ m \notin claimed)
    BY <2>1, AdvancedPolled DEF Polled, EligiblePositions
  <2>3. docs[t].matched = NoPosition => claimed = cyc.claimed
    BY PositionsAssumption DEF TypeInv, TrackingTypeOK, Cycles
  <2>4. Tracked' = Tracked
    BY <2>1, AdvancedPolled, NoDocAssumption DEF Polled, Tracked, TypeInv, TrackingTypeOK
  <2>5. \A u \in Tracked \ {t} : docs'[u] = docs[u]
    BY <2>1 DEF TypeInv, TrackingTypeOK, Tracked
  <2>6. docs'[t].matched \in {docs[t].matched, m}
    BY <2>1 DEF TypeInv, TrackingTypeOK, Tracked
  <2>7. \A u \in Tracked \ {t} :
            docs'[t].matched # NoPosition => docs'[t].matched # docs[u].matched
    <3> SUFFICES ASSUME NEW u \in Tracked \ {t},
                        docs'[t].matched # NoPosition,
                        docs'[t].matched = docs[u].matched
                 PROVE  FALSE
      OBVIOUS
    <3>1. docs[u].matched \in cyc.claimed
      BY <2>1 DEF ClaimInv, Owner
    <3>2. docs[t].matched # docs[u].matched
      BY <2>1 DEF ClaimInv, NoSharedPosition, Owner
    <3> QED
      BY <2>1, <2>2, <2>3, <2>6, <3>1, <3>2
  <2>8. \A u \in Tracked : docs'[u].matched # NoPosition => docs'[u].matched \in cyc'.claimed
    BY <2>1, <2>5, <2>6 DEF ClaimInv, Owner
  <2>9. \A u, v \in Tracked :
            u # v /\ docs'[u].matched # NoPosition => docs'[u].matched # docs'[v].matched
    BY <2>5, <2>7 DEF ClaimInv, NoSharedPosition, Owner
  <2> QED
    BY <2>4, <2>8, <2>9 DEF ClaimInv, NoSharedPosition, Owner
<1>2. ASSUME NEW positionsOk \in BOOLEAN, NEW actionable \in FreshTrades, NEW side \in RecSides,
             NEW written \in SUBSET actionable,
             FinishCycle(positionsOk, actionable, side, written)
      PROVE  ClaimInv'
  <2>1. cyc'.phase # "advancing"
    BY <1>2 DEF FinishCycle, NoCycle
  <2>2. \A u \in Tracked' : (u \in Tracked /\ docs'[u] = docs[u]) \/ docs'[u].matched = NoPosition
    <3>1. docs' = docs \/ docs' = [u \in Trades |-> IF u \in written THEN NewDoc(side) ELSE docs[u]]
      BY <1>2, FinishCycleType
    <3>2. NewDoc(side).matched = NoPosition
      BY DEF NewDoc
    <3> QED
      BY <3>1, <3>2 DEF Tracked
  <2> QED
    BY <2>1, <2>2 DEF ClaimInv, NoSharedPosition, Owner
<1>3. ASSUME NEW ok \in BOOLEAN, NEW excluded \in SUBSET Tracked,
             LoadAndReadHistory(ok, excluded)
      PROVE  ClaimInv'
  <2>1. excluded = {} /\ UNCHANGED docs
    BY <1>3 DEF LoadAndReadHistory
  <2>2. cyc'.claimed = ClaimedBy(Tracked)
    BY <1>3, <2>1 DEF LoadAndReadHistory, TypeInv, TrackingTypeOK, Cycles
  <2> QED
    BY <2>1, <2>2 DEF ClaimInv, NoSharedPosition, ClaimedBy, Tracked, Owner
<1>4. CASE Broker \/ Tick \/ UNCHANGED trackingVars
  BY <1>4, BrokerBooks DEF Tick, trackingVars, ClaimInv, NoSharedPosition, Tracked, Owner
<1>5. CASE BeginCycle \/ AbandonCycle
  <2>1. docs' = docs
    BY <1>5 DEF BeginCycle, AbandonCycle
  <2>2. cyc'.phase # "advancing"
    <3>1. BeginCycle => cyc'.phase = "begun"
      BY DEF BeginCycle, NoCycle
    <3>2. AbandonCycle => cyc'.phase = "idle"
      BY DEF AbandonCycle, NoCycle
    <3> QED
      BY <1>5, <3>1, <3>2
  <2> QED
    BY <2>1, <2>2 DEF ClaimInv, NoSharedPosition, Tracked, Owner
<1> QED
  BY <1>1, <1>2, <1>3, <1>4, <1>5 DEF TrackingNext, Cycle

\* Two recommendations never own the same broker position, over any number of
\* cycles, failed writes, failed history reads and restarts, as long as every
\* tracking document on disk can be read.
THEOREM PositionsAreNotShared ==
    ASSUME ~ReadFaults
    PROVE  TrackingSpec => []NoSharedPosition
<1>1. ClaimInv => NoSharedPosition
  BY DEF ClaimInv
<1>2. TypeInv /\ ClaimInv /\ [TrackingNext]_trackingVars => (TypeInv /\ ClaimInv)'
  BY TypeNext, ClaimNext
<1> QED
  BY <1>1, <1>2, TypeInit, ClaimInit, PTL DEF TrackingSpec

-----------------------------------------------------------------------------
(* The history window reaches back to the fills of every owned position.    *)
(* A match is made of a fill inside the window of its document; the window  *)
(* of a later cycle starts no later than that document's signal, and its    *)
(* as_of is later than every deal booked before it began.                   *)

FillOf(t, g) ==
    /\ g \in DOMAIN deals
    /\ deals[g].pos = Owner(t) /\ deals[g].entry = "IN"
    /\ docs[t].signal <= deals[g].time
    /\ cyc.phase # "idle" => deals[g].time <= cyc.asOf

GenesisInv ==
    /\ \A t \in Tracked : Owner(t) # NoPosition => \E g \in DOMAIN deals : FillOf(t, g)
    /\ cyc.phase = "advancing" => \A t \in cyc.todo : cyc.start <= docs[t].signal

\* No document owns a position at first.
LEMMA GenesisInit == TrackingInit => GenesisInv
BY DEF TrackingInit, GenesisInv, Tracked, NoCycle

\* A position matched now has a fill the history read of this cycle shows.
LEMMA MatchHasFill ==
    ASSUME TypeInv, NEW doc \in Docs, NEW claimed,
           NEW p \in EligiblePositions(deals, HistoryRead, doc, claimed)
    PROVE  \E g \in DOMAIN deals :
              /\ deals[g].pos = p /\ deals[g].entry = "IN"
              /\ doc.signal <= deals[g].time
              /\ deals[g].time <= cyc.asOf
BY DEF EligiblePositions, FirstLifecycleConsistent, QualifyingFills, OpeningDeals, DealsOf,
   HistoryRead

\* An owned position keeps an opening deal inside its owner's window, and the
\* window inside every read.
LEMMA GenesisNext ==
    ASSUME TypeInv, GenesisInv, [TrackingNext]_trackingVars
    PROVE  GenesisInv'
<1>1. ASSUME NEW t \in Trades, NEW written \in BOOLEAN, AdvanceTrade(t, written)
      PROVE  GenesisInv'
  <2>1. /\ t \in Tracked
        /\ cyc.phase = "advancing" /\ deals' = deals
        /\ cyc'.phase = cyc.phase /\ cyc'.asOf = cyc.asOf /\ cyc'.start = cyc.start
        /\ cyc'.todo \subseteq cyc.todo
        /\ docs' = IF written THEN [docs EXCEPT ![t] = Advanced(t)] ELSE docs
    BY <1>1 DEF AdvanceTrade, TypeInv, TrackingTypeOK, Cycles
  <2>2. Tracked' = Tracked
    BY <2>1, AdvancedPolled, NoDocAssumption DEF Polled, Tracked, TypeInv, TrackingTypeOK
  <2>3. \A u \in Tracked : docs'[u].signal = docs[u].signal
    BY DocStep
  <2>4. ASSUME NEW u \in Tracked, docs'[u].matched # NoPosition
        PROVE  \E g \in DOMAIN deals :
                  /\ deals[g].pos = docs'[u].matched /\ deals[g].entry = "IN"
                  /\ docs[u].signal <= deals[g].time
                  /\ deals[g].time <= cyc.asOf
    <3>1. CASE docs'[u].matched = docs[u].matched
      BY <2>1, <2>4, <3>1 DEF GenesisInv, FillOf, Owner
    <3>2. CASE docs'[u].matched # docs[u].matched
      <4>1. u = t /\ docs'[t] = Advanced(t)
        BY <2>1, <3>2 DEF TypeInv, TrackingTypeOK, Tracked
      <4>2. Advanced(t).matched \in
                EligiblePositions(deals, HistoryRead, docs[t], cyc.claimed \ {docs[t].matched})
        BY <3>2, <4>1, AdvancedPolled DEF Polled
      <4>3. docs[t] \in Docs
        BY <2>1, AdvancedPolled
      <4> QED
        BY <4>1, <4>2, <4>3, MatchHasFill
    <3> QED
      BY <3>1, <3>2
  <2>5. \A u \in Tracked' : Owner(u)' # NoPosition => \E g \in DOMAIN deals' : FillOf(u, g)'
    BY <2>1, <2>2, <2>3, <2>4 DEF FillOf, Owner
  <2>6. \A u \in cyc'.todo : cyc'.start <= docs'[u].signal
    BY <2>1, <2>3 DEF GenesisInv, TypeInv
  <2> QED
    BY <2>5, <2>6 DEF GenesisInv
<1>2. ASSUME NEW positionsOk \in BOOLEAN, NEW actionable \in FreshTrades, NEW side \in RecSides,
             NEW written \in SUBSET actionable,
             FinishCycle(positionsOk, actionable, side, written)
      PROVE  GenesisInv'
  <2>1. cyc'.phase = "idle" /\ deals' = deals
    BY <1>2 DEF FinishCycle, NoCycle
  <2>2. \A u \in Tracked' : (u \in Tracked /\ docs'[u] = docs[u]) \/ docs'[u].matched = NoPosition
    <3>1. docs' = docs \/ docs' = [u \in Trades |-> IF u \in written THEN NewDoc(side) ELSE docs[u]]
      BY <1>2, FinishCycleType
    <3>2. NewDoc(side).matched = NoPosition
      BY DEF NewDoc
    <3> QED
      BY <3>1, <3>2 DEF Tracked
  <2> QED
    BY <2>1, <2>2 DEF GenesisInv, FillOf, Owner
<1>3. ASSUME NEW ok \in BOOLEAN, NEW excluded \in SUBSET Tracked,
             LoadAndReadHistory(ok, excluded)
      PROVE  GenesisInv'
  <2>1. /\ UNCHANGED <<deals, docs>>
        /\ cyc.phase = "begun" /\ cyc'.asOf = cyc.asOf
    BY <1>3 DEF LoadAndReadHistory, TypeInv, TrackingTypeOK, Cycles
  <2>2. \A t \in cyc'.todo : cyc'.start <= docs[t].signal
    BY <1>3 DEF LoadAndReadHistory, HistoryStart, TypeInv, TrackingTypeOK, Cycles
  <2> QED
    BY <2>1, <2>2 DEF GenesisInv, FillOf, Tracked, Owner
<1>4. CASE Broker
  <2>1. PICK d \in Deals : deals' = Append(deals, d) /\ UNCHANGED <<now, docs, cyc>>
    BY <1>4, BrokerBooks
  <2>2. /\ DOMAIN deals \subseteq DOMAIN deals'
        /\ \A i \in DOMAIN deals : deals'[i] = deals[i]
    BY <2>1, AppendedDeals DEF TypeInv, TrackingTypeOK
  <2> QED
    BY <2>1, <2>2 DEF GenesisInv, FillOf, Tracked, Owner
<1>5. CASE BeginCycle
  <2>1. /\ UNCHANGED <<deals, docs>>
        /\ cyc'.phase = "begun" /\ cyc'.asOf = now
        /\ \A i \in DOMAIN deals : deals[i].time < now
    BY <1>5 DEF BeginCycle, NoCycle
  <2>2. \A i \in DOMAIN deals : deals[i].time <= now
    <3>1. \A i \in DOMAIN deals : deals[i] \in Deals
      BY DEF TypeInv, TrackingTypeOK
    <3> QED
      BY <2>1, <3>1 DEF Deals, Times, TypeInv, TrackingTypeOK
  <2> QED
    BY <2>1, <2>2 DEF GenesisInv, FillOf, Tracked, Owner
<1>6. CASE AbandonCycle
  <2>1. UNCHANGED <<deals, docs>> /\ cyc'.phase = "idle"
    BY <1>6 DEF AbandonCycle, NoCycle
  <2> QED
    BY <2>1 DEF GenesisInv, FillOf, Tracked, Owner
<1>7. CASE Tick \/ UNCHANGED trackingVars
  BY <1>7 DEF Tick, trackingVars, GenesisInv, FillOf, Tracked, Owner
<1> QED
  BY <1>1, <1>2, <1>3, <1>4, <1>5, <1>6, <1>7 DEF TrackingNext, Cycle

\* The poll of an owned position always sees an opening deal of it: the assert
\* of reconstruct_position_lifecycle holds in every cycle, whatever documents
\* were unreadable, reads failed or writes were lost before.
THEOREM GenesisAlwaysRead == TrackingSpec => []GenesisIsAlwaysRead
<1>1. ASSUME TypeInv, GenesisInv
      PROVE  GenesisIsAlwaysRead
  <2> SUFFICES ASSUME cyc.phase = "advancing", cyc.ok,
                      NEW t \in cyc.todo, Owner(t) # NoPosition
               PROVE  OpeningDeals(deals, HistoryRead, Owner(t)) # {}
    BY DEF GenesisIsAlwaysRead
  <2>1. PICK g \in DOMAIN deals : FillOf(t, g)
    BY <1>1 DEF GenesisInv, TypeInv
  <2>2. cyc.start <= deals[g].time
    <3>1. cyc.start <= docs[t].signal /\ docs[t].signal <= deals[g].time
      BY <1>1, <2>1 DEF GenesisInv, FillOf
    <3>2. docs[t] \in Docs /\ deals[g] \in Deals /\ cyc \in Cycles
      BY <1>1, <2>1 DEF TypeInv, TrackingTypeOK, Tracked
    <3>3. cyc.start \in Int /\ docs[t].signal \in Int /\ deals[g].time \in Int
      BY <3>2, TimeAssumption DEF Cycles, Docs, Deals, Times
    <3> QED
      BY <3>1, <3>3
  <2>3. g \in OpeningDeals(deals, HistoryRead, Owner(t))
    BY <2>1, <2>2 DEF FillOf, HistoryRead, OpeningDeals, DealsOf
  <2> QED
    BY <2>3
<1>2. TypeInv /\ GenesisInv /\ [TrackingNext]_trackingVars => (TypeInv /\ GenesisInv)'
  BY TypeNext, GenesisNext
<1> QED
  BY <1>1, <1>2, TypeInit, GenesisInit, PTL DEF TrackingSpec

-----------------------------------------------------------------------------
(* Volumes.                                                                 *)

\* g adds up the volumes of ds over the subsets of I.
VolumesUp(g, ds, I) ==
    g = [s \in SUBSET I |-> IF s = {} THEN 0 ELSE ds[Pick(s)].vol + g[s \ {Pick(s)}]]

\* A volume is the sum of the volumes of its deals.
LEMMA VolumeIsSum ==
    ASSUME NEW ds, NEW I, IsFiniteSet(I), NEW w, \A i \in I : w[i] = ds[i].vol
    PROVE  Volume(ds, I) = SumOf(w, I)
<1>1. PICK f : SumsUp(f, w, I)
  BY AddsExists
<1>2. \A s \in SUBSET I : s # {} => w[Pick(s)] = ds[Pick(s)].vol
  BY PickIsElement
<1>3. \A g : VolumesUp(g, ds, I) <=> SumsUp(g, w, I)
  BY <1>2 DEF VolumesUp, SumsUp
<1> DEFINE h == CHOOSE g : VolumesUp(g, ds, I)
<1>4. VolumesUp(h, ds, I)
  BY <1>1, <1>3
<1>5. Volume(ds, I) = h[I]
  BY DEF Volume, MapThenSumSet, MapThenFoldSet, Pick, VolumesUp
<1>6. Adds(h, w, I)
  <2> HIDE DEF h
  <2>1. SumsUp(h, w, I)
    BY <1>3, <1>4
  <2> QED
    BY <2>1 DEF SumsUp, Adds
<1>7. PICK k : Adds(k, w, I) /\ SumOf(w, I) = k[I]
  BY SumOfAdds
<1>8. h[I] = k[I]
  <2> HIDE DEF h
  <2> QED
    BY <1>6, <1>7, AddsUnique
<1> QED
  BY <1>5, <1>7, <1>8

\* What is known of a deal.
LEMMA DealType ==
    ASSUME NEW d \in Deals
    PROVE  /\ d.vol \in Nat /\ d.vol \in Int
           /\ d.time \in Times /\ d.time \in Int
           /\ d.pos \in Positions
<1>1. d.vol \in Lots /\ d.time \in Times /\ d.pos \in Positions
  BY DEF Deals
<1>2. Lots \subseteq Nat /\ Times \subseteq Int
  BY BrokerAssumption, TimeAssumption DEF Times
<1>3. d.vol \in Nat /\ d.time \in Int
  BY <1>1, <1>2
<1> QED
  BY <1>1, <1>3

\* No deals, no volume.
LEMMA VolumeEmpty == ASSUME NEW ds PROVE Volume(ds, {}) = 0
<1>1. Volume(ds, {}) = SumOf([i \in {} |-> 0], {})
  BY VolumeIsSum, FS_EmptySet
<1> QED
  BY <1>1, SumEmpty

\* Deals of a history, their volumes and the deal booked next.
LEMMA VolumeBooked ==
    ASSUME NEW ds \in Seq(Deals), NEW d \in Deals, NEW I \in SUBSET DOMAIN ds
    PROVE  /\ Volume(ds, I) \in Int
           /\ Volume(Append(ds, d), I) = Volume(ds, I)
           /\ Volume(Append(ds, d), I \cup {Len(ds) + 1}) = Volume(ds, I) + d.vol
<1> DEFINE es == Append(ds, d)
           n == Len(ds) + 1
           w == [i \in DOMAIN es |-> es[i].vol]
<1>1. /\ DOMAIN es = 1 .. n /\ DOMAIN ds = 1 .. Len(ds) /\ Len(ds) \in Nat
      /\ \A i \in DOMAIN ds : es[i] = ds[i]
      /\ es[n] = d
      /\ n \notin I /\ I \cup {n} \subseteq 1 .. n
  BY AppendProperties
<1>2. IsFiniteSet(I) /\ IsFiniteSet(I \cup {n})
  <2>1. IsFiniteSet(1 .. n)
    BY <1>1, FS_Interval
  <2>2. I \subseteq 1 .. n
    BY <1>1
  <2> HIDE DEF n
  <2> QED
    BY <1>1, <2>1, <2>2, FS_Subset
<1>3. \A i \in 1 .. n : es[i] \in Deals /\ es[i].vol \in Int
  <2>1. \A i \in 1 .. n : es[i] \in Deals
    BY <1>1
  <2> QED
    BY <2>1, DealType
<1> HIDE DEF es, n
<1>4. \A i \in 1 .. n : w[i] = es[i].vol /\ w[i] \in Int
  BY <1>1, <1>3
<1>5. \A i \in I : w[i] = ds[i].vol
  BY <1>1, <1>4
<1>6. w[n] = d.vol
  BY <1>1, <1>4
<1> HIDE DEF w
<1>7. Volume(ds, I) = SumOf(w, I)
  BY <1>2, <1>5, VolumeIsSum
<1>8. Volume(es, I) = SumOf(w, I)
  <2>1. \A i \in I : w[i] = es[i].vol
    BY <1>1, <1>4
  <2> QED
    BY <1>2, <2>1, VolumeIsSum
<1>9. Volume(es, I \cup {n}) = SumOf(w, I \cup {n})
  <2>1. \A i \in I \cup {n} : w[i] = es[i].vol
    BY <1>1, <1>4
  <2> QED
    BY <1>2, <2>1, VolumeIsSum
<1>10. SumOf(w, I \cup {n}) = SumOf(w, I) + w[n]
  <2>1. \A i \in I \cup {n} : w[i] \in Int
    BY <1>1, <1>4
  <2> QED
    BY <1>1, <1>2, <2>1, SumAdd
<1>11. SumOf(w, I) \in Int
  <2>1. \A i \in I : w[i] \in Int
    BY <1>1, <1>4
  <2> QED
    BY <1>2, <2>1, SumType
<1> QED
  BY <1>6, <1>7, <1>8, <1>9, <1>10, <1>11 DEF es, n

-----------------------------------------------------------------------------
(* The books.  What one more deal does to a position's exposure, and to the *)
(* net volume the tracker computes from the deals since s.                  *)

Buys(ds, p) == {i \in DealsOf(ds, DOMAIN ds, p) : ds[i].side = "BUY"}

Sells(ds, p) == {i \in DealsOf(ds, DOMAIN ds, p) : ds[i].side = "SELL"}

Ins(ds, p, s) == OpeningDeals(ds, {i \in DOMAIN ds : s <= ds[i].time}, p)

Outs(ds, p, s) == DealsOf(ds, {i \in DOMAIN ds : s <= ds[i].time}, p) \ Ins(ds, p, s)

ExposureIn(ds, p) == Volume(ds, Buys(ds, p)) - Volume(ds, Sells(ds, p))

NetIn(ds, p, s) == Volume(ds, Ins(ds, p, s)) - Volume(ds, Outs(ds, p, s))

\* The sets of deals these sums range over, with one more deal.
LEMMA DealSets ==
    ASSUME NEW ds \in Seq(Deals), NEW d \in Deals, NEW p, NEW s
    PROVE  LET es == Append(ds, d)
               new == {Len(ds) + 1}
               one(B) == IF B THEN new ELSE {}
           IN  /\ DealsOf(es, DOMAIN es, p) = DealsOf(ds, DOMAIN ds, p) \cup one(d.pos = p)
               /\ Buys(es, p) = Buys(ds, p) \cup one(d.pos = p /\ d.side = "BUY")
               /\ Sells(es, p) = Sells(ds, p) \cup one(d.pos = p /\ d.side = "SELL")
               /\ Ins(es, p, s) = Ins(ds, p, s) \cup one(d.pos = p /\ s <= d.time /\ d.entry = "IN")
               /\ Outs(es, p, s) = Outs(ds, p, s) \cup one(d.pos = p /\ s <= d.time /\ d.entry # "IN")
<1> DEFINE es == Append(ds, d)
           n == Len(ds) + 1
           one(B) == IF B THEN {n} ELSE {}
<1>1. /\ DOMAIN es = DOMAIN ds \cup {n}
      /\ \A i \in DOMAIN ds : es[i] = ds[i] /\ i # n
      /\ es[n] = d
  BY AppendProperties
<1> HIDE DEF es, n
<1>2. DealsOf(es, DOMAIN es, p) = DealsOf(ds, DOMAIN ds, p) \cup one(d.pos = p)
  BY <1>1 DEF DealsOf
<1>3. Buys(es, p) = Buys(ds, p) \cup one(d.pos = p /\ d.side = "BUY")
  BY <1>1 DEF DealsOf, Buys
<1>4. Sells(es, p) = Sells(ds, p) \cup one(d.pos = p /\ d.side = "SELL")
  BY <1>1 DEF DealsOf, Sells
<1>5. Ins(es, p, s) = Ins(ds, p, s) \cup one(d.pos = p /\ s <= d.time /\ d.entry = "IN")
  BY <1>1 DEF DealsOf, OpeningDeals, Ins
<1>6. Outs(es, p, s) = Outs(ds, p, s) \cup one(d.pos = p /\ s <= d.time /\ d.entry # "IN")
  BY <1>1 DEF DealsOf, OpeningDeals, Ins, Outs
<1> QED
  BY <1>2, <1>3, <1>4, <1>5, <1>6 DEF es, n

\* One of these sets, with one more deal or none.
LEMMA VolumeStep ==
    ASSUME NEW ds \in Seq(Deals), NEW d \in Deals, NEW I \in SUBSET DOMAIN ds, NEW B \in BOOLEAN
    PROVE  /\ Volume(ds, I) \in Int
           /\ Volume(Append(ds, d), I \cup (IF B THEN {Len(ds) + 1} ELSE {}))
                  = Volume(ds, I) + (IF B THEN d.vol ELSE 0)
<1>1. Volume(ds, I) \in Int
  BY VolumeBooked
<1>2. B => Volume(Append(ds, d), I \cup (IF B THEN {Len(ds) + 1} ELSE {}))
               = Volume(ds, I) + d.vol
  BY VolumeBooked
<1>3. ASSUME ~B
      PROVE  Volume(Append(ds, d), I \cup (IF B THEN {Len(ds) + 1} ELSE {})) = Volume(ds, I) + 0
  <2>1. I \cup (IF B THEN {Len(ds) + 1} ELSE {}) = I
    BY <1>3
  <2>2. Volume(Append(ds, d), I \cup (IF B THEN {Len(ds) + 1} ELSE {})) = Volume(Append(ds, d), I)
    BY <2>1, Zenon
  <2>3. Volume(Append(ds, d), I) = Volume(ds, I)
    BY VolumeBooked
  <2>4. Volume(ds, I) = Volume(ds, I) + 0
    BY <1>1
  <2> QED
    BY <2>2, <2>3, <2>4, Zenon
<1> QED
  <2> DEFINE e == Append(ds, d)
             J == I \cup (IF B THEN {Len(ds) + 1} ELSE {})
  <2>1. B => Volume(e, J) = Volume(ds, I) + d.vol
    BY <1>2
  <2>2. ~B => Volume(e, J) = Volume(ds, I) + 0
    BY <1>3
  <2> HIDE DEF e, J
  <2>3. Volume(e, J) = Volume(ds, I) + (IF B THEN d.vol ELSE 0)
    BY <2>1, <2>2
  <2> QED
    BY <1>1, <2>3 DEF e, J

\* Exposure and net volume, with one more deal.
LEMMA OneMoreDeal ==
    ASSUME NEW ds \in Seq(Deals), NEW d \in Deals, NEW p, NEW s \in Int
    PROVE  /\ ExposureIn(ds, p) \in Int /\ NetIn(ds, p, s) \in Int
           /\ d.pos # p => /\ ExposureIn(Append(ds, d), p) = ExposureIn(ds, p)
                           /\ NetIn(Append(ds, d), p, s) = NetIn(ds, p, s)
           /\ d.pos = p /\ d.side = "BUY" => ExposureIn(Append(ds, d), p) = ExposureIn(ds, p) + d.vol
           /\ d.pos = p /\ d.side = "SELL" => ExposureIn(Append(ds, d), p) = ExposureIn(ds, p) - d.vol
           /\ ~(s <= d.time) => NetIn(Append(ds, d), p, s) = NetIn(ds, p, s)
           /\ d.pos = p /\ s <= d.time /\ d.entry = "IN" =>
                  NetIn(Append(ds, d), p, s) = NetIn(ds, p, s) + d.vol
           /\ d.pos = p /\ s <= d.time /\ d.entry # "IN" =>
                  NetIn(Append(ds, d), p, s) = NetIn(ds, p, s) - d.vol
<1> DEFINE es == Append(ds, d)
           gain(B) == IF B THEN d.vol ELSE 0
           one(B) == IF B THEN {Len(ds) + 1} ELSE {}
<1>1. /\ Buys(ds, p) \in SUBSET DOMAIN ds /\ Sells(ds, p) \in SUBSET DOMAIN ds
      /\ Ins(ds, p, s) \in SUBSET DOMAIN ds /\ Outs(ds, p, s) \in SUBSET DOMAIN ds
  BY DEF Buys, Sells, Ins, Outs, OpeningDeals, DealsOf
<1>2. d.vol \in Int
  BY DealType
<1>3. ASSUME NEW I \in SUBSET DOMAIN ds, NEW J, NEW B \in BOOLEAN, J = I \cup one(B)
      PROVE  Volume(ds, I) \in Int /\ Volume(es, J) = Volume(ds, I) + gain(B)
  <2>1. Volume(es, J) = Volume(es, I \cup one(B))
    BY <1>3, Zenon
  <2> QED
    BY <2>1, VolumeStep
<1>4. Volume(es, Buys(es, p)) = Volume(ds, Buys(ds, p)) + gain(d.pos = p /\ d.side = "BUY")
      /\ Volume(ds, Buys(ds, p)) \in Int
  <2>1. Buys(es, p) = Buys(ds, p) \cup one(d.pos = p /\ d.side = "BUY")
    BY DealSets
  <2> HIDE DEF es, one, gain
  <2> QED
    BY <1>1, <1>3, <2>1
<1>5. Volume(es, Sells(es, p)) = Volume(ds, Sells(ds, p)) + gain(d.pos = p /\ d.side = "SELL")
      /\ Volume(ds, Sells(ds, p)) \in Int
  <2>1. Sells(es, p) = Sells(ds, p) \cup one(d.pos = p /\ d.side = "SELL")
    BY DealSets
  <2> HIDE DEF es, one, gain
  <2> QED
    BY <1>1, <1>3, <2>1
<1>6. Volume(es, Ins(es, p, s)) = Volume(ds, Ins(ds, p, s)) + gain(d.pos = p /\ s <= d.time /\ d.entry = "IN")
      /\ Volume(ds, Ins(ds, p, s)) \in Int
  <2>1. Ins(es, p, s) = Ins(ds, p, s) \cup one(d.pos = p /\ s <= d.time /\ d.entry = "IN")
    BY DealSets
  <2> HIDE DEF es, one, gain
  <2> QED
    BY <1>1, <1>3, <2>1
<1>7. Volume(es, Outs(es, p, s)) = Volume(ds, Outs(ds, p, s)) + gain(d.pos = p /\ s <= d.time /\ d.entry # "IN")
      /\ Volume(ds, Outs(ds, p, s)) \in Int
  <2>1. Outs(es, p, s) = Outs(ds, p, s) \cup one(d.pos = p /\ s <= d.time /\ d.entry # "IN")
    BY DealSets
  <2> HIDE DEF es, one, gain
  <2> QED
    BY <1>1, <1>3, <2>1
<1>8. d.side = "BUY" => d.side # "SELL"
  OBVIOUS
<1>9. /\ ExposureIn(ds, p) \in Int
      /\ ExposureIn(es, p) = ExposureIn(ds, p) + gain(d.pos = p /\ d.side = "BUY")
                                                - gain(d.pos = p /\ d.side = "SELL")
  <2>1. gain(d.pos = p /\ d.side = "BUY") \in Int /\ gain(d.pos = p /\ d.side = "SELL") \in Int
    BY <1>2
  <2> HIDE DEF es, gain
  <2> QED
    BY <1>4, <1>5, <2>1 DEF ExposureIn
<1>10. /\ NetIn(ds, p, s) \in Int
       /\ NetIn(es, p, s) = NetIn(ds, p, s) + gain(d.pos = p /\ s <= d.time /\ d.entry = "IN")
                                            - gain(d.pos = p /\ s <= d.time /\ d.entry # "IN")
  <2>1. /\ gain(d.pos = p /\ s <= d.time /\ d.entry = "IN") \in Int
        /\ gain(d.pos = p /\ s <= d.time /\ d.entry # "IN") \in Int
    BY <1>2
  <2> HIDE DEF es, gain
  <2> QED
    BY <1>6, <1>7, <2>1 DEF NetIn
<1> HIDE DEF es
<1> QED
  BY <1>2, <1>8, <1>9, <1>10 DEF es

\* What the invariants say in terms of these sums.
LEMMA Exposed ==
    ASSUME NEW p, NEW s
    PROVE  /\ Exposure(p) = ExposureIn(deals, p)
           /\ Size(p) = IF ExposureIn(deals, p) > 0 THEN ExposureIn(deals, p) ELSE -ExposureIn(deals, p)
           /\ NetVolume(deals, {i \in DOMAIN deals : s <= deals[i].time}, p) = NetIn(deals, p, s)
<1>1. Exposure(p) = ExposureIn(deals, p)
  BY DEF Exposure, Booked, ExposureIn, Buys, Sells
<1>2. NetVolume(deals, {i \in DOMAIN deals : s <= deals[i].time}, p) = NetIn(deals, p, s)
  BY DEF NetVolume, NetIn, Ins, Outs
<1> QED
  BY <1>1, <1>2 DEF Size

\* A flat position has no size.
LEMMA FlatSize == ASSUME NEW p, Exposure(p) = 0 PROVE Size(p) = 0
<1>1. ~(Exposure(p) > 0) /\ -Exposure(p) = -0
  <2>1. ~(0 > 0)
    OBVIOUS
  <2> QED
    BY <2>1, Zenon
<1>2. -0 = 0
  <2>1. \A x \in Int : -x = 0 - x
    OBVIOUS
  <2>2. 0 \in Int /\ 0 - 0 = 0
    OBVIOUS
  <2> QED
    BY <2>1, <2>2, Zenon
<1> QED
  BY <1>1, <1>2, Zenon DEF Size

\* A position without deals, or without deals since s.
LEMMA NoDealsNoSums ==
    ASSUME NEW ds, NEW p, NEW s
    PROVE  /\ DealsOf(ds, DOMAIN ds, p) = {} => ExposureIn(ds, p) = 0
           /\ (\A i \in DealsOf(ds, DOMAIN ds, p) : ~(s <= ds[i].time)) => NetIn(ds, p, s) = 0
<1>1. ASSUME DealsOf(ds, DOMAIN ds, p) = {} PROVE ExposureIn(ds, p) = 0
  <2>1. Buys(ds, p) = {} /\ Sells(ds, p) = {}
    BY <1>1 DEF Buys, Sells
  <2>2. Volume(ds, Buys(ds, p)) = Volume(ds, {}) /\ Volume(ds, Sells(ds, p)) = Volume(ds, {})
    BY <2>1, Zenon
  <2> QED
    BY <2>2, VolumeEmpty DEF ExposureIn
<1>2. ASSUME \A i \in DealsOf(ds, DOMAIN ds, p) : ~(s <= ds[i].time) PROVE NetIn(ds, p, s) = 0
  <2>1. Ins(ds, p, s) = {} /\ Outs(ds, p, s) = {}
    BY <1>2 DEF Ins, Outs, OpeningDeals, DealsOf
  <2>2. Volume(ds, Ins(ds, p, s)) = Volume(ds, {}) /\ Volume(ds, Outs(ds, p, s)) = Volume(ds, {})
    BY <2>1, Zenon
  <2> QED
    BY <2>2, VolumeEmpty DEF NetIn
<1> QED
  BY <1>1, <1>2

\* The broker books in the past.
PastInv == \A i \in DOMAIN deals : deals[i].time <= now

\* It closes nothing by an opposite position, and the tracker never computes a
\* larger net volume than the position has.
BookInv ==
    /\ \A i \in DOMAIN deals : deals[i].entry # "OUT_BY"
    /\ \A p \in Positions, s \in Times : NetIn(deals, p, s) <= Size(p)

\* How a deal may change a position: it opens it, adds to it or reduces it.
Fits(d) ==
    \/ d.entry = "IN" /\ Booked(d.pos) = {}
    \/ d.entry = "IN" /\ Exposure(d.pos) # 0 /\ d.side = SideOf(d.pos)
    \/ d.entry # "IN" /\ Exposure(d.pos) # 0 /\ d.side = Opposite(SideOf(d.pos))

\* The broker books one deal that fits, now.
LEMMA BrokerStep ==
    ASSUME TypeInv, Broker
    PROVE  \E d \in Deals :
              /\ deals' = Append(deals, d) /\ UNCHANGED <<now, docs, cyc>>
              /\ d.time = now /\ now < MaxTime
              /\ d.entry = "OUT_BY" => CloseBys /\ ~BrokerNets
              /\ d.entry # "IN" /\ ~Reversals => d.vol <= Size(d.pos)
              /\ Fits(d)
<1> DEFINE Goal == \E d \in Deals :
                      /\ deals' = Append(deals, d) /\ UNCHANGED <<now, docs, cyc>>
                      /\ d.time = now /\ now < MaxTime
                      /\ d.entry = "OUT_BY" => CloseBys /\ ~BrokerNets
                      /\ d.entry # "IN" /\ ~Reversals => d.vol <= Size(d.pos)
                      /\ Fits(d)
<1>1. ASSUME NEW p \in Positions, NEW side \in Sides, NEW entry \in {"IN", "OUT", "INOUT", "OUT_BY"},
             NEW vol \in Lots, NEW profit \in Profits \cup {0}, Book(p, side, entry, vol, profit),
             entry = "OUT_BY" => CloseBys /\ ~BrokerNets,
             entry # "IN" /\ ~Reversals => vol <= Size(p),
             \/ entry = "IN" /\ Booked(p) = {}
             \/ entry = "IN" /\ Exposure(p) # 0 /\ side = SideOf(p)
             \/ entry # "IN" /\ Exposure(p) # 0 /\ side = Opposite(SideOf(p))
      PROVE  Goal
  <2> DEFINE d == [pos |-> p, side |-> side, entry |-> entry,
                   vol |-> vol, profit |-> profit, time |-> now]
  <2>1. d \in Deals
    BY DEF Deals, TypeInv, TrackingTypeOK
  <2>2. /\ deals' = Append(deals, d) /\ UNCHANGED <<now, docs, cyc>> /\ now < MaxTime
    BY <1>1 DEF Book
  <2>3. d.time = now /\ d.entry = entry /\ d.pos = p /\ d.side = side /\ d.vol = vol
    OBVIOUS
  <2> HIDE DEF d
  <2>4. Fits(d)
    BY <1>1, <2>3 DEF Fits
  <2> QED
    BY <1>1, <2>1, <2>2, <2>3, <2>4
<1> HIDE DEF Goal
<1>2. \A p \in Positions : SideOf(p) \in Sides /\ Opposite(SideOf(p)) \in Sides
  BY DEF SideOf, Opposite, Sides
<1>3. ASSUME NEW p \in Positions, NEW side \in Sides, NEW vol \in Lots, OpenPosition(p, side, vol)
      PROVE  Goal
  <2>1. Booked(p) = {} /\ Book(p, side, "IN", vol, 0)
    BY <1>3 DEF OpenPosition
  <2> QED
    BY <1>1, <2>1
<1>4. ASSUME NEW p \in Positions, NEW vol \in Lots, AddToPosition(p, vol)
      PROVE  Goal
  <2>1. Exposure(p) # 0 /\ Book(p, SideOf(p), "IN", vol, 0)
    BY <1>4 DEF AddToPosition, OpenPositions
  <2> QED
    BY <1>1, <1>2, <2>1
<1>5. ASSUME NEW p \in Positions, NEW vol \in Lots, NEW profit \in Profits,
             ReducePosition(p, vol, profit)
      PROVE  Goal
  <2>1. Exposure(p) # 0 /\ vol <= Size(p) /\ Book(p, Opposite(SideOf(p)), "OUT", vol, profit)
    BY <1>5 DEF ReducePosition, OpenPositions
  <2> QED
    BY <1>1, <1>2, <2>1
<1>6. ASSUME NEW p \in Positions, NEW vol \in Lots, NEW profit \in Profits,
             ReversePosition(p, vol, profit)
      PROVE  Goal
  <2>1. Exposure(p) # 0 /\ Reversals /\ Book(p, Opposite(SideOf(p)), "INOUT", vol, profit)
    BY <1>6 DEF ReversePosition, OpenPositions
  <2> QED
    BY <1>1, <1>2, <2>1
<1>7. ASSUME NEW p \in Positions, NEW profit \in Profits, CloseByPosition(p, profit)
      PROVE  Goal
  <2>1. /\ Exposure(p) # 0 /\ CloseBys /\ ~BrokerNets /\ Size(p) \in Lots
        /\ Book(p, Opposite(SideOf(p)), "OUT_BY", Size(p), profit)
    BY <1>7 DEF CloseByPosition, OpenPositions
  <2>2. Size(p) <= Size(p)
    <3>1. Size(p) \in Nat
      BY <2>1, BrokerAssumption, Zenon
    <3> QED
      BY <3>1
  <2> QED
    BY <1>1, <1>2, <2>1, <2>2
<1>8. Goal
  BY <1>3, <1>4, <1>5, <1>6, <1>7 DEF Broker
<1> QED
  BY <1>8 DEF Goal

\* One more deal that fits, now, leaves the other positions alone and the
\* books sound.
LEMMA FittingDeal ==
    ASSUME TypeInv, PastInv, BookInv, NEW d \in Deals, deals' = Append(deals, d), UNCHANGED now,
           d.time = now, d.entry # "OUT_BY", Fits(d)
    PROVE  /\ BookInv'
           /\ \A p \in Positions \ {d.pos} : Exposure(p)' = Exposure(p) /\ Booked(p)' = Booked(p)
<1> DEFINE n == Len(deals) + 1
<1>1. deals \in Seq(Deals) /\ now \in Int
  <2>1. Times \subseteq Int
    BY TimeAssumption DEF Times
  <2> QED
    BY <2>1 DEF TypeInv, TrackingTypeOK
<1>2. /\ DOMAIN deals' = DOMAIN deals \cup {n}
      /\ \A i \in DOMAIN deals : deals'[i] = deals[i]
      /\ deals'[n] = d
  BY <1>1, AppendProperties
<1>3. \A p : Exposure(p) = ExposureIn(deals, p) /\ Exposure(p)' = ExposureIn(deals', p)
  BY DEF Exposure, Booked, ExposureIn, Buys, Sells
<1>4. ASSUME NEW p \in Positions \ {d.pos}
      PROVE  Exposure(p)' = Exposure(p) /\ Booked(p)' = Booked(p)
  <2>1. Exposure(p)' = Exposure(p)
    BY <1>1, <1>3, <1>4, OneMoreDeal
  <2>2. Booked(p)' = Booked(p)
    BY <1>2, <1>4 DEF Booked, DealsOf
  <2> QED
    BY <2>1, <2>2
<1>5. \A i \in DOMAIN deals' : deals'[i].entry # "OUT_BY"
  BY <1>2 DEF BookInv
<1>6. ASSUME NEW p \in Positions, NEW s \in Times
      PROVE  NetIn(deals', p, s) <= Size(p)'
  <2> DEFINE x == ExposureIn(deals, p)
             y == ExposureIn(deals', p)
             a == NetIn(deals, p, s)
             b == NetIn(deals', p, s)
  <2>1. s \in Int /\ d.vol \in Nat
    BY DealType, TimeAssumption DEF Times
  <2>2. /\ Size(p) = IF x > 0 THEN x ELSE -x
        /\ Size(p)' = IF y > 0 THEN y ELSE -y
        /\ a <= Size(p)
    BY <1>3 DEF Size, BookInv
  <2>3. /\ x \in Int /\ a \in Int
        /\ d.pos # p => y = x /\ b = a
        /\ d.pos = p /\ d.side = "BUY" => y = x + d.vol
        /\ d.pos = p /\ d.side = "SELL" => y = x - d.vol
        /\ ~(s <= now) => b = a
        /\ d.pos = p /\ s <= now /\ d.entry = "IN" => b = a + d.vol
        /\ d.pos = p /\ s <= now /\ d.entry # "IN" => b = a - d.vol
    BY <1>1, <2>1, OneMoreDeal, SMTT(30)
  <2>4. ~(s <= now) => a = 0
    <3>1. \A i \in DOMAIN deals : deals[i].time \in Int /\ deals[i].time <= now
      BY <1>1, DealType DEF PastInv
    <3>2. ~(s <= now) => \A i \in DealsOf(deals, DOMAIN deals, p) : ~(s <= deals[i].time)
      BY <1>1, <2>1, <3>1 DEF DealsOf
    <3> QED
      BY <3>2, NoDealsNoSums
  <2>5. d.side \in {"BUY", "SELL"}
    BY DEF Deals, Sides
  <2>6. d.pos = p =>
            \/ d.entry = "IN" /\ x = 0 /\ a = 0
            \/ d.entry = "IN" /\ d.side = IF x > 0 THEN "BUY" ELSE "SELL"
            \/ d.entry # "IN" /\ d.side = IF x > 0 THEN "SELL" ELSE "BUY"
    <3>1. Booked(p) = {} => x = 0 /\ a = 0
      BY NoDealsNoSums DEF Booked
    <3> HIDE DEF x, a
    <3> QED
      BY <3>1, <1>3 DEF Fits, SideOf, Opposite, x
  <2> HIDE DEF x, y, a, b
  <2>7. b <= Size(p)'
    <3>1. CASE d.pos # p
      BY <2>2, <2>3, <3>1
    <3>2. CASE d.pos = p /\ ~(s <= now)
      BY <2>1, <2>2, <2>3, <2>4, <2>5, <3>2
    <3>3. CASE d.pos = p /\ s <= now /\ d.entry = "IN"
      BY <2>1, <2>2, <2>3, <2>5, <2>6, <3>3
    <3>4. CASE d.pos = p /\ s <= now /\ d.entry # "IN"
      <4>1. b = a - d.vol
        BY <2>3, <3>4
      <4>2. CASE x > 0
        <5>1. y = x - d.vol
          BY <2>3, <2>6, <3>4, <4>2
        <5> QED
          BY <2>1, <2>2, <2>3, <4>1, <4>2, <5>1
      <4>3. CASE ~(x > 0)
        <5>1. y = x + d.vol
          BY <2>3, <2>6, <3>4, <4>3
        <5> QED
          BY <2>1, <2>2, <2>3, <4>1, <4>3, <5>1
      <4> QED
        BY <4>2, <4>3
    <3> QED
      BY <3>1, <3>2, <3>3, <3>4
  <2> QED
    BY <2>7 DEF b
<1> QED
  BY <1>4, <1>5, <1>6 DEF BookInv

-----------------------------------------------------------------------------
(* What a poll does to the status of a document.                            *)

\* A poll without a position to assess: nothing, or the window has expired.
Unfilled(ok, covers, eligible, doc, updated) ==
    /\ doc.matched = NoPosition
    /\ \/ updated = doc
       \/ /\ ok /\ covers >= ValidUntil(doc) /\ eligible = {}
          /\ updated = [doc EXCEPT !.status = "NOT_FILLED"]

\* A poll of an owned position: the status says what the read shows of it.
Assessed(ds, read, ok, doc, updated) ==
    /\ updated.matched # NoPosition
    /\ updated.status \in {"OPEN"} \cup ClosedStatuses \/ updated = doc
    /\ ~ok => updated = doc
    /\ /\ ok /\ FullyClosed(ds, read, updated.matched)
       /\ ~LifecycleBlocked(ds, read, updated.matched)
       => updated.status \in ClosedStatuses

\* The lifecycle step assesses an owned position.
LEMMA LifecycleAssesses ==
    ASSUME NEW ds, NEW read, NEW ok \in BOOLEAN, NEW doc \in Docs, doc.matched # NoPosition
    PROVE  Assessed(ds, read, ok, doc, LifecycleStep(ds, read, ok, doc))
<1> DEFINE p == doc.matched
           closing == [doc EXCEPT !.status = LifecycleStatus(ds, read, p)]
<1>1. closing.matched = p /\ closing.status = LifecycleStatus(ds, read, p)
  BY DEF Docs
<1>2. /\ LifecycleStatus(ds, read, p) \in {"OPEN"} \cup ClosedStatuses
      /\ FullyClosed(ds, read, p) => LifecycleStatus(ds, read, p) \in ClosedStatuses
  BY DEF LifecycleStatus, TerminalStatus, ClosedStatuses
<1>3. CASE ~ok \/ LifecycleBlocked(ds, read, p)
  <2>1. LifecycleStep(ds, read, ok, doc) = doc
    BY <1>3 DEF LifecycleStep
  <2> QED
    BY <1>3, <2>1 DEF Assessed
<1>4. CASE ok /\ ~LifecycleBlocked(ds, read, p)
  <2>1. LifecycleStep(ds, read, ok, doc) = closing
    BY <1>4 DEF LifecycleStep
  <2> HIDE DEF closing
  <2> QED
    BY <1>1, <1>2, <1>4, <2>1 DEF Assessed
<1> QED
  BY <1>3, <1>4

\* Every poll is of one of these two kinds.
LEMMA PollCases ==
    ASSUME NEW ds, NEW read, NEW ok \in BOOLEAN, NEW covers, NEW doc \in Docs, NEW claimed,
           EligiblePositions(ds, read, doc, claimed) \subseteq Positions
    PROVE  LET updated == AdvanceTracked(ds, read, ok, covers, doc, claimed)
           IN  \/ Unfilled(ok, covers, EligiblePositions(ds, read, doc, claimed), doc, updated)
               \/ Assessed(ds, read, ok, doc, updated)
<1> DEFINE E == EligiblePositions(ds, read, doc, claimed)
           outcome == MatchOutcome(ds, read, ok, covers, doc, claimed)
           pick == CHOOSE p \in E : TRUE
           owned == [doc EXCEPT !.matched = pick, !.status = "OPEN"]
           matching == MatchStep(ds, read, ok, covers, doc, claimed)
           updated == AdvanceTracked(ds, read, ok, covers, doc, claimed)
<1>1. CASE doc.matched # NoPosition
  <2>1. updated = LifecycleStep(ds, read, ok, doc)
    BY <1>1 DEF AdvanceTracked
  <2> QED
    BY <1>1, <2>1, LifecycleAssesses
<1>2. CASE doc.matched = NoPosition /\ outcome = "MATCHED"
  <2>1. ok /\ Cardinality(E) = 1
    BY <1>2 DEF MatchOutcome
  <2>2. pick \in E
    BY <2>1, FS_EmptySet
  <2>3. matching = owned
    BY <1>2 DEF MatchStep
  <2>4. owned \in Docs /\ owned.matched = pick /\ owned.status = "OPEN"
    <3> HIDE DEF pick, E
    <3>1. pick \in Positions
      BY <2>2 DEF E
    <3> DEFINE claim == [doc EXCEPT !.matched = pick]
    <3>2. /\ claim = [status |-> doc.status, side |-> doc.side, signal |-> doc.signal,
                      pre |-> doc.pre, matched |-> pick]
          /\ claim \in Docs
      BY <3>1 DEF Docs
    <3>3. owned = [claim EXCEPT !.status = "OPEN"]
      OBVIOUS
    <3> HIDE DEF claim, owned
    <3>4. owned = [status |-> "OPEN", side |-> doc.side, signal |-> doc.signal,
                   pre |-> doc.pre, matched |-> pick]
      BY <3>2, <3>3
    <3> QED
      BY <3>1, <3>4 DEF Docs, Statuses
  <2>5. owned.matched # NoPosition
    BY <2>2, <2>4, PositionsAssumption
  <2>6. updated = LifecycleStep(ds, read, ok, owned)
    BY <1>2, <2>3 DEF AdvanceTracked
  <2>7. Assessed(ds, read, ok, owned, updated)
    <3> HIDE DEF owned, updated
    <3> QED
      BY <2>4, <2>5, <2>6, LifecycleAssesses
  <2> HIDE DEF owned, updated
  <2>8. Assessed(ds, read, ok, doc, updated)
    BY <2>1, <2>4, <2>7 DEF Assessed
  <2> QED
    BY <2>8 DEF updated
<1>3. CASE doc.matched = NoPosition /\ outcome = "EXPIRED_CONFIRMED_UNFILLED"
  <2>1. ok /\ covers >= ValidUntil(doc) /\ E = {}
    BY <1>3 DEF MatchOutcome
  <2>2. matching = [doc EXCEPT !.status = "NOT_FILLED"]
    BY <1>3 DEF MatchStep
  <2>3. matching.matched = NoPosition
    BY <1>3, <2>2 DEF Docs
  <2>4. updated = matching
    BY <1>3, <2>3 DEF AdvanceTracked, LifecycleStep
  <2> QED
    BY <1>3, <2>1, <2>2, <2>4 DEF Unfilled
<1>4. CASE doc.matched = NoPosition /\ outcome \notin {"MATCHED", "EXPIRED_CONFIRMED_UNFILLED"}
  <2>1. matching = doc
    BY <1>4 DEF MatchStep
  <2>2. updated = doc
    BY <1>4, <2>1 DEF AdvanceTracked, LifecycleStep
  <2> QED
    BY <1>4, <2>2 DEF Unfilled
<1> QED
  BY <1>1, <1>2, <1>3, <1>4

-----------------------------------------------------------------------------
(* The clock.  What is booked, read and given up is past.                   *)

\* A document owns a position exactly when its status says so.
StatusAgrees(doc) == doc.status \in {"PENDING", "NOT_FILLED"} <=> doc.matched = NoPosition

\* The deals inside the window of a document given up are all booked.
Late(doc) == doc.status = "NOT_FILLED" => ValidUntil(doc) < now \/ now = MaxTime

DocInv ==
    /\ PastInv
    /\ cyc.phase # "idle" => cyc.asOf < now \/ now = MaxTime
    /\ \A t \in Tracked : StatusAgrees(docs[t]) /\ Late(docs[t])

\* Types used below.
LEMMA NumberTypes ==
    ASSUME TypeInv
    PROVE  /\ now \in Int /\ now <= MaxTime /\ cyc.asOf \in Int /\ cyc.start \in Int /\ MaxTime \in Int
           /\ cyc.ok \in BOOLEAN
           /\ \A i \in DOMAIN deals : deals[i] \in Deals /\ deals[i].time \in Int
           /\ \A t \in Tracked : docs[t] \in Docs /\ docs[t].signal \in Int /\ ValidUntil(docs[t]) \in Int
<1>1. Times \subseteq Int /\ MaxTime \in Int /\ \A n \in Times : n <= MaxTime
  BY TimeAssumption DEF Times
<1>2. now \in Times /\ cyc.asOf \in Times /\ cyc.start \in Times /\ cyc.ok \in BOOLEAN
  BY DEF TypeInv, TrackingTypeOK, Cycles
<1>3. \A i \in DOMAIN deals : deals[i] \in Deals
  BY DEF TypeInv, TrackingTypeOK
<1>4. \A t \in Tracked : docs[t] \in Docs /\ docs[t].signal \in Times
  BY DEF TypeInv, TrackingTypeOK, Tracked, Docs
<1>5. ASSUME NEW t \in Tracked
      PROVE  ValidUntil(docs[t]) \in Int
  <2>1. docs[t].signal \in Int
    BY <1>1, <1>4
  <2>2. ExecutionWindow \in Int
    BY WindowAssumption
  <2> QED
    BY <2>1, <2>2 DEF ValidUntil
<1> QED
  BY <1>1, <1>2, <1>3, <1>4, <1>5, DealType

\* A poll keeps the status of a document in step with its match and the clock.
LEMMA PolledDoc ==
    ASSUME TypeInv, DocInv, cyc.phase = "advancing", NEW t \in Tracked
    PROVE  StatusAgrees(Advanced(t)) /\ Late(Advanced(t))
<1> DEFINE doc == docs[t]
           updated == Advanced(t)
           E == EligiblePositions(deals, HistoryRead, docs[t], cyc.claimed \ {docs[t].matched})
<1>1. doc \in Docs /\ E \subseteq Positions
  BY AdvancedPolled
<1>2. Unfilled(cyc.ok, cyc.asOf, E, doc, updated) \/ Assessed(deals, HistoryRead, cyc.ok, doc, updated)
  BY <1>1, NumberTypes, PollCases DEF Advanced
<1>3. StatusAgrees(doc) /\ Late(doc)
  BY DEF DocInv
<1> HIDE DEF updated
<1>4. CASE updated = doc
  BY <1>3, <1>4 DEF updated
<1>5. CASE Unfilled(cyc.ok, cyc.asOf, E, doc, updated) /\ updated # doc
  <2>1. /\ updated = [doc EXCEPT !.status = "NOT_FILLED"] /\ doc.matched = NoPosition
        /\ cyc.asOf >= ValidUntil(doc)
    BY <1>5 DEF Unfilled
  <2>2. /\ updated.status = "NOT_FILLED" /\ updated.matched = NoPosition
        /\ updated.signal = doc.signal
    BY <1>1, <2>1 DEF Docs
  <2>3. ValidUntil(updated) = ValidUntil(doc)
    BY <2>2 DEF ValidUntil
  <2>4. ValidUntil(doc) < now \/ now = MaxTime
    BY <2>1, NumberTypes DEF DocInv
  <2> QED
    BY <2>2, <2>3, <2>4 DEF StatusAgrees, Late, updated
<1>6. CASE Assessed(deals, HistoryRead, cyc.ok, doc, updated) /\ updated # doc
  <2>1. updated.matched # NoPosition /\ updated.status \notin {"PENDING", "NOT_FILLED"}
    BY <1>6 DEF Assessed, ClosedStatuses
  <2> QED
    BY <2>1 DEF StatusAgrees, Late, updated
<1> QED
  BY <1>2, <1>4, <1>5, <1>6

\* No document, no deal and no cycle at first.
LEMMA DocInit == TrackingInit => DocInv
BY DEF TrackingInit, DocInv, PastInv, Tracked, NoCycle

\* The clock only moves forward.
LEMMA ClockStep ==
    ASSUME TypeInv, [TrackingNext]_trackingVars
    PROVE  now' \in Int /\ now <= now' /\ (now' = now \/ now # MaxTime)
<1>1. now \in Int /\ MaxTime \in Int
  BY NumberTypes
<1>2. now' = now \/ (now < MaxTime /\ now' = now + 1)
  BY BrokerBooks DEF TrackingNext, Cycle, Tick, BeginCycle, LoadAndReadHistory, AdvanceTrade, FinishCycle,
     AbandonCycle, trackingVars
<1> QED
  BY <1>1, <1>2

\* Where a document on disk comes from: it was there, a poll wrote it, or the
\* cycle issued it.
LEMMA DocCases ==
    ASSUME TypeInv, [TrackingNext]_trackingVars, NEW t \in Tracked'
    PROVE  \/ t \in Tracked /\ docs'[t] = docs[t]
           \/ t \in Tracked /\ docs'[t] = Advanced(t) /\ AdvanceTrade(t, TRUE)
           \/ \E side \in RecSides : docs'[t] = NewDoc(side)
<1>1. t \in Trades /\ docs'[t] # NoDoc
  BY DEF Tracked
<1>2. ASSUME NEW u \in Trades, NEW written \in BOOLEAN, AdvanceTrade(u, written)
      PROVE  \/ t \in Tracked /\ docs'[t] = docs[t]
             \/ t \in Tracked /\ docs'[t] = Advanced(t) /\ AdvanceTrade(t, TRUE)
  <2>1. CASE docs'[t] = docs[t]
    BY <1>1, <2>1 DEF Tracked
  <2>2. CASE docs'[t] # docs[t]
    <3>1. u = t /\ written = TRUE
      BY <1>1, <1>2, <2>2 DEF AdvanceTrade, TypeInv, TrackingTypeOK
    <3>2. docs' = [docs EXCEPT ![t] = Advanced(t)] /\ t \in cyc.todo
      BY <1>2, <3>1 DEF AdvanceTrade
    <3> QED
      BY <1>1, <1>2, <3>1, <3>2 DEF TypeInv, TrackingTypeOK
  <2> QED
    BY <2>1, <2>2
<1>3. ASSUME NEW positionsOk \in BOOLEAN, NEW actionable \in FreshTrades, NEW side \in RecSides,
             NEW written \in SUBSET actionable,
             FinishCycle(positionsOk, actionable, side, written)
      PROVE  (t \in Tracked /\ docs'[t] = docs[t]) \/ docs'[t] = NewDoc(side)
  <2>1. docs' = docs \/ docs' = [u \in Trades |-> IF u \in written THEN NewDoc(side) ELSE docs[u]]
    BY <1>3, FinishCycleType
  <2> QED
    BY <1>1, <2>1 DEF Tracked
<1>4. docs' = docs => t \in Tracked /\ docs'[t] = docs[t]
  BY <1>1 DEF Tracked
<1>5. Broker \/ Tick \/ BeginCycle \/ AbandonCycle \/ UNCHANGED trackingVars
      \/ (\E ok \in BOOLEAN, excluded \in SUBSET Tracked : LoadAndReadHistory(ok, excluded))
      => docs' = docs
  BY BrokerBooks DEF Tick, BeginCycle, LoadAndReadHistory, AbandonCycle, trackingVars
<1> QED
  BY <1>2, <1>3, <1>4, <1>5 DEF TrackingNext, Cycle

\* Every step keeps the past in the past.
LEMMA DocNext ==
    ASSUME TypeInv, DocInv, [TrackingNext]_trackingVars
    PROVE  DocInv'
<1>1. PastInv'
  <2>1. CASE Broker
    <3>1. PICK d \in Deals : deals' = Append(deals, d) /\ UNCHANGED now /\ d.time = now
      BY <2>1, BrokerStep
    <3>2. /\ DOMAIN deals' = DOMAIN deals \cup {Len(deals) + 1}
          /\ \A i \in DOMAIN deals : deals'[i] = deals[i]
          /\ deals'[Len(deals) + 1] = d
      BY <3>1, AppendProperties DEF TypeInv, TrackingTypeOK
    <3> QED
      BY <3>1, <3>2, NumberTypes DEF DocInv, PastInv
  <2>2. CASE ~Broker
    <3>1. deals' = deals
      BY <2>2 DEF TrackingNext, Cycle, Tick, BeginCycle, LoadAndReadHistory, AdvanceTrade, FinishCycle,
         AbandonCycle, trackingVars
    <3> QED
      BY <3>1, ClockStep, NumberTypes DEF DocInv, PastInv
  <2> QED
    BY <2>1, <2>2
<1>2. cyc'.phase # "idle" => cyc'.asOf < now' \/ now' = MaxTime
  <2>1. CASE BeginCycle
    <3>1. cyc'.asOf = now
      BY <2>1 DEF BeginCycle, NoCycle
    <3> QED
      BY <2>1, <3>1, NumberTypes DEF BeginCycle
  <2>2. CASE AbandonCycle \/ \E positionsOk \in BOOLEAN, actionable \in FreshTrades, side \in RecSides :
                \E written \in SUBSET actionable : FinishCycle(positionsOk, actionable, side, written)
    BY <2>2 DEF AbandonCycle, FinishCycle, NoCycle
  <2>3. ASSUME cyc.phase # "idle" /\ cyc'.asOf = cyc.asOf
        PROVE  cyc'.asOf < now' \/ now' = MaxTime
    BY <2>3, ClockStep, NumberTypes DEF DocInv
  <2>4. ASSUME NEW t \in Trades, NEW written \in BOOLEAN, AdvanceTrade(t, written)
        PROVE  cyc.phase # "idle" /\ cyc'.asOf = cyc.asOf
    BY <2>4 DEF AdvanceTrade, TypeInv, TrackingTypeOK, Cycles
  <2>5. ASSUME NEW ok \in BOOLEAN, NEW excluded \in SUBSET Tracked, LoadAndReadHistory(ok, excluded)
        PROVE  cyc.phase # "idle" /\ cyc'.asOf = cyc.asOf
    BY <2>5 DEF LoadAndReadHistory, TypeInv, TrackingTypeOK, Cycles
  <2>6. CASE Broker \/ Tick \/ UNCHANGED trackingVars
    <3>1. cyc' = cyc
      BY <2>6, BrokerBooks DEF Tick, trackingVars
    <3> QED
      BY <2>3, <3>1
  <2> QED
    BY <2>1, <2>2, <2>3, <2>4, <2>5, <2>6 DEF TrackingNext, Cycle
<1>3. ASSUME NEW t \in Tracked'
      PROVE  StatusAgrees(docs[t])' /\ Late(docs[t])'
  <2>1. \/ t \in Tracked /\ docs'[t] = docs[t]
        \/ t \in Tracked /\ docs'[t] = Advanced(t) /\ cyc.phase = "advancing"
        \/ \E side \in RecSides : docs'[t] = NewDoc(side)
    BY DocCases DEF AdvanceTrade
  <2>2. StatusAgrees(docs'[t]) /\ Late(docs'[t])
    <3>1. \A side : StatusAgrees(NewDoc(side)) /\ Late(NewDoc(side))
      BY DEF NewDoc, StatusAgrees, Late
    <3> QED
      BY <2>1, <3>1, PolledDoc DEF DocInv
  <2>3. docs'[t].status = "NOT_FILLED" => ValidUntil(docs'[t]) \in Int
    <3>1. \A side : NewDoc(side).status # "NOT_FILLED"
      BY DEF NewDoc
    <3>2. t \in Tracked => docs'[t].signal = docs[t].signal
      BY DocStep
    <3> QED
      BY <2>1, <3>1, <3>2, NumberTypes DEF ValidUntil
  <2>4. Late(docs[t])'
    BY <2>2, <2>3, ClockStep, NumberTypes DEF Late
  <2> QED
    BY <2>2, <2>4 DEF StatusAgrees
<1> QED
  BY <1>1, <1>2, <1>3 DEF DocInv

-----------------------------------------------------------------------------
(* The invariant.  A position is over when it is flat and, while a cycle    *)
(* runs, no deal of it is newer than what the cycle may read: then it stays *)
(* flat, and every poll that reads the history closes its document.  A      *)
(* document is settled when it holds no lock and every position it owns, or *)
(* could still be matched to (a NOT_FILLED document is polled again), is    *)
(* over: then it never holds a lock again.  All documents but one are       *)
(* settled.                                                                 *)

Over(p) ==
    /\ Booked(p) # {}
    /\ Exposure(p) = 0
    /\ cyc.phase # "idle" => \A i \in Booked(p) : deals[i].time <= cyc.asOf

Concerns(doc, p) ==
    IF doc.matched = NoPosition
    THEN QualifyingFills(deals, DOMAIN deals, doc, p) # {}
    ELSE doc.matched = p

Settled(doc) ==
    /\ doc.status \notin LockHoldingStatuses
    /\ \A p \in Positions : Concerns(doc, p) => Over(p)

SettledInv == \A t, u \in Tracked : t = u \/ Settled(docs[t]) \/ Settled(docs[u])

\* What the pass has polled and not reported as unresolved holds no lock.
PassInv ==
    /\ cyc.phase # "advancing" => cyc.unresolved = {}
    /\ cyc.phase = "advancing" =>
           \A t \in Tracked : \/ t \in cyc.todo \cup cyc.unresolved
                              \/ docs[t].status \notin LockHoldingStatuses

NettingInv == BookInv /\ PassInv /\ SettledInv

\* No document, no deal and no cycle at first.
LEMMA NettingInit == TrackingInit => NettingInv
<1> SUFFICES ASSUME TrackingInit PROVE NettingInv
  OBVIOUS
<1>1. Tracked = {} /\ cyc.phase = "idle" /\ cyc.unresolved = {}
  BY DEF TrackingInit, Tracked, NoCycle
<1>2. DOMAIN deals = {}
  BY DEF TrackingInit
<1>3. ASSUME NEW p \in Positions, NEW s \in Times
      PROVE  NetIn(deals, p, s) <= Size(p)
  <2>1. DealsOf(deals, DOMAIN deals, p) = {}
    BY <1>2 DEF DealsOf
  <2>2. ExposureIn(deals, p) = 0 /\ NetIn(deals, p, s) = 0
    BY <2>1, NoDealsNoSums
  <2>3. Size(p) = 0
    BY <2>2, Exposed, FlatSize
  <2> QED
    BY <2>2, <2>3
<1> QED
  BY <1>1, <1>2, <1>3 DEF NettingInv, BookInv, PassInv, SettledInv

\* Every read since the start of a window shows a position that is over as
\* closed.
LEMMA OverIsClosed ==
    ASSUME TypeInv, BookInv, cyc.phase = "advancing", cyc.ok, NEW p \in Positions, Over(p)
    PROVE  FullyClosed(deals, HistoryRead, p) /\ ~LifecycleBlocked(deals, HistoryRead, p)
<1> DEFINE S == {i \in DOMAIN deals : cyc.start <= deals[i].time}
<1>1. DealsOf(deals, HistoryRead, p) = DealsOf(deals, S, p)
  BY DEF DealsOf, HistoryRead, Over, Booked
<1>2. OpeningDeals(deals, HistoryRead, p) = OpeningDeals(deals, S, p)
  BY <1>1 DEF OpeningDeals
<1>3. NetVolume(deals, HistoryRead, p) = NetVolume(deals, S, p)
  <2> HIDE DEF S
  <2> QED
    BY <1>1, <1>2, Zenon DEF NetVolume
<1>4. NetVolume(deals, S, p) = NetIn(deals, p, cyc.start)
  BY Exposed
<1>5. NetIn(deals, p, cyc.start) <= Size(p)
  BY DEF BookInv, TypeInv, TrackingTypeOK, Cycles
<1>6. Size(p) = 0
  BY FlatSize DEF Over
<1>7. FullyClosed(deals, HistoryRead, p)
  BY <1>3, <1>4, <1>5, <1>6 DEF FullyClosed
<1>8. ~LifecycleBlocked(deals, HistoryRead, p)
  BY DEF LifecycleBlocked, DealsOf, HistoryRead, BookInv
<1> QED
  BY <1>7, <1>8

\* A poll leaves a settled document settled.
LEMMA SettledPoll ==
    ASSUME TypeInv, BookInv, DocInv, cyc.phase = "advancing", NEW t \in Tracked, Settled(docs[t])
    PROVE  Settled(Advanced(t))
<1> DEFINE doc == docs[t]
           updated == Advanced(t)
           E == EligiblePositions(deals, HistoryRead, docs[t], cyc.claimed \ {docs[t].matched})
<1>1. doc \in Docs /\ E \subseteq Positions /\ Polled(doc, updated, E)
  BY AdvancedPolled
<1>2. Unfilled(cyc.ok, cyc.asOf, E, doc, updated) \/ Assessed(deals, HistoryRead, cyc.ok, doc, updated)
  <2>1. cyc.ok \in BOOLEAN
    BY DEF TypeInv, TrackingTypeOK, Cycles
  <2> QED
    BY <1>1, <2>1, PollCases DEF Advanced
<1>3. StatusAgrees(doc)
  BY DEF DocInv
<1>4. \A p : QualifyingFills(deals, HistoryRead, doc, p) \subseteq QualifyingFills(deals, DOMAIN deals, doc, p)
  BY DEF QualifyingFills, OpeningDeals, DealsOf, HistoryRead
<1>5. \A p \in E : QualifyingFills(deals, HistoryRead, doc, p) # {}
  BY DEF EligiblePositions, FirstLifecycleConsistent
<1> HIDE DEF E
<1>6. CASE updated = doc
  BY <1>6
<1>7. CASE Unfilled(cyc.ok, cyc.asOf, E, doc, updated) /\ updated # doc
  <2>1. updated = [doc EXCEPT !.status = "NOT_FILLED"] /\ doc.matched = NoPosition
    BY <1>7 DEF Unfilled
  <2>2. /\ updated.status = "NOT_FILLED" /\ updated.matched = NoPosition
        /\ updated.side = doc.side /\ updated.signal = doc.signal
    BY <1>1, <2>1 DEF Docs
  <2> HIDE DEF updated
  <2>3. \A p : Concerns(updated, p) => Concerns(doc, p)
    BY <2>1, <2>2 DEF Concerns, QualifyingFills, ValidUntil
  <2>4. updated.status \notin LockHoldingStatuses
    BY <2>2 DEF LockHoldingStatuses
  <2> QED
    BY <2>3, <2>4 DEF Settled, updated
<1>8. CASE Assessed(deals, HistoryRead, cyc.ok, doc, updated) /\ updated # doc
  <2> DEFINE p == updated.matched
  <2>1. cyc.ok /\ p # NoPosition
    BY <1>8 DEF Assessed
  <2>2. p \in Positions
    BY <1>1, <2>1 DEF Polled, Docs
  <2>3. Concerns(doc, p)
    BY <1>1, <1>4, <1>5, <2>1 DEF Polled, Concerns
  <2>4. Over(p)
    BY <2>2, <2>3 DEF Settled
  <2>5. FullyClosed(deals, HistoryRead, p) /\ ~LifecycleBlocked(deals, HistoryRead, p)
    BY <2>1, <2>2, <2>4, OverIsClosed
  <2>6. updated.status \in ClosedStatuses
    BY <1>8, <2>1, <2>5 DEF Assessed
  <2> HIDE DEF updated
  <2>7. updated.status \notin LockHoldingStatuses
    BY <2>6 DEF ClosedStatuses, LockHoldingStatuses
  <2>8. \A q : Concerns(updated, q) => q = p
    BY <2>1 DEF Concerns
  <2> QED
    BY <2>4, <2>7, <2>8 DEF Settled, updated
<1> QED
  BY <1>2, <1>6, <1>7, <1>8

-----------------------------------------------------------------------------
(* Every step keeps the invariant.                                          *)

\* A deal of the broker is too late for a document given up, and is not of a
\* position that is over.
LEMMA NettingBroker ==
    ASSUME TypeInv, DocInv, NettingInv, Broker, BrokerNets \/ ~CloseBys
    PROVE  NettingInv'
<1>1. PICK d \in Deals :
          /\ deals' = Append(deals, d) /\ UNCHANGED <<now, docs, cyc>>
          /\ d.time = now /\ now < MaxTime /\ d.entry # "OUT_BY"
          /\ Fits(d)
  BY BrokerStep, FlagsAssumption
<1>2. /\ BookInv'
      /\ \A p \in Positions \ {d.pos} : Exposure(p)' = Exposure(p) /\ Booked(p)' = Booked(p)
  BY <1>1, FittingDeal DEF NettingInv, DocInv
<1> DEFINE n == Len(deals) + 1
<1>3. /\ DOMAIN deals' = DOMAIN deals \cup {n}
      /\ \A i \in DOMAIN deals : deals'[i] = deals[i]
      /\ deals'[n] = d
  BY <1>1, AppendProperties DEF TypeInv, TrackingTypeOK
<1> HIDE DEF n
<1>4. ASSUME NEW p \in Positions, Over(p)
      PROVE  Over(p)'
  <2>1. p # d.pos
    BY <1>1, <1>4 DEF Over, Fits
  <2>2. Exposure(p)' = Exposure(p) /\ Booked(p)' = Booked(p)
    BY <1>2, <2>1
  <2>3. \A i \in Booked(p) : deals'[i] = deals[i]
    BY <1>3 DEF Booked, DealsOf
  <2> QED
    BY <1>1, <1>4, <2>2, <2>3 DEF Over
<1>5. ASSUME NEW t \in Tracked, Settled(docs[t])
      PROVE  Settled(docs[t])'
  <2>1. docs'[t] = docs[t] /\ docs[t] \in Docs
    BY <1>1, NumberTypes
  <2>2. docs[t].matched = NoPosition => ValidUntil(docs[t]) < now
    <3>1. docs[t].matched = NoPosition => docs[t].status = "NOT_FILLED"
      BY <1>5 DEF DocInv, StatusAgrees, Settled, LockHoldingStatuses
    <3> QED
      BY <1>1, <3>1, NumberTypes DEF DocInv, Late
  <2>3. ASSUME NEW p \in Positions, docs[t].matched = NoPosition,
               NEW i \in QualifyingFills(deals', DOMAIN deals', docs[t], p)
        PROVE  i \in QualifyingFills(deals, DOMAIN deals, docs[t], p)
    <3>1. i # n
      BY <1>1, <1>3, <2>2, <2>3, NumberTypes DEF QualifyingFills
    <3> QED
      BY <1>3, <2>3, <3>1 DEF QualifyingFills, OpeningDeals, DealsOf
  <2>4. ASSUME NEW p \in Positions, Concerns(docs[t], p)'
        PROVE  Concerns(docs[t], p)
    BY <2>1, <2>3, <2>4 DEF Concerns
  <2> QED
    BY <1>4, <1>5, <2>1, <2>4 DEF Settled
<1>6. Tracked' = Tracked
  BY <1>1 DEF Tracked
<1>7. SettledInv'
  <2>1. \A t \in Tracked : Settled(docs[t]) => Settled(docs[t])'
    BY <1>5
  <2> QED
    BY <1>6, <2>1 DEF NettingInv, SettledInv
<1>8. PassInv'
  BY <1>1, <1>6 DEF NettingInv, PassInv
<1> QED
  BY <1>2, <1>7, <1>8 DEF NettingInv

\* The clock, and a step that changes nothing.
LEMMA NettingTick ==
    ASSUME TypeInv, NettingInv, Tick \/ UNCHANGED trackingVars
    PROVE  NettingInv'
<1>1. UNCHANGED <<deals, docs, cyc>>
  BY DEF Tick, trackingVars
<1>3. Tracked' = Tracked
  BY <1>1 DEF Tracked
<1>4. BookInv'
  <2>1. \A p : Size(p)' = Size(p)
    BY <1>1 DEF Size, Exposure, Booked
  <2> QED
    BY <1>1, <2>1 DEF NettingInv, BookInv
<1>6. PassInv'
  BY <1>1, <1>3 DEF NettingInv, PassInv
<1>7. SettledInv'
  <2>1. \A p : Over(p)' <=> Over(p)
    BY <1>1 DEF Over, Exposure, Booked
  <2>2. \A t : Settled(docs[t])' <=> Settled(docs[t])
    BY <1>1, <2>1 DEF Settled, Concerns
  <2> QED
    BY <1>3, <2>2 DEF NettingInv, SettledInv
<1> QED
  BY <1>4, <1>6, <1>7 DEF NettingInv

\* A cycle that begins or is abandoned, and its one read of the history: the
\* books and the documents stay, and what is over is over for this cycle.
LEMMA NettingRead ==
    ASSUME TypeInv, NettingInv, ~ReadFaults,
           \/ BeginCycle
           \/ AbandonCycle
           \/ \E ok \in BOOLEAN, excluded \in SUBSET Tracked : LoadAndReadHistory(ok, excluded)
    PROVE  NettingInv'
<1>1. UNCHANGED <<deals, docs>>
  BY DEF BeginCycle, AbandonCycle, LoadAndReadHistory
<1>2. Tracked' = Tracked
  BY <1>1 DEF Tracked
<1>3. BookInv'
  <2>1. \A p : Size(p)' = Size(p)
    BY <1>1 DEF Size, Exposure, Booked
  <2> QED
    BY <1>1, <2>1 DEF NettingInv, BookInv
<1>4. \/ cyc'.phase = "begun" /\ cyc'.asOf = now /\ cyc'.unresolved = {}
         /\ (\A i \in DOMAIN deals : deals[i].time < now)
      \/ cyc'.phase = "idle" /\ cyc'.unresolved = {}
      \/ /\ cyc'.phase = "advancing" /\ cyc.phase = "begun" /\ cyc'.asOf = cyc.asOf
         /\ cyc'.todo = Tracked
  <2>1. CASE BeginCycle
    <3>1. cyc' = [NoCycle EXCEPT !.phase = "begun", !.asOf = now]
          /\ \A i \in DOMAIN deals : deals[i].time < now
      BY <2>1 DEF BeginCycle
    <3>2. cyc'.phase = "begun" /\ cyc'.asOf = now /\ cyc'.unresolved = {}
      BY <3>1 DEF NoCycle
    <3> QED
      BY <3>1, <3>2
  <2>2. CASE AbandonCycle
    BY <2>2 DEF AbandonCycle, NoCycle
  <2>3. ASSUME NEW ok \in BOOLEAN, NEW excluded \in SUBSET Tracked, LoadAndReadHistory(ok, excluded)
        PROVE  /\ cyc'.phase = "advancing" /\ cyc.phase = "begun" /\ cyc'.asOf = cyc.asOf
               /\ cyc'.todo = Tracked
    <3>1. excluded = {}
      BY <2>3 DEF LoadAndReadHistory
    <3>2. PICK s \in Times :
              cyc' = [cyc EXCEPT !.phase = "advancing", !.ok = ok, !.start = s,
                                 !.todo = Tracked \ excluded, !.claimed = ClaimedBy(Tracked \ excluded)]
      BY <2>3 DEF LoadAndReadHistory
    <3>3. cyc.phase = "begun"
      BY <2>3 DEF LoadAndReadHistory
    <3> QED
      BY <3>1, <3>2, <3>3 DEF TypeInv, TrackingTypeOK, Cycles
  <2> QED
    BY <2>1, <2>2, <2>3
<1>6. PassInv'
  BY <1>2, <1>4 DEF NettingInv, PassInv
<1>7. SettledInv'
  <2>1. ASSUME NEW p \in Positions, Over(p)
        PROVE  Over(p)'
    <3>1. Exposure(p)' = Exposure(p) /\ Booked(p)' = Booked(p)
      BY <1>1 DEF Exposure, Booked
    <3>2. \A i \in Booked(p) : i \in DOMAIN deals
      BY DEF Booked, DealsOf
    <3>3. cyc'.phase # "idle" => \A i \in Booked(p) : deals[i].time <= cyc'.asOf
      BY <1>4, <2>1, <3>2, NumberTypes DEF Over
    <3> QED
      BY <1>1, <2>1, <3>1, <3>3 DEF Over
  <2>2. \A t : Settled(docs[t]) => Settled(docs[t])'
    BY <1>1, <2>1 DEF Settled, Concerns
  <2> QED
    BY <1>2, <2>2 DEF NettingInv, SettledInv
<1> QED
  BY <1>3, <1>6, <1>7 DEF NettingInv

\* One poll.
LEMMA NettingPoll ==
    ASSUME TypeInv, DocInv, NettingInv, ~WriteFaults, NEW t \in Trades, NEW written \in BOOLEAN,
           AdvanceTrade(t, written)
    PROVE  NettingInv'
<1>1. /\ t \in Tracked /\ t \in cyc.todo
      /\ UNCHANGED <<now, deals>>
      /\ cyc.phase = "advancing"
      /\ cyc'.phase = cyc.phase /\ cyc'.asOf = cyc.asOf /\ cyc'.todo = cyc.todo \ {t}
      /\ cyc'.unresolved = cyc.unresolved \cup {u \in {t} : Advanced(t).status \in LockHoldingStatuses}
      /\ docs' = [docs EXCEPT ![t] = Advanced(t)]
  BY DEF AdvanceTrade, TypeInv, TrackingTypeOK, Cycles
<1>2. docs'[t] = Advanced(t) /\ \A u \in Tracked \ {t} : docs'[u] = docs[u]
  BY <1>1 DEF TypeInv, TrackingTypeOK, Tracked
<1>3. Tracked' = Tracked
  BY <1>1, AdvancedPolled, NoDocAssumption DEF Polled, Tracked, TypeInv, TrackingTypeOK
<1>4. BookInv'
  <2>1. \A p : Size(p)' = Size(p)
    BY <1>1 DEF Size, Exposure, Booked
  <2> QED
    BY <1>1, <2>1 DEF NettingInv, BookInv
<1>7. PassInv'
  BY <1>1, <1>2, <1>3 DEF NettingInv, PassInv
<1>8. SettledInv'
  <2>1. \A p : Over(p)' <=> Over(p)
    BY <1>1 DEF Over, Exposure, Booked
  <2>2. \A u : Settled(docs[u])' <=> Settled(docs'[u])
    BY <1>1, <2>1 DEF Settled, Concerns
  <2>3. \A u \in Tracked : Settled(docs[u]) => Settled(docs'[u])
    BY <1>1, <1>2, SettledPoll DEF NettingInv
  <2> QED
    BY <1>3, <2>2, <2>3 DEF NettingInv, SettledInv
<1> QED
  BY <1>4, <1>7, <1>8 DEF NettingInv

\* The guard: a document is only issued when every other is settled.
LEMMA NettingIssue ==
    ASSUME TypeInv, GenesisInv, NettingInv, GuardMode # "HEDGING",
           NEW positionsOk \in BOOLEAN, NEW actionable \in FreshTrades, NEW side \in RecSides,
           NEW written \in SUBSET actionable,
           FinishCycle(positionsOk, actionable, side, written)
    PROVE  NettingInv'
<1>1. /\ UNCHANGED <<now, deals>>
      /\ cyc'.phase = "idle" /\ cyc'.unresolved = {}
      /\ cyc.phase = "advancing" /\ cyc.todo = {}
  BY DEF FinishCycle, NoCycle
<1>2. BookInv'
  <2>1. \A p : Size(p)' = Size(p)
    BY <1>1 DEF Size, Exposure, Booked
  <2> QED
    BY <1>1, <2>1 DEF NettingInv, BookInv
<1>3. PassInv'
  BY <1>1 DEF PassInv
<1>4. NewDoc(side).matched = NoPosition /\ NewDoc(side).status = "PENDING"
  BY DEF NewDoc
<1>5. \A t \in Tracked' : (t \in Tracked /\ docs'[t] = docs[t]) \/ (t \in written /\ docs'[t] = NewDoc(side))
  <2>1. docs' = docs \/ docs' = [t \in Trades |-> IF t \in written THEN NewDoc(side) ELSE docs[t]]
    BY FinishCycleType
  <2> QED
    BY <2>1 DEF Tracked
<1>7. ASSUME NEW p \in Positions, Over(p)
      PROVE  Over(p)'
  BY <1>1, <1>7 DEF Over, Exposure, Booked
<1>8. \A t \in Tracked : docs'[t] = docs[t] /\ Settled(docs[t]) => Settled(docs[t])'
  BY <1>1, <1>7 DEF Settled, Concerns
<1>9. CASE docs' = docs
  <2>1. Tracked' = Tracked
    BY <1>9 DEF Tracked
  <2>2. SettledInv'
    BY <1>8, <1>9, <2>1 DEF NettingInv, SettledInv
  <2> QED
    BY <1>2, <1>3, <2>2 DEF NettingInv
<1>10. CASE docs' # docs
  <2>1. /\ OpenPositions = {} /\ cyc.unresolved = {} /\ Cardinality(actionable) = 1
        /\ docs' = [t \in Trades |-> IF t \in written THEN NewDoc(side) ELSE docs[t]]
    BY <1>10 DEF FinishCycle, IssuanceAllowed
  <2>2. \A t, u \in written : t = u
    <3>1. IsFiniteSet(actionable)
      BY TradesAssumption, FS_Subset DEF FreshTrades
    <3>2. \A t, u \in actionable : t = u
      <4> SUFFICES ASSUME NEW t \in actionable, NEW u \in actionable, t # u PROVE FALSE
        OBVIOUS
      <4>1. Cardinality(actionable \ {t}) = 0
        BY <2>1, <3>1, FS_RemoveElement
      <4>2. actionable \ {t} = {}
        <5>1. IsFiniteSet(actionable \ {t})
          BY <3>1, FS_Subset
        <5> QED
          BY <4>1, <5>1, FS_EmptySet
      <4> QED
        BY <4>2
    <3> QED
      BY <3>2
  <2>3. ASSUME NEW t \in Tracked, docs'[t] = docs[t]
        PROVE  Settled(docs[t])'
    <3>1. docs[t].status \notin LockHoldingStatuses
      BY <1>1, <2>1 DEF NettingInv, PassInv
    <3>2. ASSUME NEW p \in Positions, Concerns(docs[t], p)
          PROVE  Over(p)'
      <4>1. Booked(p) # {}
        <5>1. CASE docs[t].matched = NoPosition
          BY <3>2, <5>1 DEF Concerns, QualifyingFills, OpeningDeals, Booked
        <5>2. CASE docs[t].matched # NoPosition
          <6>1. docs[t].matched = p
            BY <3>2, <5>2 DEF Concerns
          <6>2. PICK g \in DOMAIN deals : FillOf(t, g)
            BY <5>2 DEF GenesisInv, Owner
          <6>3. g \in Booked(p)
            BY <6>1, <6>2 DEF FillOf, Owner, Booked, DealsOf
          <6> QED
            BY <6>3
        <5> QED
          BY <5>1, <5>2
      <4>2. Exposure(p) = 0
        BY <2>1 DEF OpenPositions
      <4>3. Booked(p)' = Booked(p) /\ Exposure(p)' = Exposure(p)
        BY <1>1 DEF Booked, Exposure
      <4> QED
        BY <1>1, <4>1, <4>2, <4>3 DEF Over
    <3>3. \A p : Concerns(docs[t], p)' => Concerns(docs[t], p)
      BY <1>1, <2>3 DEF Concerns
    <3> QED
      BY <2>3, <3>1, <3>2, <3>3 DEF Settled
  <2>4. SettledInv'
    BY <1>5, <2>2, <2>3 DEF SettledInv
  <2> QED
    BY <1>2, <1>3, <2>4 DEF NettingInv
<1> QED
  BY <1>9, <1>10

\* Every step of the broker and of a cycle keeps the invariant.
LEMMA NettingNext ==
    ASSUME TypeInv, DocInv, GenesisInv, NettingInv, [TrackingNext]_trackingVars,
           GuardMode # "HEDGING", BrokerNets \/ ~CloseBys, ~ReadFaults, ~WriteFaults
    PROVE  NettingInv'
BY NettingBroker, NettingTick, NettingRead, NettingPoll, NettingIssue DEF TrackingNext, Cycle

\* On an account that is not HEDGING the lock holds: at most one
\* recommendation is PENDING or OPEN at any time, over any number of cycles,
\* failed history reads and crashes, as long as every tracking document can be
\* read and written and no position is closed by an opposite one.  A document
\* given up as NOT_FILLED is polled again and may still be matched: then its
\* position is already over, and the same poll closes it.
THEOREM NettingLockHolds ==
    ASSUME GuardMode # "HEDGING", BrokerNets \/ ~CloseBys, ~ReadFaults, ~WriteFaults
    PROVE  TrackingSpec => []OneUnresolved
<1>1. NettingInv => OneUnresolved
  BY DEF NettingInv, SettledInv, Settled, OneUnresolved
<1>2. /\ TypeInv /\ DocInv /\ GenesisInv /\ NettingInv /\ [TrackingNext]_trackingVars
      => (TypeInv /\ DocInv /\ GenesisInv /\ NettingInv)'
  BY TypeNext, DocNext, GenesisNext, NettingNext
<1> QED
  BY <1>1, <1>2, TypeInit, DocInit, GenesisInit, NettingInit, PTL DEF TrackingSpec

-----------------------------------------------------------------------------
(* NOT_FILLED.  What a cycle excludes as claimed is owned on disk: with     *)
(* that, a document is given up only when each of its candidates belongs to *)
(* another one, and no later deal adds a candidate.                         *)

ClaimsAreOwned ==
    cyc.phase = "advancing" => \A p \in cyc.claimed : \E u \in Tracked : Owner(u) = p

NotFilledInv == NotFilledIsTrue /\ ClaimsAreOwned

\* No document and no claim at first.
LEMMA NotFilledInit == TrackingInit => NotFilledInv
BY DEF TrackingInit, NotFilledInv, NotFilledIsTrue, ClaimsAreOwned, Tracked, NoCycle

\* A poll that gives a document up sees every candidate, and finds it claimed.
LEMMA GivenUp ==
    ASSUME TypeInv, DocInv, GenesisInv, NotFilledInv,
           NEW t \in Tracked, t \in cyc.todo, cyc.phase = "advancing",
           Advanced(t).status = "NOT_FILLED",
           NEW p \in Positions \ Advanced(t).pre,
           FirstLifecycleConsistent(deals, DOMAIN deals, Advanced(t), p)
    PROVE  \E u \in Tracked \ {t} : Owner(u) = p
<1> DEFINE doc == docs[t]
           updated == Advanced(t)
           E == EligiblePositions(deals, HistoryRead, docs[t], cyc.claimed \ {docs[t].matched})
<1>1. doc \in Docs /\ E \subseteq Positions
  BY AdvancedPolled
<1>2. Unfilled(cyc.ok, cyc.asOf, E, doc, updated) \/ Assessed(deals, HistoryRead, cyc.ok, doc, updated)
  BY <1>1, NumberTypes, PollCases DEF Advanced
<1>3. CASE updated = doc
  BY <1>3 DEF NotFilledInv, NotFilledIsTrue
<1>4. CASE updated # doc
  <2>1. Unfilled(cyc.ok, cyc.asOf, E, doc, updated)
    BY <1>2, <1>4 DEF Assessed, ClosedStatuses
  <2>2. /\ doc.matched = NoPosition /\ cyc.ok /\ cyc.asOf >= ValidUntil(doc) /\ E = {}
        /\ updated = [doc EXCEPT !.status = "NOT_FILLED"]
    BY <1>4, <2>1 DEF Unfilled
  <2>3. updated.side = doc.side /\ updated.signal = doc.signal /\ updated.pre = doc.pre
    BY <1>1, <2>2 DEF Docs
  <2>4. PICK g \in QualifyingFills(deals, DOMAIN deals, doc, p) :
            \A i \in DealsOf(deals, DOMAIN deals, p) : deals[g].time <= deals[i].time
    BY <2>3 DEF FirstLifecycleConsistent, QualifyingFills, ValidUntil
  <2>5. /\ g \in DOMAIN deals /\ deals[g].pos = p /\ deals[g].entry = "IN" /\ deals[g].side = doc.side
        /\ doc.signal <= deals[g].time /\ deals[g].time <= ValidUntil(doc)
    BY <2>4 DEF QualifyingFills, OpeningDeals, DealsOf
  <2>6. g \in HistoryRead
    <3>1. cyc.start <= doc.signal
      BY DEF GenesisInv
    <3> QED
      BY <2>2, <2>5, <3>1, NumberTypes DEF HistoryRead
  <2>7. FirstLifecycleConsistent(deals, HistoryRead, doc, p)
    <3>1. g \in QualifyingFills(deals, HistoryRead, doc, p)
      BY <2>5, <2>6 DEF QualifyingFills, OpeningDeals, DealsOf
    <3>2. DealsOf(deals, HistoryRead, p) \subseteq DealsOf(deals, DOMAIN deals, p)
      BY DEF DealsOf, HistoryRead
    <3> QED
      BY <2>4, <3>1, <3>2 DEF FirstLifecycleConsistent
  <2>8. p \in cyc.claimed
    BY <2>2, <2>3, <2>5, <2>6, <2>7 DEF EligiblePositions
  <2>9. PICK u \in Tracked : Owner(u) = p
    BY <2>8 DEF NotFilledInv, ClaimsAreOwned
  <2>10. u # t
    BY <2>2, <2>9, PositionsAssumption DEF Owner
  <2> QED
    BY <2>9, <2>10
<1> QED
  BY <1>3, <1>4

\* Every step keeps it: owners stay, and a later deal is too late.
LEMMA NotFilledNext ==
    ASSUME TypeInv, DocInv, GenesisInv, NotFilledInv, ~WriteFaults, [TrackingNext]_trackingVars
    PROVE  NotFilledInv'
<1>1. \A u \in Tracked : u \in Tracked' /\ (Owner(u) # NoPosition => docs'[u].matched = Owner(u))
  BY DocStep DEF Tracked, Owner
<1>2. ASSUME NEW t \in Tracked', docs'[t].status = "NOT_FILLED",
             NEW p \in Positions \ docs'[t].pre,
             FirstLifecycleConsistent(deals', DOMAIN deals', docs'[t], p)
      PROVE  \E u \in Tracked' \ {t} : docs'[u].matched = p
  <2>1. CASE t \in Tracked /\ docs'[t] = Advanced(t) /\ AdvanceTrade(t, TRUE)
    <3>1. deals' = deals /\ t \in cyc.todo /\ cyc.phase = "advancing"
      BY <2>1 DEF AdvanceTrade
    <3>2. PICK u \in Tracked \ {t} : Owner(u) = p
      BY <1>2, <2>1, <3>1, GivenUp
    <3> QED
      BY <1>1, <3>2, PositionsAssumption
  <2>2. CASE t \in Tracked /\ docs'[t] = docs[t]
    <3>1. FirstLifecycleConsistent(deals, DOMAIN deals, docs[t], p)
      <4>1. CASE Broker
        <5>1. PICK d \in Deals : deals' = Append(deals, d) /\ d.time = now /\ now < MaxTime
          BY <4>1, BrokerStep
        <5> DEFINE n == Len(deals) + 1
        <5>2. /\ DOMAIN deals' = DOMAIN deals \cup {n}
              /\ \A i \in DOMAIN deals : deals'[i] = deals[i]
              /\ deals'[n] = d
          BY <5>1, AppendProperties DEF TypeInv, TrackingTypeOK
        <5> HIDE DEF n
        <5>3. PICK g \in QualifyingFills(deals', DOMAIN deals', docs[t], p) :
                  \A i \in DealsOf(deals', DOMAIN deals', p) : deals'[g].time <= deals'[i].time
          BY <1>2, <2>2 DEF FirstLifecycleConsistent
        <5>4. ValidUntil(docs[t]) < now
          BY <1>2, <2>2, <5>1, NumberTypes DEF DocInv, Late
        <5>5. g # n
          BY <2>2, <5>1, <5>2, <5>3, <5>4, NumberTypes DEF QualifyingFills
        <5>6. g \in QualifyingFills(deals, DOMAIN deals, docs[t], p)
          BY <5>2, <5>3, <5>5 DEF QualifyingFills, OpeningDeals, DealsOf
        <5>7. \A i \in DealsOf(deals, DOMAIN deals, p) : deals[g].time <= deals[i].time
          BY <5>2, <5>3, <5>6 DEF DealsOf, QualifyingFills, OpeningDeals
        <5> QED
          BY <5>6, <5>7 DEF FirstLifecycleConsistent
      <4>2. CASE ~Broker
        <5>1. deals' = deals
          BY <4>2 DEF TrackingNext, Cycle, Tick, BeginCycle, LoadAndReadHistory, AdvanceTrade, FinishCycle,
             AbandonCycle, trackingVars
        <5> QED
          BY <1>2, <2>2, <5>1
      <4> QED
        BY <4>1, <4>2
    <3>2. PICK u \in Tracked \ {t} : Owner(u) = p
      BY <1>2, <2>2, <3>1 DEF NotFilledInv, NotFilledIsTrue
    <3> QED
      BY <1>1, <3>2, PositionsAssumption
  <2>3. \A side : docs'[t] # NewDoc(side)
    BY <1>2 DEF NewDoc
  <2> QED
    BY <2>1, <2>2, <2>3, DocCases
<1>3. ClaimsAreOwned'
  <2>1. ASSUME NEW t \in Trades, NEW written \in BOOLEAN, AdvanceTrade(t, written)
        PROVE  ClaimsAreOwned'
    <3>1. /\ cyc.phase = "advancing" /\ t \in Tracked
          /\ cyc'.claimed = cyc.claimed \cup ({Advanced(t).matched} \ {NoPosition})
          /\ docs'[t] = Advanced(t)
      BY <2>1 DEF AdvanceTrade, TypeInv, TrackingTypeOK, Cycles, Tracked
    <3>2. \A p \in cyc.claimed : p # NoPosition
      BY PositionsAssumption DEF TypeInv, TrackingTypeOK, Cycles
    <3> QED
      BY <1>1, <3>1, <3>2 DEF NotFilledInv, ClaimsAreOwned, Owner
  <2>2. ASSUME NEW ok \in BOOLEAN, NEW excluded \in SUBSET Tracked, LoadAndReadHistory(ok, excluded)
        PROVE  ClaimsAreOwned'
    <3>1. docs' = docs /\ cyc'.claimed = ClaimedBy(Tracked \ excluded)
      BY <2>2 DEF LoadAndReadHistory, TypeInv, TrackingTypeOK, Cycles
    <3> QED
      BY <3>1 DEF ClaimsAreOwned, ClaimedBy, Owner, Tracked
  <2>3. CASE BeginCycle \/ AbandonCycle
             \/ \E positionsOk \in BOOLEAN, actionable \in FreshTrades, side \in RecSides :
                    \E written \in SUBSET actionable : FinishCycle(positionsOk, actionable, side, written)
    <3>1. cyc'.phase # "advancing"
      <4>1. BeginCycle => cyc'.phase = "begun"
        BY DEF BeginCycle, NoCycle
      <4>2. ~BeginCycle => cyc'.phase = "idle"
        BY <2>3 DEF AbandonCycle, FinishCycle, NoCycle
      <4> QED
        BY <4>1, <4>2
    <3> QED
      BY <3>1 DEF ClaimsAreOwned
  <2>4. CASE Broker \/ Tick \/ UNCHANGED trackingVars
    <3>1. UNCHANGED <<docs, cyc>>
      BY <2>4, BrokerBooks DEF Tick, trackingVars
    <3> QED
      BY <3>1 DEF NotFilledInv, ClaimsAreOwned, Owner, Tracked
  <2> QED
    BY <2>1, <2>2, <2>3, <2>4 DEF TrackingNext, Cycle
<1> QED
  BY <1>2, <1>3 DEF NotFilledInv, NotFilledIsTrue, Owner

\* A recommendation is given up as NOT_FILLED only when every position first
\* opened in its direction inside its window was open before it was issued or
\* belongs to another recommendation: whatever reads failed, documents could
\* not be read or cycles stopped, and for ever after.  A failed write breaks
\* it: the claim it leaves in the cycle's memory has no owner on disk.
THEOREM GivenUpForGood ==
    ASSUME ~WriteFaults
    PROVE  TrackingSpec => []NotFilledIsTrue
<1>1. NotFilledInv => NotFilledIsTrue
  BY DEF NotFilledInv
<1>2. /\ TypeInv /\ DocInv /\ GenesisInv /\ NotFilledInv /\ [TrackingNext]_trackingVars
      => (TypeInv /\ DocInv /\ GenesisInv /\ NotFilledInv)'
  BY TypeNext, DocNext, GenesisNext, NotFilledNext
<1> QED
  BY <1>1, <1>2, TypeInit, DocInit, GenesisInit, NotFilledInit, PTL DEF TrackingSpec

-----------------------------------------------------------------------------
(* Closed documents.  On an account whose positions are never turned over,  *)
(* the tracker's net volume of a position is its size.  What a cycle reads  *)
(* is the book up to its as_of, and a position that is closed in it has no  *)
(* deal after it.  A cycle reads all of that of an owned position, if the   *)
(* position is not older than the signal: a document is then closed only    *)
(* over, on the whole of what the broker booked, and polled again to the    *)
(* same end.                                                                *)

ReadUpTo == {i \in DOMAIN deals : deals[i].time <= cyc.asOf}

BalanceInv ==
    /\ \A p \in Positions : NetVolume(deals, DOMAIN deals, p) = Size(p)
    /\ cyc.phase # "idle" =>
           \A p \in Positions :
               DealsOf(deals, ReadUpTo, p) # {} /\ NetVolume(deals, ReadUpTo, p) <= 0 =>
                   DealsOf(deals, ReadUpTo, p) = Booked(p)

Final(doc) ==
    doc.status \in ClosedStatuses =>
        /\ doc.matched # NoPosition /\ Over(doc.matched)
        /\ ~LifecycleBlocked(deals, DOMAIN deals, doc.matched)
        /\ doc.status = TerminalStatus(Profit(deals, Booked(doc.matched)))

FinalInv == \A t \in Tracked : Final(docs[t])

\* All deals are of some time, so the net volume is that of all of them.
LEMMA WholeNet ==
    ASSUME NEW ds \in Seq(Deals), NEW p
    PROVE  NetVolume(ds, DOMAIN ds, p) = NetIn(ds, p, 0)
<1>1. \A i \in DOMAIN ds : ds[i] \in Deals
  OBVIOUS
<1>2. \A n \in Times : 0 <= n
  BY TimeAssumption DEF Times
<1>3. {i \in DOMAIN ds : 0 <= ds[i].time} = DOMAIN ds
  BY <1>1, <1>2, DealType
<1>4. Ins(ds, p, 0) = OpeningDeals(ds, DOMAIN ds, p)
      /\ Outs(ds, p, 0) = DealsOf(ds, DOMAIN ds, p) \ OpeningDeals(ds, DOMAIN ds, p)
  BY <1>3, Zenon DEF Ins, Outs
<1>5. /\ Volume(ds, Ins(ds, p, 0)) = Volume(ds, OpeningDeals(ds, DOMAIN ds, p))
      /\ Volume(ds, Outs(ds, p, 0))
             = Volume(ds, DealsOf(ds, DOMAIN ds, p) \ OpeningDeals(ds, DOMAIN ds, p))
  BY <1>4, Zenon
<1> QED
  BY <1>5, Zenon DEF NetVolume, NetIn

\* One more deal keeps the balance of its position.
LEMMA BalancedDeal ==
    ASSUME TypeInv, NEW d \in Deals, Fits(d), d.entry # "IN" => d.vol <= Size(d.pos),
           NEW p \in Positions, NetVolume(deals, DOMAIN deals, p) = Size(p),
           deals' = Append(deals, d)
    PROVE  (NetVolume(deals, DOMAIN deals, p) = Size(p))'
<1> DEFINE x == ExposureIn(deals, p)
           y == ExposureIn(deals', p)
           a == NetIn(deals, p, 0)
           b == NetIn(deals', p, 0)
<1>1. deals \in Seq(Deals) /\ deals' \in Seq(Deals)
  BY DEF TypeInv, TrackingTypeOK
<1>2. /\ NetVolume(deals, DOMAIN deals, p) = a
      /\ NetVolume(deals', DOMAIN deals', p) = b
  BY <1>1, WholeNet
<1>3. /\ Size(p) = IF x > 0 THEN x ELSE -x
      /\ Size(p)' = IF y > 0 THEN y ELSE -y
      /\ Exposure(p) = x
  BY DEF Size, Exposure, Booked, ExposureIn, Buys, Sells
<1>4. d.vol \in Nat /\ d.time \in Int /\ 0 <= d.time /\ d.side \in {"BUY", "SELL"}
  <2>1. \A n \in Times : 0 <= n
    BY TimeAssumption DEF Times
  <2>2. d.side \in {"BUY", "SELL"}
    BY DEF Deals, Sides
  <2> QED
    BY <2>1, <2>2, DealType
<1>5. /\ x \in Int /\ a \in Int
      /\ d.pos # p => y = x /\ b = a
      /\ d.pos = p /\ d.side = "BUY" => y = x + d.vol
      /\ d.pos = p /\ d.side = "SELL" => y = x - d.vol
      /\ d.pos = p /\ d.entry = "IN" => b = a + d.vol
      /\ d.pos = p /\ d.entry # "IN" => b = a - d.vol
  BY <1>1, <1>4, OneMoreDeal
<1>6. Booked(p) = {} => x = 0
  BY NoDealsNoSums DEF Booked
<1>7. a = IF x > 0 THEN x ELSE -x
  BY <1>2, <1>3
<1> HIDE DEF x, y, a, b
<1>8. b = IF y > 0 THEN y ELSE -y
  <2>1. CASE d.pos # p
    BY <1>5, <1>7, <2>1
  <2>2. CASE d.pos = p /\ d.entry = "IN"
    <3>1. CASE x > 0
      <4>1. d.side = "BUY"
        BY <1>3, <1>6, <2>2, <3>1 DEF Fits, SideOf
      <4> QED
        BY <1>4, <1>5, <1>7, <2>2, <3>1, <4>1
    <3>2. CASE x = 0
      BY <1>4, <1>5, <1>7, <2>2, <3>2
    <3>3. CASE ~(x > 0) /\ x # 0
      <4>1. d.side = "SELL"
        BY <1>3, <1>6, <2>2, <3>3 DEF Fits, SideOf
      <4> QED
        BY <1>4, <1>5, <1>7, <2>2, <3>3, <4>1, SMTT(30)
    <3> QED
      BY <3>1, <3>2, <3>3
  <2>3. CASE d.pos = p /\ d.entry # "IN"
    <3>1. d.vol <= IF x > 0 THEN x ELSE -x
      BY <1>3, <2>3
    <3>2. CASE x > 0
      <4>1. d.side = "SELL"
        BY <1>3, <2>3, <3>2 DEF Fits, SideOf, Opposite
      <4> QED
        BY <1>4, <1>5, <1>7, <2>3, <3>1, <3>2, <4>1
    <3>3. CASE ~(x > 0)
      <4>1. d.side = "BUY"
        BY <1>3, <2>3, <3>3 DEF Fits, SideOf, Opposite
      <4> QED
        BY <1>4, <1>5, <1>7, <2>3, <3>1, <3>3, <4>1
    <3> QED
      BY <3>2, <3>3
  <2> QED
    BY <2>1, <2>2, <2>3
<1> QED
  BY <1>2, <1>3, <1>8

\* A position whose tracked net volume is used up is flat.
LEMMA BalancedIsFlat ==
    ASSUME NEW p, Exposure(p) \in Int, NetVolume(deals, DOMAIN deals, p) = Size(p),
           NetVolume(deals, DOMAIN deals, p) <= 0
    PROVE  Exposure(p) = 0
BY DEF Size

\* Exposures are numbers.
LEMMA ExposureType == ASSUME TypeInv, NEW p PROVE Exposure(p) \in Int
<1>1. deals \in Seq(Deals) /\ Buys(deals, p) \in SUBSET DOMAIN deals /\ Sells(deals, p) \in SUBSET DOMAIN deals
  BY DEF TypeInv, TrackingTypeOK, Buys, Sells, DealsOf
<1>2. ASSUME NEW d \in Deals PROVE ExposureIn(deals, p) \in Int
  BY <1>1, OneMoreDeal, SMTT(30)
<1>3. ASSUME Deals = {} PROVE ExposureIn(deals, p) \in Int
  <2>1. DOMAIN deals = {}
    BY <1>1, <1>3
  <2>2. ExposureIn(deals, p) = 0
    BY <2>1, NoDealsNoSums DEF DealsOf
  <2> QED
    BY <2>2
<1>4. Exposure(p) = ExposureIn(deals, p)
  BY Exposed
<1> QED
  BY <1>2, <1>3, <1>4

\* g adds up the profits of ds over the subsets of I.
ProfitsUp(g, ds, I) ==
    g = [s \in SUBSET I |-> IF s = {} THEN 0 ELSE ds[Pick(s)].profit + g[s \ {Pick(s)}]]

\* A profit is the sum of the profits of its deals.
LEMMA ProfitIsSum ==
    ASSUME NEW ds, NEW I, IsFiniteSet(I), NEW w, \A i \in I : w[i] = ds[i].profit
    PROVE  Profit(ds, I) = SumOf(w, I)
<1>1. PICK f : SumsUp(f, w, I)
  BY AddsExists
<1>2. \A s \in SUBSET I : s # {} => w[Pick(s)] = ds[Pick(s)].profit
  BY PickIsElement
<1>3. \A g : ProfitsUp(g, ds, I) <=> SumsUp(g, w, I)
  BY <1>2 DEF ProfitsUp, SumsUp
<1> DEFINE h == CHOOSE g : ProfitsUp(g, ds, I)
<1>4. ProfitsUp(h, ds, I)
  BY <1>1, <1>3
<1>5. Profit(ds, I) = h[I]
  BY DEF Profit, MapThenSumSet, MapThenFoldSet, Pick, ProfitsUp
<1>6. Adds(h, w, I)
  <2> HIDE DEF h
  <2>1. SumsUp(h, w, I)
    BY <1>3, <1>4
  <2> QED
    BY <2>1 DEF SumsUp, Adds
<1>7. PICK k : Adds(k, w, I) /\ SumOf(w, I) = k[I]
  BY SumOfAdds
<1>8. h[I] = k[I]
  <2> HIDE DEF h
  <2> QED
    BY <1>6, <1>7, AddsUnique
<1> QED
  BY <1>5, <1>7, <1>8

\* The profit of deals does not change when another deal is booked.
LEMMA ProfitKept ==
    ASSUME NEW ds \in Seq(Deals), NEW d \in Deals, NEW I \in SUBSET DOMAIN ds
    PROVE  Profit(Append(ds, d), I) = Profit(ds, I)
<1> DEFINE w == [i \in I |-> ds[i].profit]
<1>1. \A i \in DOMAIN ds : Append(ds, d)[i] = ds[i]
  BY AppendProperties
<1>2. IsFiniteSet(I)
  <2>1. IsFiniteSet(1 .. Len(ds)) /\ DOMAIN ds = 1 .. Len(ds)
    BY FS_Interval
  <2> QED
    BY <2>1, FS_Subset
<1>3. (\A i \in I : w[i] = ds[i].profit) /\ (\A i \in I : w[i] = Append(ds, d)[i].profit)
  BY <1>1
<1> HIDE DEF w
<1>4. Profit(ds, I) = SumOf(w, I)
  BY <1>2, <1>3, ProfitIsSum
<1>5. Profit(Append(ds, d), I) = SumOf(w, I)
  BY <1>2, <1>3, ProfitIsSum
<1> QED
  BY <1>4, <1>5

\* What the steps other than the broker's do to the book and to as_of.
LEMMA CycleStep ==
    ASSUME TypeInv, [TrackingNext]_trackingVars, ~Broker
    PROVE  /\ UNCHANGED deals
           /\ \/ cyc'.phase = "idle"
              \/ BeginCycle /\ cyc'.asOf = now
              \/ cyc.phase # "idle" /\ cyc'.asOf = cyc.asOf
<1>1. UNCHANGED deals
  BY DEF TrackingNext, Cycle, Tick, BeginCycle, LoadAndReadHistory, AdvanceTrade, FinishCycle, AbandonCycle, trackingVars
<1>2. CASE BeginCycle
  BY <1>1, <1>2 DEF BeginCycle, NoCycle
<1>3. CASE AbandonCycle \/ \E positionsOk \in BOOLEAN, actionable \in FreshTrades, side \in RecSides :
              \E written \in SUBSET actionable : FinishCycle(positionsOk, actionable, side, written)
  BY <1>1, <1>3 DEF AbandonCycle, FinishCycle, NoCycle
<1>4. ASSUME NEW t \in Trades, NEW written \in BOOLEAN, AdvanceTrade(t, written)
      PROVE  cyc.phase # "idle" /\ cyc'.asOf = cyc.asOf
  BY <1>4 DEF AdvanceTrade, TypeInv, TrackingTypeOK, Cycles
<1>5. ASSUME NEW ok \in BOOLEAN, NEW excluded \in SUBSET Tracked, LoadAndReadHistory(ok, excluded)
      PROVE  cyc.phase # "idle" /\ cyc'.asOf = cyc.asOf
  BY <1>5 DEF LoadAndReadHistory, TypeInv, TrackingTypeOK, Cycles
<1>6. CASE Tick \/ UNCHANGED trackingVars
  BY <1>1, <1>6 DEF Tick, trackingVars
<1> QED
  BY <1>1, <1>2, <1>3, <1>4, <1>5, <1>6 DEF TrackingNext, Cycle

\* A deal booked while a cycle runs is none the cycle reads.
LEMMA ReadKept ==
    ASSUME TypeInv, DocInv, cyc.phase # "idle", NEW d \in Deals, deals' = Append(deals, d),
           d.time = now, now < MaxTime, cyc' = cyc, NEW p
    PROVE  /\ DealsOf(deals, ReadUpTo, p)' = DealsOf(deals, ReadUpTo, p)
           /\ NetVolume(deals, ReadUpTo, p)' = NetVolume(deals, ReadUpTo, p)
<1> DEFINE R == ReadUpTo
           In == OpeningDeals(deals, R, p)
           Out == DealsOf(deals, R, p) \ In
<1>1. /\ DOMAIN deals' = DOMAIN deals \cup {Len(deals) + 1}
      /\ \A i \in DOMAIN deals : deals'[i] = deals[i]
      /\ deals'[Len(deals) + 1] = d /\ deals \in Seq(Deals)
  BY AppendProperties DEF TypeInv, TrackingTypeOK
<1>2. ~(d.time <= cyc.asOf)
  BY NumberTypes DEF DocInv
<1>3. ReadUpTo' = R
  BY <1>1, <1>2 DEF ReadUpTo
<1>4. DealsOf(deals', R, p) = DealsOf(deals, R, p) /\ OpeningDeals(deals', R, p) = In
  BY <1>1 DEF ReadUpTo, DealsOf, OpeningDeals
<1>5. In \in SUBSET DOMAIN deals /\ Out \in SUBSET DOMAIN deals
  BY DEF ReadUpTo, DealsOf, OpeningDeals
<1>6. Volume(deals', In) = Volume(deals, In) /\ Volume(deals', Out) = Volume(deals, Out)
  <2> HIDE DEF In, Out
  <2> QED
    BY <1>1, <1>5, VolumeBooked
<1>7. NetVolume(deals', R, p) = Volume(deals', In) - Volume(deals', Out)
  BY <1>4, Zenon DEF NetVolume
<1>8. NetVolume(deals', R, p) = NetVolume(deals, R, p)
  BY <1>6, <1>7, Zenon DEF NetVolume
<1>9. DealsOf(deals, ReadUpTo, p)' = DealsOf(deals', R, p)
      /\ NetVolume(deals, ReadUpTo, p)' = NetVolume(deals', R, p)
  BY <1>3, Zenon
<1> QED
  BY <1>4, <1>8, <1>9

\* A position that is over is booked no more.
LEMMA OverIsBooked ==
    ASSUME NEW p, Booked(p) # {}, Exposure(p) = 0, NEW d \in Deals, Fits(d)
    PROVE  d.pos # p
BY DEF Fits

\* The balance stays.
LEMMA BalanceNext ==
    ASSUME TypeInv, DocInv, BalanceInv, ~Reversals, [TrackingNext]_trackingVars
    PROVE  BalanceInv'
<1>1. CASE Broker
  <2>1. PICK d \in Deals :
            /\ deals' = Append(deals, d) /\ UNCHANGED <<now, docs, cyc>>
            /\ d.time = now /\ now < MaxTime
            /\ d.entry # "IN" => d.vol <= Size(d.pos)
            /\ Fits(d)
    BY <1>1, BrokerStep
  <2>2. \A p \in Positions : (NetVolume(deals, DOMAIN deals, p) = Size(p))'
    BY <2>1, BalancedDeal DEF BalanceInv
  <2>3. ASSUME cyc'.phase # "idle", NEW p \in Positions,
               DealsOf(deals, ReadUpTo, p)' # {}, (NetVolume(deals, ReadUpTo, p) <= 0)'
        PROVE  (DealsOf(deals, ReadUpTo, p) = Booked(p))'
    <3>1. /\ DealsOf(deals, ReadUpTo, p)' = DealsOf(deals, ReadUpTo, p)
          /\ NetVolume(deals, ReadUpTo, p)' = NetVolume(deals, ReadUpTo, p)
      BY <2>1, <2>3, ReadKept
    <3>2. DealsOf(deals, ReadUpTo, p) = Booked(p) /\ Booked(p) # {}
      BY <2>1, <2>3, <3>1 DEF BalanceInv
    <3>3. NetVolume(deals, DOMAIN deals, p) <= 0
      <4>1. NetVolume(deals, DOMAIN deals, p) = NetVolume(deals, ReadUpTo, p)
        <5>1. DealsOf(deals, DOMAIN deals, p) = DealsOf(deals, ReadUpTo, p)
              /\ OpeningDeals(deals, DOMAIN deals, p) = OpeningDeals(deals, ReadUpTo, p)
          BY <3>2 DEF Booked, OpeningDeals
        <5> QED
          BY <5>1, Zenon DEF NetVolume
      <4> QED
        BY <2>3, <3>1, <4>1
    <3>4. Exposure(p) = 0
      BY <3>3, BalancedIsFlat, ExposureType DEF BalanceInv
    <3>5. d.pos # p
      BY <2>1, <3>2, <3>4, OverIsBooked
    <3>6. Booked(p)' = Booked(p)
      <4>1. /\ DOMAIN deals' = DOMAIN deals \cup {Len(deals) + 1}
            /\ \A i \in DOMAIN deals : deals'[i] = deals[i]
            /\ deals'[Len(deals) + 1] = d
        BY <2>1, AppendProperties DEF TypeInv, TrackingTypeOK
      <4> QED
        BY <3>5, <4>1 DEF Booked, DealsOf
    <3> QED
      BY <3>1, <3>2, <3>6
  <2> QED
    BY <2>2, <2>3 DEF BalanceInv
<1>2. CASE ~Broker
  <2>1. /\ UNCHANGED deals
        /\ \/ cyc'.phase = "idle"
           \/ BeginCycle /\ cyc'.asOf = now
           \/ cyc.phase # "idle" /\ cyc'.asOf = cyc.asOf
    BY <1>2, CycleStep
  <2>2. \A p \in Positions : (NetVolume(deals, DOMAIN deals, p) = Size(p))'
    <3>1. ASSUME NEW p \in Positions
          PROVE  (NetVolume(deals, DOMAIN deals, p) = Size(p))'
      <4>1. NetVolume(deals', DOMAIN deals', p) = NetVolume(deals, DOMAIN deals, p)
        BY <2>1, Zenon
      <4>2. Size(p)' = Size(p)
        BY <2>1 DEF Size, Exposure, Booked
      <4> QED
        BY <4>1, <4>2 DEF BalanceInv
    <3> QED
      BY <3>1
  <2>3. CASE cyc'.phase = "idle"
    BY <2>2, <2>3 DEF BalanceInv
  <2>4. CASE BeginCycle /\ cyc'.asOf = now
    <3>1. ReadUpTo' = DOMAIN deals
      <4>1. \A i \in DOMAIN deals : deals[i].time < now
        BY <2>4 DEF BeginCycle
      <4>2. \A i \in DOMAIN deals : deals[i].time <= now
        BY <4>1, NumberTypes
      <4> QED
        BY <2>1, <2>4, <4>2 DEF ReadUpTo
    <3>2. \A p \in Positions : (DealsOf(deals, ReadUpTo, p) = Booked(p))'
      BY <2>1, <3>1 DEF Booked
    <3> QED
      BY <2>2, <3>2 DEF BalanceInv
  <2>5. CASE cyc.phase # "idle" /\ cyc'.asOf = cyc.asOf
    <3>1. ReadUpTo' = ReadUpTo
      BY <2>1, <2>5 DEF ReadUpTo
    <3>2. \A p \in Positions :
              /\ DealsOf(deals, ReadUpTo, p)' = DealsOf(deals, ReadUpTo, p)
              /\ NetVolume(deals, ReadUpTo, p)' = NetVolume(deals, ReadUpTo, p)
              /\ Booked(p)' = Booked(p)
      <4>1. ASSUME NEW p \in Positions
            PROVE  /\ DealsOf(deals', ReadUpTo', p) = DealsOf(deals, ReadUpTo, p)
                   /\ NetVolume(deals', ReadUpTo', p) = NetVolume(deals, ReadUpTo, p)
        BY <2>1, <3>1, Zenon
      <4> QED
        BY <2>1, <4>1 DEF Booked
    <3> QED
      BY <2>2, <2>5, <3>2 DEF BalanceInv
  <2> QED
    BY <2>1, <2>3, <2>4, <2>5
<1> QED
  BY <1>1, <1>2

\* No deal, no volume.
LEMMA BalanceInit == TrackingInit => BalanceInv
<1> SUFFICES ASSUME TrackingInit PROVE BalanceInv
  OBVIOUS
<1>1. deals \in Seq(Deals) /\ DOMAIN deals = {} /\ cyc.phase = "idle"
  BY EmptySeq DEF TrackingInit, NoCycle
<1>2. ASSUME NEW p \in Positions
      PROVE  NetVolume(deals, DOMAIN deals, p) = Size(p)
  <2>1. DealsOf(deals, DOMAIN deals, p) = {}
    BY <1>1 DEF DealsOf
  <2>2. ExposureIn(deals, p) = 0 /\ NetIn(deals, p, 0) = 0
    BY <2>1, NoDealsNoSums
  <2>3. Size(p) = 0
    BY <2>2, Exposed, FlatSize
  <2> QED
    BY <1>1, <2>2, <2>3, WholeNet
<1> QED
  BY <1>1, <1>2 DEF BalanceInv

\* Reads that show the same deals of a position say the same of it.
LEMMA SameDeals ==
    ASSUME NEW ds, NEW R, NEW S, NEW p, DealsOf(ds, R, p) = DealsOf(ds, S, p)
    PROVE  /\ NetVolume(ds, R, p) = NetVolume(ds, S, p)
           /\ Profit(ds, DealsOf(ds, R, p)) = Profit(ds, DealsOf(ds, S, p))
           /\ LifecycleBlocked(ds, R, p) <=> LifecycleBlocked(ds, S, p)
<1>1. OpeningDeals(ds, R, p) = OpeningDeals(ds, S, p)
  BY DEF OpeningDeals
<1>2. NetVolume(ds, R, p) = NetVolume(ds, S, p)
  BY <1>1, Zenon DEF NetVolume
<1>3. Profit(ds, DealsOf(ds, R, p)) = Profit(ds, DealsOf(ds, S, p))
  BY Zenon
<1>4. LifecycleBlocked(ds, R, p) <=> LifecycleBlocked(ds, S, p)
  BY DEF LifecycleBlocked
<1> QED
  BY <1>2, <1>3, <1>4

\* The lifecycle step leaves an owned document alone or tells what the read
\* shows of its position.
LEMMA LifecycleResult ==
    ASSUME NEW ds, NEW read, NEW ok \in BOOLEAN, NEW doc \in Docs, doc.matched # NoPosition
    PROVE  LET updated == LifecycleStep(ds, read, ok, doc)
           IN  \/ updated = doc
               \/ /\ ok /\ ~LifecycleBlocked(ds, read, doc.matched)
                  /\ updated.matched = doc.matched
                  /\ updated.status = LifecycleStatus(ds, read, doc.matched)
<1> DEFINE closing == [doc EXCEPT !.status = LifecycleStatus(ds, read, doc.matched)]
<1>1. closing.matched = doc.matched /\ closing.status = LifecycleStatus(ds, read, doc.matched)
  BY DEF Docs
<1>2. \/ LifecycleStep(ds, read, ok, doc) = doc
      \/ /\ ok /\ ~LifecycleBlocked(ds, read, doc.matched)
         /\ LifecycleStep(ds, read, ok, doc) = closing
  BY DEF LifecycleStep
<1> HIDE DEF closing
<1> QED
  BY <1>1, <1>2

\* A poll that closes a document.
ClosedOn(ds, read, ok, updated) ==
    /\ ok /\ updated.matched # NoPosition
    /\ ~LifecycleBlocked(ds, read, updated.matched)
    /\ FullyClosed(ds, read, updated.matched)
    /\ updated.status = TerminalStatus(Profit(ds, DealsOf(ds, read, updated.matched)))

\* A document is closed by what the read shows of its position.
LEMMA PollCloses ==
    ASSUME NEW ds, NEW read, NEW ok \in BOOLEAN, NEW covers, NEW doc \in Docs, NEW claimed,
           EligiblePositions(ds, read, doc, claimed) \subseteq Positions,
           AdvanceTracked(ds, read, ok, covers, doc, claimed).status \in ClosedStatuses
    PROVE  LET updated == AdvanceTracked(ds, read, ok, covers, doc, claimed)
           IN  updated = doc \/ ClosedOn(ds, read, ok, updated)
<1> DEFINE E == EligiblePositions(ds, read, doc, claimed)
           matching == IF doc.matched = NoPosition
                       THEN MatchStep(ds, read, ok, covers, doc, claimed)
                       ELSE doc
           updated == AdvanceTracked(ds, read, ok, covers, doc, claimed)
<1>1. updated = LifecycleStep(ds, read, ok, matching)
  BY DEF AdvanceTracked
<1>2. matching \in Docs /\ (matching = doc \/ matching.status \notin ClosedStatuses)
  <2>1. CASE doc.matched # NoPosition
    BY <2>1
  <2>2. CASE doc.matched = NoPosition
    <3>1. matching \in Docs
      BY <2>2, MatchStepPolled DEF Polled
    <3>2. \/ matching = doc
          \/ matching = [doc EXCEPT !.status = "NOT_FILLED"]
          \/ \E p : matching = [doc EXCEPT !.matched = p, !.status = "OPEN"]
      BY <2>2 DEF MatchStep
    <3>3. [doc EXCEPT !.status = "NOT_FILLED"].status = "NOT_FILLED"
          /\ \A p : [doc EXCEPT !.matched = p, !.status = "OPEN"].status = "OPEN"
      BY DEF Docs
    <3> HIDE DEF matching
    <3>4. matching = doc \/ matching.status \in {"NOT_FILLED", "OPEN"}
      BY <3>2, <3>3
    <3> QED
      BY <3>1, <3>4 DEF ClosedStatuses
  <2> QED
    BY <2>1, <2>2
<1> HIDE DEF matching, updated
<1>3. updated.status \in ClosedStatuses
  BY DEF updated
<1>4. CASE matching.matched = NoPosition
  <2>1. updated = matching
    BY <1>1, <1>4 DEF LifecycleStep
  <2> QED
    BY <1>2, <1>3, <2>1 DEF updated
<1>5. CASE matching.matched # NoPosition
  <2>1. \/ updated = matching
        \/ /\ ok /\ ~LifecycleBlocked(ds, read, matching.matched)
           /\ updated.matched = matching.matched
           /\ updated.status = LifecycleStatus(ds, read, matching.matched)
    BY <1>1, <1>2, <1>5, LifecycleResult
  <2>2. CASE updated = matching
    BY <1>2, <1>3, <2>2 DEF updated
  <2>3. CASE updated # matching
    <3>1. FullyClosed(ds, read, matching.matched)
      BY <1>3, <2>1, <2>3 DEF LifecycleStatus, ClosedStatuses
    <3>2. updated.status = TerminalStatus(Profit(ds, DealsOf(ds, read, matching.matched)))
      BY <2>1, <2>3, <3>1 DEF LifecycleStatus
    <3>3. ClosedOn(ds, read, ok, updated)
      BY <1>5, <2>1, <2>3, <3>1, <3>2 DEF ClosedOn
    <3> QED
      BY <3>3 DEF updated
  <2> QED
    BY <2>2, <2>3
<1> QED
  BY <1>4, <1>5

\* What a cycle reads of a position that is not older than the signal is all
\* that is booked up to its as_of.
LEMMA ReadIsWhole ==
    ASSUME TypeInv, GenesisInv, cyc.phase = "advancing", cyc.ok, NEW t \in Tracked, t \in cyc.todo,
           NEW p, \A i \in Booked(p) : docs[t].signal <= deals[i].time
    PROVE  DealsOf(deals, HistoryRead, p) = DealsOf(deals, ReadUpTo, p)
<1>1. cyc.start <= docs[t].signal /\ cyc.start \in Int /\ docs[t].signal \in Int
  BY NumberTypes DEF GenesisInv
<1>2. \A i \in Booked(p) : deals[i].time \in Int
  BY NumberTypes DEF Booked, DealsOf
<1>3. \A i \in Booked(p) : cyc.start <= deals[i].time
  BY <1>1, <1>2
<1> QED
  BY <1>3 DEF DealsOf, HistoryRead, ReadUpTo, Booked

\* A position that is over stays over, with what was booked of it.
LEMMA OverStays ==
    ASSUME TypeInv, [TrackingNext]_trackingVars, NEW p, Over(p)
    PROVE  /\ Over(p)'
           /\ Profit(deals', Booked(p)') = Profit(deals, Booked(p))
           /\ LifecycleBlocked(deals', DOMAIN deals', p) <=> LifecycleBlocked(deals, DOMAIN deals, p)
<1>1. CASE Broker
  <2>1. PICK d \in Deals :
            deals' = Append(deals, d) /\ UNCHANGED <<now, docs, cyc>> /\ Fits(d)
    BY <1>1, BrokerStep
  <2>2. d.pos # p
    BY <2>1, OverIsBooked DEF Over
  <2>3. /\ deals \in Seq(Deals)
        /\ DOMAIN deals' = DOMAIN deals \cup {Len(deals) + 1}
        /\ \A i \in DOMAIN deals : deals'[i] = deals[i]
        /\ deals'[Len(deals) + 1] = d
    BY <2>1, AppendProperties DEF TypeInv, TrackingTypeOK
  <2>4. Booked(p)' = Booked(p) /\ Booked(p) \in SUBSET DOMAIN deals
    BY <2>2, <2>3 DEF Booked, DealsOf
  <2>5. Exposure(p)' = Exposure(p)
    <3>1. /\ Exposure(p) = ExposureIn(deals, p)
          /\ Exposure(p)' = ExposureIn(deals', p)
      BY DEF Exposure, Booked, ExposureIn, Buys, Sells
    <3>2. \A s \in Int : ExposureIn(deals', p) = ExposureIn(deals, p)
      BY <2>1, <2>2, <2>3, OneMoreDeal
    <3>3. 0 \in Int
      OBVIOUS
    <3> QED
      BY <3>1, <3>2, <3>3, Zenon
  <2>6. Over(p)'
    <3>1. \A i \in Booked(p) : deals'[i] = deals[i]
      BY <2>3, <2>4
    <3> QED
      BY <2>1, <2>4, <2>5, <3>1 DEF Over
  <2>7. Profit(deals', Booked(p)') = Profit(deals, Booked(p))
    <3>1. Profit(deals', Booked(p)') = Profit(deals', Booked(p))
      BY <2>4, Zenon
    <3>2. Profit(deals', Booked(p)) = Profit(deals, Booked(p))
      BY <2>1, <2>3, <2>4, ProfitKept
    <3> QED
      BY <3>1, <3>2
  <2>8. LifecycleBlocked(deals', DOMAIN deals', p) <=> LifecycleBlocked(deals, DOMAIN deals, p)
    BY <2>3, <2>4 DEF LifecycleBlocked, Booked
  <2> QED
    BY <2>6, <2>7, <2>8
<1>2. CASE ~Broker
  <2>1. /\ UNCHANGED deals
        /\ \/ cyc'.phase = "idle"
           \/ BeginCycle /\ cyc'.asOf = now
           \/ cyc.phase # "idle" /\ cyc'.asOf = cyc.asOf
    BY <1>2, CycleStep
  <2>2. Booked(p)' = Booked(p) /\ Exposure(p)' = Exposure(p)
    BY <2>1 DEF Booked, Exposure
  <2>3. cyc'.phase # "idle" => \A i \in Booked(p) : deals[i].time <= cyc'.asOf
    <3>1. BeginCycle => \A i \in DOMAIN deals : deals[i].time < now
      BY DEF BeginCycle
    <3>2. BeginCycle => \A i \in DOMAIN deals : deals[i].time <= now
      BY <3>1, NumberTypes
    <3>3. \A i \in Booked(p) : i \in DOMAIN deals
      BY DEF Booked, DealsOf
    <3> QED
      BY <2>1, <3>2, <3>3 DEF Over
  <2>4. Over(p)'
    BY <2>1, <2>2, <2>3 DEF Over
  <2>5. Profit(deals', Booked(p)') = Profit(deals, Booked(p))
    BY <2>1, <2>2, Zenon
  <2>6. LifecycleBlocked(deals', DOMAIN deals', p) <=> LifecycleBlocked(deals, DOMAIN deals, p)
    BY <2>1 DEF LifecycleBlocked
  <2> QED
    BY <2>4, <2>5, <2>6
<1> QED
  BY <1>1, <1>2

\* What a document says when a poll closes it.
LEMMA ClosingPoll ==
    ASSUME TypeInv, BalanceInv, GenesisInv, GenesisInv', [TrackingNext]_trackingVars,
           NEW t \in Tracked, AdvanceTrade(t, TRUE), docs'[t] = Advanced(t),
           ClosedOn(deals, HistoryRead, cyc.ok, Advanced(t)),
           \A i \in Booked(Advanced(t).matched) : docs[t].signal <= deals[i].time
    PROVE  Final(docs[t])'
<1>0. PICK p : p = Advanced(t).matched
  OBVIOUS
<1>1. /\ cyc.phase = "advancing" /\ t \in cyc.todo /\ deals' = deals
      /\ cyc'.phase = cyc.phase /\ cyc'.asOf = cyc.asOf
  BY DEF AdvanceTrade, TypeInv, TrackingTypeOK, Cycles
<1>2. /\ cyc.ok /\ p # NoPosition
      /\ ~LifecycleBlocked(deals, HistoryRead, p)
      /\ NetVolume(deals, HistoryRead, p) <= 0
      /\ Advanced(t).status = TerminalStatus(Profit(deals, DealsOf(deals, HistoryRead, p)))
  BY <1>0 DEF ClosedOn, FullyClosed
<1>3. p \in Positions
  BY <1>0, <1>2, AdvancedPolled DEF Polled, Docs
<1>4. DealsOf(deals, HistoryRead, p) = DealsOf(deals, ReadUpTo, p)
  BY <1>0, <1>1, <1>2, ReadIsWhole
<1>5. DealsOf(deals, ReadUpTo, p) # {}
  <2>1. t \in Tracked'
    BY AdvancedPolled, NoDocAssumption DEF Polled, Tracked
  <2>2. PICK g \in DOMAIN deals' : FillOf(t, g)'
    BY <1>0, <1>2, <2>1 DEF GenesisInv, Owner
  <2>3. g \in DOMAIN deals /\ deals[g].pos = p /\ deals[g].time <= cyc.asOf
    BY <1>0, <1>1, <2>2 DEF FillOf, Owner
  <2> QED
    BY <2>3 DEF DealsOf, ReadUpTo
<1>6. NetVolume(deals, ReadUpTo, p) <= 0
  BY <1>2, <1>4, SameDeals
<1>7. DealsOf(deals, ReadUpTo, p) = Booked(p)
  BY <1>1, <1>3, <1>5, <1>6 DEF BalanceInv
<1>8. DealsOf(deals, HistoryRead, p) = DealsOf(deals, DOMAIN deals, p)
  BY <1>4, <1>7 DEF Booked
<1>9. Exposure(p) = 0
  <2>1. NetVolume(deals, DOMAIN deals, p) <= 0
    BY <1>2, <1>8, SameDeals
  <2> QED
    BY <1>3, <2>1, BalancedIsFlat, ExposureType DEF BalanceInv
<1>10. Over(p)
  BY <1>5, <1>7, <1>9 DEF Over, ReadUpTo, DealsOf
<1>11. ~LifecycleBlocked(deals, DOMAIN deals, p)
  BY <1>2, <1>8, SameDeals
<1>12. Advanced(t).status = TerminalStatus(Profit(deals, Booked(p)))
  <2>1. Profit(deals, DealsOf(deals, HistoryRead, p)) = Profit(deals, Booked(p))
    BY <1>8, Zenon DEF Booked
  <2> QED
    BY <1>2, <2>1
<1>13. /\ Over(p)' /\ Profit(deals', Booked(p)') = Profit(deals, Booked(p))
       /\ LifecycleBlocked(deals', DOMAIN deals', p) <=> LifecycleBlocked(deals, DOMAIN deals, p)
  BY <1>10, OverStays
<1>14. docs'[t].matched = p /\ docs'[t].status = Advanced(t).status
  BY <1>0
<1>15. Booked(docs[t].matched)' = Booked(p)'
  BY <1>14 DEF Booked
<1>16. Profit(deals', Booked(docs[t].matched)') = Profit(deals', Booked(p)')
  BY <1>15, Zenon
<1> QED
  BY <1>2, <1>11, <1>12, <1>13, <1>14, <1>16 DEF Final

\* Every step keeps what a closed document says.
LEMMA FinalNext ==
    ASSUME TypeInv, BalanceInv, GenesisInv, GenesisInv', FinalInv, OwnedPositionIsFresh',
           [TrackingNext]_trackingVars
    PROVE  FinalInv'
<1> SUFFICES ASSUME NEW t \in Tracked', docs'[t].status \in ClosedStatuses
             PROVE  Final(docs[t])'
  BY DEF FinalInv, Final
<1>1. ASSUME t \in Tracked, docs'[t] = docs[t]
      PROVE  Final(docs[t])'
  <2>1. PICK p : p = docs[t].matched
    OBVIOUS
  <2>2. /\ p # NoPosition /\ Over(p)
        /\ ~LifecycleBlocked(deals, DOMAIN deals, p)
        /\ docs[t].status = TerminalStatus(Profit(deals, Booked(p)))
    BY <1>1, <2>1 DEF FinalInv, Final
  <2>3. /\ Over(p)' /\ Profit(deals', Booked(p)') = Profit(deals, Booked(p))
        /\ LifecycleBlocked(deals', DOMAIN deals', p) <=> LifecycleBlocked(deals, DOMAIN deals, p)
    BY <2>2, OverStays
  <2>4. docs'[t].matched = p /\ docs'[t].status = docs[t].status
    BY <1>1, <2>1
  <2>5. Booked(docs[t].matched)' = Booked(p)'
    BY <2>4 DEF Booked
  <2>6. Profit(deals', Booked(docs[t].matched)') = Profit(deals', Booked(p)')
    BY <2>5, Zenon
  <2> QED
    BY <2>2, <2>3, <2>4, <2>6 DEF Final
<1>2. ASSUME t \in Tracked, docs'[t] = Advanced(t), AdvanceTrade(t, TRUE)
      PROVE  Final(docs[t])'
  <2>1. Advanced(t) = docs[t] \/ ClosedOn(deals, HistoryRead, cyc.ok, Advanced(t))
    BY <1>2, AdvancedPolled, NumberTypes, PollCloses DEF Advanced
  <2>2. CASE Advanced(t) = docs[t]
    BY <1>1, <1>2, <2>2
  <2>3. CASE ClosedOn(deals, HistoryRead, cyc.ok, Advanced(t))
    <3>1. Advanced(t).matched # NoPosition /\ docs'[t].signal = docs[t].signal
      BY <1>2, <2>3, DocStep DEF ClosedOn
    <3>2. deals' = deals
      BY <1>2 DEF AdvanceTrade
    <3>3. \A i \in Booked(Advanced(t).matched) : deals[i].time >= docs[t].signal
      BY <1>2, <3>1, <3>2 DEF OwnedPositionIsFresh, Owner, Booked
    <3>4. \A i \in Booked(Advanced(t).matched) : docs[t].signal <= deals[i].time
      BY <1>2, <3>3, NumberTypes DEF Booked, DealsOf
    <3> QED
      BY <1>2, <2>3, <3>4, ClosingPoll
  <2> QED
    BY <2>1, <2>2, <2>3
<1>3. \A side : docs'[t] # NewDoc(side)
  BY DEF NewDoc, ClosedStatuses
<1> QED
  BY <1>1, <1>2, <1>3, DocCases

\* No document at first.
LEMMA FinalInit == TrackingInit => FinalInv
BY DEF TrackingInit, FinalInv, Tracked

\* A closed document is polled again to the same end.
LEMMA ClosedPolledAgain ==
    ASSUME TypeInv, BalanceInv, GenesisInv, FinalInv, OwnedPositionIsFresh,
           NEW t \in Trades, docs[t] # NoDoc, docs[t].status \in ClosedStatuses,
           cyc.phase = "advancing", t \in cyc.todo
    PROVE  Advanced(t).status = docs[t].status
<1> DEFINE p == docs[t].matched
<1>1. t \in Tracked /\ docs[t] \in Docs
  BY AdvancedPolled DEF Tracked
<1>2. /\ p # NoPosition /\ Over(p)
      /\ docs[t].status = TerminalStatus(Profit(deals, Booked(p)))
  BY <1>1 DEF FinalInv, Final
<1>3. p \in Positions
  BY <1>1, <1>2 DEF Docs
<1>4. Advanced(t) = LifecycleStep(deals, HistoryRead, cyc.ok, docs[t])
  BY <1>2 DEF Advanced, AdvanceTracked
<1>5. \/ Advanced(t) = docs[t]
      \/ cyc.ok /\ Advanced(t).status = LifecycleStatus(deals, HistoryRead, p)
  BY <1>1, <1>2, <1>4, NumberTypes, LifecycleResult
<1>6. CASE cyc.ok /\ Advanced(t).status = LifecycleStatus(deals, HistoryRead, p)
  <2>1. \A i \in Booked(p) : docs[t].signal <= deals[i].time
    <3>1. \A i \in Booked(p) : deals[i].time >= docs[t].signal
      BY <1>1, <1>2 DEF OwnedPositionIsFresh, Owner
    <3> QED
      BY <1>1, <3>1, NumberTypes DEF Booked, DealsOf
  <2>2. DealsOf(deals, HistoryRead, p) = DealsOf(deals, ReadUpTo, p)
    BY <1>1, <1>6, <2>1, ReadIsWhole
  <2>3. DealsOf(deals, ReadUpTo, p) = Booked(p)
    BY <1>2 DEF Over, ReadUpTo, Booked, DealsOf
  <2>4. DealsOf(deals, HistoryRead, p) = DealsOf(deals, DOMAIN deals, p)
    BY <2>2, <2>3 DEF Booked
  <2>5. NetVolume(deals, HistoryRead, p) = Size(p)
    <3>1. NetVolume(deals, DOMAIN deals, p) = Size(p)
      BY <1>3 DEF BalanceInv
    <3> QED
      BY <2>4, <3>1, SameDeals
  <2>6. FullyClosed(deals, HistoryRead, p)
    <3>1. Size(p) = 0
      BY <1>2, FlatSize DEF Over
    <3> QED
      BY <2>5, <3>1 DEF FullyClosed
  <2>7. Profit(deals, DealsOf(deals, HistoryRead, p)) = Profit(deals, Booked(p))
    BY <2>4, Zenon DEF Booked
  <2> QED
    BY <1>2, <1>6, <2>6, <2>7 DEF LifecycleStatus
<1> QED
  BY <1>5, <1>6

\* A closed document tells the truth about the broker: its position is flat
\* and its status is the sign of what the broker booked, for every history of
\* partial fills, partial closes, failed reads, lost writes and restarts.  On
\* an account that turns positions over it is false, and it needs every owned
\* position to be no older than its document's signal: of an older one the
\* history window may hide deals.
THEOREM ClosedIsFlat ==
    ASSUME ~Reversals
    PROVE  TrackingSpec /\ []OwnedPositionIsFresh => []ClosedMeansFlat
<1>1. FinalInv => ClosedMeansFlat
  BY DEF FinalInv, Final, Over, ClosedMeansFlat, Owner
<1>2. /\ TypeInv /\ DocInv /\ GenesisInv /\ BalanceInv /\ [TrackingNext]_trackingVars
      => (TypeInv /\ DocInv /\ GenesisInv /\ BalanceInv)'
  BY TypeNext, DocNext, GenesisNext, BalanceNext
<1>3. /\ TypeInv /\ DocInv /\ GenesisInv /\ BalanceInv /\ FinalInv /\ [TrackingNext]_trackingVars
      /\ OwnedPositionIsFresh' /\ GenesisInv'
      => FinalInv'
  BY FinalNext
<1> QED
  BY <1>1, <1>2, <1>3, TypeInit, DocInit, GenesisInit, BalanceInit, FinalInit, PTL DEF TrackingSpec

\* A closed document is never revised, under the same two conditions: every
\* later poll reads the whole of its position, and finds it as it was.
THEOREM ClosedStays ==
    ASSUME ~Reversals
    PROVE  TrackingSpec /\ []OwnedPositionIsFresh => ClosedIsFinal
<1>1. ASSUME TypeInv, BalanceInv, GenesisInv, FinalInv, OwnedPositionIsFresh, [TrackingNext]_trackingVars,
             NEW t \in Trades, docs[t] # NoDoc, docs[t].status \in ClosedStatuses
      PROVE  docs'[t] # NoDoc /\ docs'[t].status = docs[t].status
  <2>1. /\ docs'[t] # NoDoc
        /\ docs'[t] = docs[t] \/ (\E written \in BOOLEAN : AdvanceTrade(t, written))
    BY <1>1, DocStep DEF Tracked
  <2>2. ASSUME NEW written \in BOOLEAN, AdvanceTrade(t, written)
        PROVE  docs'[t].status = docs[t].status
    <3>1. cyc.phase = "advancing" /\ t \in cyc.todo
          /\ docs' = IF written THEN [docs EXCEPT ![t] = Advanced(t)] ELSE docs
      BY <2>2 DEF AdvanceTrade
    <3>2. docs'[t] \in {docs[t], Advanced(t)}
      BY <1>1, <3>1 DEF TypeInv, TrackingTypeOK
    <3> QED
      BY <1>1, <3>1, <3>2, ClosedPolledAgain
  <2> QED
    BY <2>1, <2>2
<1>2. /\ TypeInv /\ DocInv /\ GenesisInv /\ BalanceInv /\ [TrackingNext]_trackingVars
      => (TypeInv /\ DocInv /\ GenesisInv /\ BalanceInv)'
  BY TypeNext, DocNext, GenesisNext, BalanceNext
<1>3. /\ TypeInv /\ DocInv /\ GenesisInv /\ BalanceInv /\ FinalInv /\ [TrackingNext]_trackingVars
      /\ OwnedPositionIsFresh' /\ GenesisInv'
      => FinalInv'
  BY FinalNext
<1>4. TypeInv /\ BalanceInv /\ GenesisInv /\ FinalInv /\ OwnedPositionIsFresh /\ [TrackingNext]_trackingVars =>
          [\A t \in Trades : docs[t] # NoDoc /\ docs[t].status \in ClosedStatuses =>
              docs'[t] # NoDoc /\ docs'[t].status = docs[t].status]_trackingVars
  BY <1>1
<1> QED
  BY <1>2, <1>3, <1>4, TypeInit, DocInit, GenesisInit, BalanceInit, FinalInit, PTL
     DEF TrackingSpec, ClosedIsFinal

=============================================================================
