--------------------------- MODULE TrackingRules ---------------------------
(***************************************************************************)
(* The pure rules of app/mt5: which broker position a tracked              *)
(* recommendation owns (matching.py) and what its position's deals say     *)
(* about it (tracker.py).  A broker account is its deal history, a         *)
(* sequence of deals in the order the broker booked them; a history read   *)
(* is the set of the indices it returned.  One symbol is modelled: a deal  *)
(* of another symbol qualifies for nothing.                                *)
(***************************************************************************)
EXTENDS Integers, Sequences, FiniteSets, FiniteSetsExt

CONSTANTS
    NoPosition,      \* matched_position_id is None
    ExecutionWindow, \* SIGNAL_EXECUTION_WINDOW: valid_until - signal_time
    ApprovedVolume   \* approved_broker_volume, in volume steps

ASSUME WindowAssumption == ExecutionWindow \in Nat
ASSUME VolumeAssumption == ApprovedVolume \in Nat \ {0}

Sides == {"BUY", "SELL"}

Opposite(side) == IF side = "BUY" THEN "SELL" ELSE "BUY"

Statuses == {"PENDING", "NOT_FILLED", "OPEN", "WIN", "LOSS", "BREAKEVEN"}

LockHoldingStatuses == {"PENDING", "OPEN"}

ClosedStatuses == {"WIN", "LOSS", "BREAKEVEN"}

ValidUntil(doc) == doc.signal + ExecutionWindow

----------------------------------------------------------------------------
(* Sums over the deals of an index set.                                    *)

Volume(deals, I) == MapThenSumSet(LAMBDA i : deals[i].vol, I)

Profit(deals, I) == MapThenSumSet(LAMBDA i : deals[i].profit, I)

DealsOf(deals, read, p) == {i \in read : deals[i].pos = p}

OpeningDeals(deals, read, p) == {i \in DealsOf(deals, read, p) : deals[i].entry = "IN"}

----------------------------------------------------------------------------
(* match_recommendation.                                                   *)

\* The opening fills of position p this recommendation could own: its
\* direction, inside [signal_time, valid_until].
QualifyingFills(deals, read, doc, p) ==
    {i \in OpeningDeals(deals, read, p) :
        /\ deals[i].side = doc.side
        /\ doc.signal <= deals[i].time
        /\ deals[i].time <= ValidUntil(doc)}

\* The position's earliest deal in the whole read is one of those fills.
FirstLifecycleConsistent(deals, read, doc, p) ==
    \E g \in QualifyingFills(deals, read, doc, p) :
        \A i \in DealsOf(deals, read, p) : deals[g].time <= deals[i].time

EligiblePositions(deals, read, doc, claimed) ==
    {p \in {deals[i].pos : i \in read} \ (doc.pre \cup claimed) :
        FirstLifecycleConsistent(deals, read, doc, p)}

\* Wrong: an exact fill counts as a partial one.
MatchOutcomeOfFills(deals, read, ok, coversUntil, doc, claimed) ==
    LET eligible == EligiblePositions(deals, read, doc, claimed)
        total == Volume(deals, QualifyingFills(deals, read, doc, CHOOSE p \in eligible : TRUE))
    IN  CASE ~ok -> "READ_UNAVAILABLE"
          [] ok /\ Cardinality(eligible) >= 2 -> "AMBIGUOUS"
          [] ok /\ Cardinality(eligible) = 1 /\ total <= ApprovedVolume -> "PARTIAL_FILL"
          [] ok /\ Cardinality(eligible) = 1 /\ total > ApprovedVolume -> "VOLUME_MISMATCH"
          [] ok /\ eligible = {} /\ coversUntil >= ValidUntil(doc) -> "EXPIRED_CONFIRMED_UNFILLED"
          [] OTHER -> "NO_CANDIDATE_YET"

MatchOutcome(deals, read, ok, coversUntil, doc, claimed) ==
    LET eligible == EligiblePositions(deals, read, doc, claimed)
        total == Volume(deals, QualifyingFills(deals, read, doc, CHOOSE p \in eligible : TRUE))
    IN  CASE ~ok -> "READ_UNAVAILABLE"
          [] ok /\ Cardinality(eligible) >= 2 -> "AMBIGUOUS"
          [] ok /\ Cardinality(eligible) = 1 /\ total = ApprovedVolume -> "MATCHED"
          [] ok /\ Cardinality(eligible) = 1 /\ total < ApprovedVolume -> "PARTIAL_FILL"
          [] ok /\ Cardinality(eligible) = 1 /\ total > ApprovedVolume -> "VOLUME_MISMATCH"
          [] ok /\ eligible = {} /\ coversUntil >= ValidUntil(doc) -> "EXPIRED_CONFIRMED_UNFILLED"
          [] OTHER -> "NO_CANDIDATE_YET"

----------------------------------------------------------------------------
(* reconstruct_position_lifecycle and _classify_terminal_status.           *)

\* A close-by deal blocks the whole assessment; the record is left as it is.
LifecycleBlocked(deals, read, p) ==
    \E i \in DealsOf(deals, read, p) : deals[i].entry = "OUT_BY"

\* Every deal that is not IN reduces the net volume, INOUT included.
NetVolume(deals, read, p) ==
    LET opening == OpeningDeals(deals, read, p)
    IN  Volume(deals, opening) - Volume(deals, DealsOf(deals, read, p) \ opening)

\* Wrong: the first closing deal ends the lifecycle.
FullyClosedByAnyExit(deals, read, p) ==
    \E i \in DealsOf(deals, read, p) : deals[i].entry # "IN"

FullyClosed(deals, read, p) == NetVolume(deals, read, p) <= 0

TerminalStatus(pnl) ==
    CASE pnl > 0 -> "WIN"
      [] pnl < 0 -> "LOSS"
      [] OTHER -> "BREAKEVEN"

LifecycleStatus(deals, read, p) ==
    IF FullyClosed(deals, read, p)
    THEN TerminalStatus(Profit(deals, DealsOf(deals, read, p)))
    ELSE "OPEN"

----------------------------------------------------------------------------
(* advance_tracked_recommendation: the per-cycle poll of one document.     *)

\* Wrong: an expired window is not noticed.
MatchStepWithoutExpiry(deals, read, ok, coversUntil, doc, claimed) ==
    IF MatchOutcome(deals, read, ok, coversUntil, doc, claimed) = "MATCHED"
    THEN [doc EXCEPT !.matched = CHOOSE p \in EligiblePositions(deals, read, doc, claimed) : TRUE,
                     !.status = "OPEN"]
    ELSE doc

MatchStep(deals, read, ok, coversUntil, doc, claimed) ==
    LET outcome == MatchOutcome(deals, read, ok, coversUntil, doc, claimed)
    IN  CASE outcome = "MATCHED" ->
                 [doc EXCEPT !.matched = CHOOSE p \in EligiblePositions(deals, read, doc, claimed) : TRUE,
                             !.status = "OPEN"]
          [] outcome = "EXPIRED_CONFIRMED_UNFILLED" -> [doc EXCEPT !.status = "NOT_FILLED"]
          [] OTHER -> doc

\* Wrong: a failed read counts as an empty history.
LifecycleStepOnAnyRead(deals, read, ok, doc) ==
    IF doc.matched = NoPosition \/ LifecycleBlocked(deals, read, doc.matched)
    THEN doc
    ELSE [doc EXCEPT !.status = LifecycleStatus(deals, read, doc.matched)]

LifecycleStep(deals, read, ok, doc) ==
    IF doc.matched = NoPosition \/ ~ok \/ LifecycleBlocked(deals, read, doc.matched)
    THEN doc
    ELSE [doc EXCEPT !.status = LifecycleStatus(deals, read, doc.matched)]

\* Wrong: a matched document is not polled again.
AdvanceUntilMatched(deals, read, ok, coversUntil, doc, claimed) ==
    IF doc.matched = NoPosition
    THEN LifecycleStep(deals, read, ok, MatchStep(deals, read, ok, coversUntil, doc, claimed))
    ELSE doc

AdvanceTracked(deals, read, ok, coversUntil, doc, claimed) ==
    LifecycleStep(deals, read, ok,
        IF doc.matched = NoPosition
        THEN MatchStep(deals, read, ok, coversUntil, doc, claimed)
        ELSE doc)

============================================================================
