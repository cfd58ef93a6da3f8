----------------------------- MODULE AccountFacts -----------------------------
(***************************************************************************)
(* The account facts of a runtime cycle: run_runtime_cycle reads the       *)
(* account, the deals and the positions one after the other while the      *)
(* broker goes on, establishes the baseline of the trading day             *)
(* (app/mt5/rollover.py, app/mt5/persistence.py), assesses the realized    *)
(* PnL (app/mt5/history.py) and the open risk (app/mt5/risk.py), and       *)
(* assembles the four (app/orchestration/facts.py).                        *)
(*                                                                         *)
(* Amounts of money are the sets of deals and positions they are summed    *)
(* over, except the equity and the risk to a stop, which are numbers.  A   *)
(* result that its own model (app/core/models) refuses raises.             *)
(***************************************************************************)
EXTENDS Integers, FiniteSets, FiniteSetsExt

CONSTANTS
    MaxTime,         \* bound: the broker's clock
    DayLength,       \* hours of a day
    ShiftAt,         \* when the rollover time zone changes its offset
    Shifts,          \* by how much it may change it: none, forward, back
    Hours,           \* rollover_hour of the policies an operator configures
    Lags,            \* how far the host's clock may be behind the broker's
    Equities,        \* account equity at a read
    Tickets,         \* positions the account may hold
    PositionShapes,  \* side, open price and stop of a position; stop 0 is none
    Prices,          \* current price of a position
    NoState,         \* MT5RolloverState | None
    NoFile,          \* no baseline file
    BadFile          \* a file that is no MT5RolloverState

ASSUME ClockAssumption ==
    /\ {MaxTime, DayLength, ShiftAt} \subseteq Nat \ {0}
    /\ Shifts \subseteq Int /\ Lags \subseteq Nat /\ Hours \subseteq 0 .. DayLength - 1
ASSUME ValueAssumption ==
    /\ Equities \cup Prices \subseteq Nat
    /\ PositionShapes \subseteq [side : {"BUY", "SELL"}, open : Nat \ {0}, stop : Nat]

VARIABLES
    now,      \* the broker's clock
    shift,    \* the change of offset of this run
    rolloverHour,  \* MT5RolloverPolicyConfig.rollover_hour
    file,     \* the baseline file
    held,     \* the broker's open positions
    dealt,    \* the broker's deals
    facts,    \* the cycle in progress, or the last one
    watched,  \* some trading day of some policy
    reported  \* the baseline a cycle reported as persisted for that day

factsVars == <<now, shift, rolloverHour, file, held, dealt, facts, watched, reported>>

Nothing == "NONE"

----------------------------------------------------------------------------

\* The wall clock of the rollover time zone at an instant.
Wall(t) == t + (IF t >= ShiftAt THEN shift ELSE 0)

\* Wrong: the offset of the time zone is taken for fixed.
InstantOfFixed(w) == w

\* The instant of a wall clock reading: the first of two, and the offset
\* before the change for a reading that is skipped.
InstantOf(w) == IF w < ShiftAt + Max({shift, 0}) THEN w ELSE w - shift

TradingDayKey(t, h) == (Wall(t) - h) \div DayLength

DayBegin(key, h) == InstantOf(key * DayLength + h)

DayEnd(key, h) == InstantOf((key + 1) * DayLength + h)

----------------------------------------------------------------------------

RolloverOutcomes ==
    {"READY", "BOOTSTRAPPED_MIDDAY", "PERSISTENCE_UNAVAILABLE",
     "PERSISTENCE_CORRUPT", "CONFIG_MISMATCH", "FUTURE_STATE"}

UsableRollovers == {"READY", "BOOTSTRAPPED_MIDDAY"}

BlockReasons ==
    {"ROLLOVER_UNAVAILABLE", "REALIZED_PNL_UNAVAILABLE",
     "OPEN_RISK_UNAVAILABLE", "TIMESTAMP_MISMATCH"}

RolloverStates(keys) == [key : keys, equity : Equities \ {0}, hour : Hours]

ASSUME NoStateAssumption ==
    /\ NoState \notin RolloverStates(Int)
    /\ NoFile \notin RolloverStates(Int) /\ BadFile \notin RolloverStates(Int)

\* MT5RolloverStatePersistence.read; a fault makes the file unreadable.
ReadStatus(fault) ==
    CASE fault -> "UNAVAILABLE"
      [] ~fault /\ file = NoFile -> "ABSENT"
      [] ~fault /\ file = BadFile -> "CORRUPT"
      [] OTHER -> "VALID"

\* Wrong: a new baseline starts with every day not before the stored one.
DecideRolloverAnew(status, key, equity, h) ==
    CASE status = "ABSENT" -> [outcome |-> "READY", state |-> [key |-> key, equity |-> equity, hour |-> h]]
      [] status \in {"CORRUPT", "UNAVAILABLE"} -> [outcome |-> "PERSISTENCE_UNAVAILABLE", state |-> NoState]
      [] status = "VALID" /\ key < file.key -> [outcome |-> "FUTURE_STATE", state |-> NoState]
      [] OTHER -> [outcome |-> "READY", state |-> [key |-> key, equity |-> equity, hour |-> h]]

\* Wrong: a baseline that cannot be used is handed on with its outcome.
DecideRolloverAnyway(status, key, equity, h) ==
    CASE status = "ABSENT" -> [outcome |-> "READY", state |-> [key |-> key, equity |-> equity, hour |-> h]]
      [] status \in {"CORRUPT", "UNAVAILABLE"} -> [outcome |-> "PERSISTENCE_UNAVAILABLE", state |-> NoState]
      [] status = "VALID" /\ key < file.key -> [outcome |-> "FUTURE_STATE", state |-> file]
      [] OTHER -> [outcome |-> "READY", state |-> [key |-> key, equity |-> equity, hour |-> h]]

DecideRollover(status, key, equity, h) ==
    LET fresh == [key |-> key, equity |-> equity, hour |-> h]
        is(outcome, state) == [outcome |-> outcome, state |-> state]
    IN  CASE status = "CORRUPT" -> is("PERSISTENCE_CORRUPT", NoState)
          [] status = "UNAVAILABLE" -> is("PERSISTENCE_UNAVAILABLE", NoState)
          [] status = "ABSENT" -> is("BOOTSTRAPPED_MIDDAY", fresh)
          [] OTHER ->
               CASE key < file.key -> is("FUTURE_STATE", NoState)
                 [] key > file.key -> is("READY", fresh)
                 [] key = file.key /\ file.hour # h -> is("CONFIG_MISMATCH", NoState)
                 [] OTHER -> is("READY", file)

\* MT5RolloverSnapshot and MT5RolloverState: an equity is above zero, and a
\* state is there exactly when the outcome can be used.
SnapshotIsValid(rollover, equity) ==
    /\ equity > 0
    /\ rollover.state # NoState => rollover.state.equity > 0
    /\ (rollover.state # NoState) <=> rollover.outcome \in UsableRollovers

----------------------------------------------------------------------------

Epoch == -1

\* classify_trading_deal and the loop around it: why a deal of the day makes
\* the sum unsafe.
DealReason(d) ==
    CASE d.time <= Epoch -> "MALFORMED_TIMESTAMP"
      [] d.type = "UNKNOWN" -> "UNMAPPABLE_DEAL_TYPE"
      [] d.type \in {"BUY", "SELL"} /\ d.entry = "OUT_BY" -> "UNSUPPORTED_OUT_BY"
      [] d.type \in {"BUY", "SELL"} /\ d.entry = "UNKNOWN" -> "UNMAPPABLE_DEAL_ENTRY"
      [] OTHER -> Nothing

DealsOfTheDay(ds, key, h) ==
    {d \in ds : d.time <= Epoch \/ (DayBegin(key, h) <= d.time /\ d.time < DayEnd(key, h))}

RealizedDailyPnl(ds, key, h) ==
    LET today == DealsOfTheDay(ds, key, h)
        unsafe == {d \in today : DealReason(d) # Nothing}
    IN  [outcome |-> IF unsafe = {} THEN "READY" ELSE "BLOCKED",
         counted |-> IF unsafe = {} THEN today ELSE {},
         reasons |-> {DealReason(d) : d \in unsafe},
         unsafe  |-> unsafe]

\* MT5Position.stop_loss is past the open price.
IsProtected(p) ==
    /\ p.stop # 0
    /\ IF p.side = "BUY" THEN p.stop >= p.open ELSE p.stop <= p.open

\* The loss from the current price down to the stop.
LossToStop(p, price) ==
    Max({0, IF p.side = "BUY" THEN price - p.stop ELSE p.stop - price})

\* _position_contribution: why the risk of a position is not known.
PositionReason(p, price, symbol) ==
    CASE p.stop = 0 -> "NO_PROTECTIVE_STOP"
      [] IsProtected(p) -> Nothing
      [] price <= 0 -> "INVALID_CURRENT_PRICE"
      [] symbol = "ABSENT" -> "SYMBOL_UNAVAILABLE"
      [] symbol = "NO_TICK_VALUE" -> "INVALID_TICK_ECONOMICS"
      [] OTHER -> Nothing

\* _position_contribution: the risk of a position that is known.
PositionRisk(p, price) == IF IsProtected(p) THEN 0 ELSE LossToStop(p, price)

OpenRisk(ps, price, symbol) ==
    LET unsafe == {p \in ps : PositionReason(p, price, symbol) # Nothing}
    IN  [outcome |-> IF unsafe = {} THEN "READY" ELSE "BLOCKED",
         risk    |-> IF unsafe = {} THEN MapThenSumSet(LAMBDA p : PositionRisk(p, price), ps) ELSE 0,
         reasons |-> {PositionReason(p, price, symbol) : p \in unsafe},
         unsafe  |-> unsafe]

\* MT5RealizedDailyPnLAssessment.
PnlIsValid(a) ==
    IF a.outcome = "READY" THEN a.reasons = {} /\ a.unsafe = {}
    ELSE a.counted = {} /\ a.reasons # {} /\ a.unsafe # {}

\* MT5OpenRiskAssessment.
OpenRiskIsValid(a) ==
    /\ a.risk >= 0
    /\ (a.outcome = "READY") <=> a.reasons = {}
    /\ (a.outcome = "READY") <=> a.unsafe = {}

----------------------------------------------------------------------------

\* assemble_account_risk_snapshot.
AssemblyReasons(rollover, key, pnl, risk) ==
    {r \in BlockReasons :
        \/ r = "ROLLOVER_UNAVAILABLE" /\ rollover.outcome \notin UsableRollovers
        \/ r = "REALIZED_PNL_UNAVAILABLE" /\ pnl.outcome # "READY"
        \/ r = "OPEN_RISK_UNAVAILABLE" /\ risk.outcome # "READY"
        \/ r = "TIMESTAMP_MISMATCH" /\ rollover.state # NoState /\ rollover.state.key # key}

----------------------------------------------------------------------------

Idle == [stage |-> "IDLE"]

FactsInit ==
    /\ now = 0
    /\ shift \in Shifts
    /\ rolloverHour \in Hours
    /\ file \in {NoFile, BadFile}
    /\ held = {}
    /\ dealt = {}
    /\ facts = Idle
    /\ watched \in [hour : Hours, key : 0 .. MaxTime \div DayLength]
    /\ reported = NoState

brokerVars == <<now, held, dealt>>
policyVars == <<shift, rolloverHour, watched>>

FactsAt(stage) == facts.stage = stage

\* as_of is the host's clock when the request comes in.
StartFacts ==
    /\ facts.stage \in {"IDLE", "DONE"}
    /\ \E lag \in Lags :
         /\ lag <= now
         /\ facts' = [stage |-> "STARTED", asOf |-> now - lag]
    /\ UNCHANGED <<brokerVars, policyVars, file, reported>>

\* MT5Client.account_facts; without them the cycle never assembles.
ReadAccount ==
    /\ FactsAt("STARTED")
    /\ \/ \E e \in Equities :
            facts' = [stage |-> "ACCOUNT", asOf |-> facts.asOf, equity |-> e, floating |-> held]
       \/ facts' = Idle
    /\ UNCHANGED <<brokerVars, policyVars, file, reported>>

\* MT5Client.history_deals from the start of the day, or from an earlier
\* recommendation, up to as_of; a read that fails is the end of the facts.
ReadHistory ==
    /\ FactsAt("ACCOUNT")
    /\ \/ \E start \in {0, DayBegin(TradingDayKey(facts.asOf, rolloverHour), rolloverHour)} :
            facts' = [stage |-> "HISTORY", asOf |-> facts.asOf, equity |-> facts.equity,
                      floating |-> facts.floating,
                      deals |-> {d \in dealt : start <= d.time /\ d.time <= facts.asOf}]
       \/ facts' = Idle
    /\ UNCHANGED <<brokerVars, policyVars, file, reported>>

\* MT5Client.positions: every position with its price at this moment.
ReadPositions ==
    /\ FactsAt("HISTORY")
    /\ \/ \E price \in IF held = {} THEN {0} ELSE Prices :
            facts' = [stage |-> "POSITIONS", asOf |-> facts.asOf, equity |-> facts.equity,
                      floating |-> facts.floating, deals |-> facts.deals,
                      open |-> held, price |-> price]
       \/ facts' = Idle
    /\ UNCHANGED <<brokerVars, policyVars, file, reported>>

\* The baseline: read, decide, and write what is new.  A failed write leaves
\* the old file, the decision stands for this cycle.
EstablishBaseline ==
    /\ FactsAt("POSITIONS")
    /\ \E readFault, writeFault \in BOOLEAN :
         LET key == TradingDayKey(facts.asOf, rolloverHour)
             status == ReadStatus(readFault)
             rollover == DecideRollover(status, key, facts.equity, rolloverHour)
             persisted == IF status = "VALID" THEN file ELSE NoState
             writes == rollover.state # NoState /\ rollover.state # persisted
         IN  IF SnapshotIsValid(rollover, facts.equity)
             THEN /\ file' = IF writes /\ ~writeFault THEN rollover.state ELSE file
                  /\ facts' = [stage |-> "BASELINE", asOf |-> facts.asOf, equity |-> facts.equity,
                               floating |-> facts.floating, deals |-> facts.deals,
                               open |-> facts.open, price |-> facts.price,
                               rollover |-> rollover, persisted |-> ~(writes /\ writeFault)]
             ELSE facts' = [stage |-> "RAISED", equity |-> facts.equity] /\ UNCHANGED file
    /\ UNCHANGED <<brokerVars, policyVars, reported>>

\* The assessments, their assembly, and what the result reports.
AssembleFacts ==
    /\ FactsAt("BASELINE")
    /\ \E symbol \in {"OK", "ABSENT", "NO_TICK_VALUE"} :
         LET key == TradingDayKey(facts.asOf, rolloverHour)
             pnl == RealizedDailyPnl(facts.deals, key, rolloverHour)
             risk == OpenRisk(facts.open, facts.price, symbol)
             reasons == AssemblyReasons(facts.rollover, key, pnl, risk)
             baseline == facts.rollover.state
         IN  IF PnlIsValid(pnl) /\ OpenRiskIsValid(risk)
             THEN /\ facts' = [stage |-> "DONE", asOf |-> facts.asOf, ready |-> reasons = {},
                               baseline |-> baseline, floating |-> facts.floating,
                               realized |-> pnl.counted, open |-> facts.open,
                               price |-> facts.price, risk |-> risk.risk]
                  /\ reported' = IF baseline # NoState /\ facts.persisted /\ watched = [hour |-> rolloverHour, key |-> key]
                                 THEN baseline
                                 ELSE reported
             ELSE facts' = [stage |-> "RAISED", equity |-> facts.equity] /\ UNCHANGED reported
    /\ UNCHANGED <<brokerVars, policyVars, file>>

\* The process stops: memory is lost, the file and the broker stay.
StopCycle ==
    /\ facts.stage # "IDLE"
    /\ facts' = Idle
    /\ UNCHANGED <<brokerVars, policyVars, file, reported>>

\* An operator restarts it under another rollover hour.
ChangePolicy ==
    /\ facts = Idle
    /\ rolloverHour' \in Hours \ {rolloverHour}
    /\ UNCHANGED <<brokerVars, shift, watched, file, facts, reported>>

----------------------------------------------------------------------------
\* The broker and the trader, at any time.  A deal is dated to the
\* millisecond: it has an instant of its own, after whatever was read before.

DayPasses ==
    /\ now < MaxTime
    /\ now' = now + 1
    /\ UNCHANGED <<held, dealt, policyVars, file, facts, reported>>

Used == {d.ticket : d \in dealt}

OpenPosition ==
    /\ now < MaxTime
    /\ now' = now + 1
    /\ \E t \in Tickets \ Used, s \in PositionShapes :
         /\ held' = held \cup {[ticket |-> t, side |-> s.side, open |-> s.open, stop |-> s.stop]}
         /\ dealt' = dealt \cup {[ticket |-> t, entry |-> "IN", type |-> s.side, time |-> now']}
    /\ UNCHANGED <<policyVars, file, facts, reported>>

\* OUT, or against an opposite position, which the code does not book.
ClosePosition ==
    /\ now < MaxTime
    /\ now' = now + 1
    /\ \E p \in held, entry \in {"OUT", "OUT_BY"} :
         /\ held' = held \ {p}
         /\ dealt' = dealt \cup {[ticket |-> p.ticket, entry |-> entry, type |-> p.side, time |-> now']}
    /\ UNCHANGED <<policyVars, file, facts, reported>>

FactsNext ==
    \/ StartFacts \/ ReadAccount \/ ReadHistory \/ ReadPositions
    \/ EstablishBaseline \/ AssembleFacts \/ StopCycle \/ ChangePolicy
    \/ DayPasses \/ OpenPosition \/ ClosePosition

FactsSpec == FactsInit /\ [][FactsNext]_factsVars

----------------------------------------------------------------------------

Ready == facts.stage = "DONE" /\ facts.ready

\* The account facts of a cycle that goes on to size trades are of one
\* trading day and of no deal twice: the realized PnL is that of the deals
\* whose own instant falls on the day of as_of, also on the day the time zone
\* changes its offset, and no position is both floating and realized although
\* the account and the deals are read at different moments.
FactsAreOfOneDay ==
    Ready =>
        LET key == TradingDayKey(facts.asOf, rolloverHour)
        IN  /\ facts.baseline.key = key
            /\ facts.realized = {d \in dealt : d.time <= facts.asOf /\ TradingDayKey(d.time, rolloverHour) = key}
            /\ \A d \in facts.realized :
                 d.entry # "IN" => \A p \in facts.floating : p.ticket # d.ticket

\* A trading day has one baseline: what a cycle reported as persisted is what
\* every later cycle of the day measures the daily loss from, through
\* restarts, failed reads and writes, a change of policy and back, and a host
\* clock that lags (app/mt5/rollover.py).
BaselineIsKept ==
    Ready /\ reported # NoState /\ watched = [hour |-> rolloverHour, key |-> TradingDayKey(facts.asOf, rolloverHour)]
        => facts.baseline = reported

\* The cycle never builds a fact its own model refuses, unless the account
\* is worth nothing.
OnlyEmptyAccountsRaise == facts.stage = "RAISED" => facts.equity = 0

==============================================================================
