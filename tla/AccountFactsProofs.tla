-------------------------- MODULE AccountFactsProofs --------------------------
(***************************************************************************)
(* What AccountFacts guarantees for every clock, account and policy, and   *)
(* whatever faults and restarts.                                           *)
(***************************************************************************)
EXTENDS AccountFacts, FiniteSums

-----------------------------------------------------------------------------
(* The calendar.                                                            *)

\* A quotient, by its multiples.
LEMMA Quotient ==
    ASSUME NEW a \in Int, NEW d \in Nat \ {0}, NEW k \in Int
    PROVE  a \div d = k <=> k * d <= a /\ a < (k + 1) * d
<1> DEFINE q == a \div d
           r == a % d
<1>1. q \in Int /\ r \in Int /\ a = d * q + r /\ 0 <= r /\ r < d
  OBVIOUS
<1> HIDE DEF q, r
<1>2. q * d <= a /\ a < (q + 1) * d
  BY <1>1
<1>3. ASSUME k * d <= a, a < (k + 1) * d
      PROVE  q = k
  <2>1. ~(q < k)
    <3> SUFFICES ASSUME q + 1 <= k PROVE FALSE
      BY <1>1
    <3>1. (q + 1) * d <= k * d
      BY <1>1
    <3> QED
      BY <1>1, <1>2, <1>3, <3>1
  <2>2. ~(k < q)
    <3> SUFFICES ASSUME k + 1 <= q PROVE FALSE
      BY <1>1
    <3>1. (k + 1) * d <= q * d
      BY <1>1
    <3> QED
      BY <1>1, <1>2, <1>3, <3>1
  <2> QED
    BY <1>1, <2>1, <2>2
<1> QED
  BY <1>2, <1>3 DEF q

\* An instant is not before that of a wall clock reading exactly when it
\* shows no earlier reading: also around the change of the offset, as long as
\* that is of one hour at most.
LEMMA WallClock ==
    ASSUME shift \in {-1, 0, 1}, NEW t \in Int, NEW w \in Int
    PROVE  InstantOf(w) <= t <=> w <= Wall(t)
<1>1. ShiftAt \in Int
  BY ClockAssumption
<1>2. Max({shift, 0}) = IF shift = 1 THEN 1 ELSE 0
  <2>1. CASE shift = 1
    <3>1. Max({1, 0}) = 1
      BY DEF Max
    <3> QED
      BY <2>1, <3>1
  <2>2. CASE shift # 1
    <3>1. Max({-1, 0}) = 0 /\ Max({0, 0}) = 0
      BY DEF Max
    <3> QED
      BY <2>2, <3>1
  <2> QED
    BY <2>1, <2>2
<1> QED
  BY <1>1, <1>2 DEF InstantOf, Wall

\* The trading day of an instant, by its borders.
LEMMA DayBorders ==
    ASSUME shift \in {-1, 0, 1}, NEW t \in Int, NEW key \in Int, NEW h \in Hours
    PROVE  DayBegin(key, h) <= t /\ t < DayEnd(key, h) <=> TradingDayKey(t, h) = key
<1>1. h \in Int /\ ShiftAt \in Int /\ DayLength \in Nat \ {0}
  BY ClockAssumption
<1>2. Wall(t) \in Int
  BY <1>1 DEF Wall
<1>3. key * DayLength + h \in Int /\ (key + 1) * DayLength + h \in Int
  BY <1>1
<1>4. DayBegin(key, h) <= t <=> key * DayLength + h <= Wall(t)
  BY <1>3, WallClock DEF DayBegin
<1>5. t < DayEnd(key, h) <=> Wall(t) < (key + 1) * DayLength + h
  <2>1. DayEnd(key, h) <= t <=> (key + 1) * DayLength + h <= Wall(t)
    BY <1>3, WallClock DEF DayEnd
  <2>2. DayEnd(key, h) \in Int
    BY <1>3 DEF DayEnd, InstantOf
  <2> QED
    BY <1>2, <1>3, <2>1, <2>2
<1>6. TradingDayKey(t, h) = key <=> key * DayLength <= Wall(t) - h /\ Wall(t) - h < (key + 1) * DayLength
  <2> DEFINE a == Wall(t) - h
  <2>1. a \in Int
    BY <1>1, <1>2
  <2> HIDE DEF a
  <2>2. a \div DayLength = key <=> key * DayLength <= a /\ a < (key + 1) * DayLength
    BY <1>1, <2>1, Quotient
  <2> QED
    BY <2>2 DEF TradingDayKey, a
<1>7. key * DayLength \in Int /\ (key + 1) * DayLength \in Int
  BY <1>1
<1> QED
  BY <1>1, <1>2, <1>4, <1>5, <1>6, <1>7

-----------------------------------------------------------------------------
(* Types.                                                                   *)

Reads == {"ACCOUNT", "HISTORY", "POSITIONS", "BASELINE"}

IsPosition(p) == p.side \in {"BUY", "SELL"} /\ p.open \in Nat /\ p.stop \in Nat

FactsTypes ==
    /\ now \in Nat /\ shift \in Shifts /\ rolloverHour \in Hours
    /\ file \in RolloverStates(Int) \cup {NoFile, BadFile}
    /\ reported \in RolloverStates(Int) \cup {NoState}
    /\ watched.hour \in Hours /\ watched.key \in Int
    /\ IsFiniteSet(held) /\ \A p \in held : IsPosition(p)
    /\ facts.stage \in {"IDLE", "STARTED", "DONE", "RAISED"} \cup Reads
    /\ facts.stage \in {"STARTED", "DONE"} \cup Reads => facts.asOf \in Nat /\ facts.asOf <= now
    /\ facts.stage \in Reads => facts.equity \in Equities
    /\ facts.stage \in {"POSITIONS", "BASELINE"} =>
           /\ IsFiniteSet(facts.open) /\ facts.price \in Nat
           /\ \A p \in facts.open : IsPosition(p)
    /\ facts.stage = "BASELINE" =>
           /\ facts.rollover.state \in RolloverStates(Int) \cup {NoState}
           /\ (facts.rollover.state # NoState) <=> facts.rollover.outcome \in UsableRollovers

\* The trading day of an instant is a number.
LEMMA KeyType ==
    ASSUME shift \in Int, NEW t \in Int, NEW h \in Hours
    PROVE  TradingDayKey(t, h) \in Int
<1>1. h \in Int /\ DayLength \in Nat \ {0} /\ Wall(t) \in Int
  BY ClockAssumption DEF Wall
<1> QED
  BY <1>1 DEF TradingDayKey

\* What a decision about the baseline hands on.
LEMMA RolloverDecision ==
    ASSUME NEW fault \in BOOLEAN, NEW key \in Int, NEW e \in Equities \ {0}, NEW h \in Hours,
           file \in RolloverStates(Int) \cup {NoFile, BadFile}
    PROVE  LET rollover == DecideRollover(ReadStatus(fault), key, e, h)
           IN  /\ rollover.state = NoState \/ (rollover.state \in RolloverStates(Int) /\ rollover.state.key = key
                                               /\ rollover.state.hour = h)
               /\ (rollover.state # NoState) <=> rollover.outcome \in UsableRollovers
               /\ rollover.state # NoState => ReadStatus(fault) \in {"ABSENT", "VALID"}
               /\ ReadStatus(fault) = "VALID" <=> ~fault /\ file \in RolloverStates(Int)
               /\ ReadStatus(fault) = "ABSENT" => file = NoFile
               /\ rollover.state # NoState /\ ReadStatus(fault) = "VALID" =>
                      key > file.key \/ (key = file.key /\ rollover.state = file)
<1> DEFINE fresh == [key |-> key, equity |-> e, hour |-> h]
           status == ReadStatus(fault)
           rollover == DecideRollover(status, key, e, h)
<1>1. fresh \in RolloverStates(Int) /\ fresh # NoState /\ fresh.key = key /\ fresh.hour = h
  BY NoStateAssumption DEF RolloverStates
<1>2. /\ status \in {"UNAVAILABLE", "ABSENT", "CORRUPT", "VALID"}
      /\ status = "VALID" <=> ~fault /\ file \in RolloverStates(Int)
      /\ status = "ABSENT" => file = NoFile
  BY NoStateAssumption DEF ReadStatus
<1>3. CASE status # "VALID"
  <2>1. status \in {"CORRUPT", "UNAVAILABLE"} => rollover.state = NoState /\ rollover.outcome \notin UsableRollovers
    BY DEF DecideRollover, UsableRollovers
  <2>2. status = "ABSENT" => rollover.state = fresh /\ rollover.outcome \in UsableRollovers
    BY DEF DecideRollover, UsableRollovers
  <2> HIDE DEF fresh, status, rollover
  <2>3. /\ rollover.state = NoState \/ rollover.state = fresh
        /\ (rollover.state # NoState) <=> rollover.outcome \in UsableRollovers
        /\ rollover.state # NoState => status = "ABSENT"
    BY <1>1, <1>2, <1>3, <2>1, <2>2
  <2> QED
    BY <1>1, <1>2, <1>3, <2>3 DEF status, rollover
<1>4. CASE status = "VALID"
  <2>1. /\ file \in RolloverStates(Int) /\ file # NoState
        /\ file.key \in Int
    BY <1>2, <1>4, NoStateAssumption DEF RolloverStates
  <2>2. CASE key < file.key
    <3>1. rollover.state = NoState /\ rollover.outcome \notin UsableRollovers
      BY <1>4, <2>1, <2>2 DEF DecideRollover, UsableRollovers
    <3> QED
      BY <1>2, <3>1
  <2>3. CASE key > file.key
    <3>1. rollover.state = fresh /\ rollover.outcome \in UsableRollovers
      BY <1>4, <2>1, <2>3 DEF DecideRollover, UsableRollovers
    <3> QED
      BY <1>1, <1>2, <1>4, <2>3, <3>1
  <2>4. CASE key = file.key /\ file.hour # h
    <3>1. rollover.state = NoState /\ rollover.outcome \notin UsableRollovers
      BY <1>4, <2>1, <2>4 DEF DecideRollover, UsableRollovers
    <3> QED
      BY <1>2, <3>1
  <2>5. CASE key = file.key /\ file.hour = h
    <3>1. rollover.state = file /\ rollover.outcome \in UsableRollovers
      BY <1>4, <2>1, <2>5 DEF DecideRollover, UsableRollovers
    <3> QED
      BY <1>2, <1>4, <2>1, <2>5, <3>1
  <2> QED
    BY <2>1, <2>2, <2>3, <2>4, <2>5
<1> QED
  BY <1>3, <1>4

\* The risk of a position is not negative.
LEMMA RiskType ==
    ASSUME NEW p, IsPosition(p), NEW price \in Nat
    PROVE  PositionRisk(p, price) \in Nat
<1>1. \A n \in Int : Max({0, n}) \in Nat
  <2> TAKE n \in Int
  <2>1. CASE n >= 0
    <3>1. Max({0, n}) = n
      BY <2>1 DEF Max
    <3> QED
      BY <2>1, <3>1
  <2>2. CASE ~(n >= 0)
    <3>1. Max({0, n}) = 0
      BY <2>2 DEF Max
    <3> QED
      BY <3>1
  <2> QED
    BY <2>1, <2>2
<1>2. (IF p.side = "BUY" THEN price - p.stop ELSE p.stop - price) \in Int
  BY DEF IsPosition
<1>3. LossToStop(p, price) \in Nat
  BY <1>1, <1>2 DEF LossToStop
<1> QED
  BY <1>3 DEF PositionRisk

\* g adds up the risks over the subsets of S.
RisksUp(g, price, S) ==
    g = [s \in SUBSET S |-> IF s = {} THEN 0 ELSE PositionRisk(Pick(s), price) + g[s \ {Pick(s)}]]

\* The open risk is a sum of the risks of its positions.
LEMMA RiskIsSum ==
    ASSUME NEW S, IsFiniteSet(S), NEW price
    PROVE  MapThenSumSet(LAMBDA p : PositionRisk(p, price), S)
               = SumOf([p \in S |-> PositionRisk(p, price)], S)
<1> DEFINE w == [p \in S |-> PositionRisk(p, price)]
<1>1. \A s \in SUBSET S : s # {} => w[Pick(s)] = PositionRisk(Pick(s), price)
  BY PickIsElement
<1> HIDE DEF w
<1>2. PICK f : SumsUp(f, w, S)
  BY AddsExists
<1>3. \A g : RisksUp(g, price, S) <=> SumsUp(g, w, S)
  BY <1>1 DEF RisksUp, SumsUp
<1> DEFINE h == CHOOSE g : RisksUp(g, price, S)
<1>4. RisksUp(h, price, S)
  BY <1>2, <1>3
<1>5. MapThenSumSet(LAMBDA p : PositionRisk(p, price), S) = h[S]
  BY DEF MapThenSumSet, MapThenFoldSet, Pick, RisksUp
<1> HIDE DEF h
<1>6. Adds(h, w, S)
  BY <1>3, <1>4 DEF SumsUp, Adds
<1>7. PICK k : Adds(k, w, S) /\ SumOf(w, S) = k[S]
  BY SumOfAdds
<1>8. h[S] = k[S]
  BY <1>6, <1>7, AddsUnique
<1> QED
  BY <1>5, <1>7, <1>8 DEF w

\* Whatever deals and positions are read, their assessments are ones their
\* models accept.
LEMMA AssessmentsAreValid ==
    /\ \A ds, key, h : PnlIsValid(RealizedDailyPnl(ds, key, h))
    /\ \A ps, price, symbol :
           IsFiniteSet(ps) /\ price \in Nat /\ (\A p \in ps : IsPosition(p)) =>
               OpenRiskIsValid(OpenRisk(ps, price, symbol))
<1>1. ASSUME NEW ds, NEW key, NEW h
      PROVE  PnlIsValid(RealizedDailyPnl(ds, key, h))
  BY DEF PnlIsValid, RealizedDailyPnl
<1>2. ASSUME NEW ps, NEW price \in Nat, NEW symbol, IsFiniteSet(ps), \A p \in ps : IsPosition(p)
      PROVE  OpenRiskIsValid(OpenRisk(ps, price, symbol))
  <2> DEFINE total == MapThenSumSet(LAMBDA p : PositionRisk(p, price), ps)
             w == [p \in ps |-> PositionRisk(p, price)]
             unsafe == {p \in ps : PositionReason(p, price, symbol) # Nothing}
             reasons == {PositionReason(p, price, symbol) : p \in unsafe}
  <2>1. \A p \in ps : w[p] \in Nat
    BY <1>2, RiskType
  <2>2. total = SumOf(w, ps)
    BY <1>2, RiskIsSum
  <2>3. total \in Nat
    <3> HIDE DEF total, w
    <3> QED
      BY <1>2, <2>1, <2>2, SumNat
  <2>4. OpenRisk(ps, price, symbol)
            = [outcome |-> IF unsafe = {} THEN "READY" ELSE "BLOCKED",
               risk |-> IF unsafe = {} THEN total ELSE 0,
               reasons |-> reasons, unsafe |-> unsafe]
    BY DEF OpenRisk
  <2>5. unsafe = {} <=> reasons = {}
    OBVIOUS
  <2> HIDE DEF total, unsafe, reasons
  <2> QED
    BY <2>3, <2>4, <2>5 DEF OpenRiskIsValid
<1> QED
  BY <1>1, <1>2

\* The account facts start well typed.
LEMMA FactsTypesInit == FactsInit => FactsTypes
<1> SUFFICES ASSUME FactsInit PROVE FactsTypes
  OBVIOUS
<1>1. watched.hour \in Hours /\ watched.key \in Int
  BY DEF FactsInit
<1>2. IsFiniteSet(held) /\ held = {}
  BY FS_EmptySet DEF FactsInit
<1>3. facts.stage = "IDLE"
  BY DEF FactsInit, Idle
<1> QED
  BY <1>1, <1>2, <1>3 DEF FactsInit, FactsTypes, Reads

\* The steps of a cycle before the baseline.
LEMMA FactsTypesRead ==
    ASSUME FactsTypes, StartFacts \/ ReadAccount \/ ReadHistory \/ ReadPositions \/ StopCycle
    PROVE  FactsTypes'
<1>1. /\ UNCHANGED <<now, shift, rolloverHour, file, reported, watched, held>>
  BY DEF StartFacts, ReadAccount, ReadHistory, ReadPositions, StopCycle, brokerVars, policyVars
<1>2. \/ facts'.stage = "IDLE"
      \/ facts'.stage = "STARTED" /\ facts'.asOf \in Nat /\ facts'.asOf <= now
      \/ /\ facts'.stage \in {"ACCOUNT", "HISTORY"}
         /\ facts'.asOf \in Nat /\ facts'.asOf <= now /\ facts'.equity \in Equities
      \/ /\ facts'.stage = "POSITIONS"
         /\ facts'.asOf \in Nat /\ facts'.asOf <= now /\ facts'.equity \in Equities
         /\ facts'.open = held /\ facts'.price \in Nat
  <2>1. CASE StopCycle
    BY <2>1 DEF StopCycle, Idle
  <2>2. CASE StartFacts
    <3>1. PICK lag \in Lags : lag <= now /\ facts' = [stage |-> "STARTED", asOf |-> now - lag]
      BY <2>2 DEF StartFacts
    <3>2. now - lag \in Nat /\ now - lag <= now
      BY <3>1, ClockAssumption DEF FactsTypes
    <3> QED
      BY <3>1, <3>2
  <2>3. CASE ReadAccount
    BY <2>3 DEF ReadAccount, FactsAt, Idle, FactsTypes
  <2>4. CASE ReadHistory
    <3>1. \/ facts' = Idle
          \/ facts'.stage = "HISTORY" /\ facts'.asOf = facts.asOf /\ facts'.equity = facts.equity
      BY <2>4 DEF ReadHistory
    <3> QED
      BY <2>4, <3>1 DEF ReadHistory, FactsAt, Idle, FactsTypes, Reads
  <2>5. CASE ReadPositions
    <3>1. Prices \subseteq Nat
      BY ValueAssumption
    <3>2. \/ facts' = Idle
          \/ /\ facts'.stage = "POSITIONS" /\ facts'.asOf = facts.asOf /\ facts'.equity = facts.equity
             /\ facts'.open = held /\ facts'.price \in {0} \cup Prices
      BY <2>5 DEF ReadPositions
    <3>3. {0} \cup Prices \subseteq Nat
      BY <3>1
    <3> QED
      BY <2>5, <3>2, <3>3 DEF ReadPositions, FactsAt, Idle, FactsTypes, Reads
  <2> QED
    BY <2>1, <2>2, <2>3, <2>4, <2>5
<1> QED
  BY <1>1, <1>2 DEF FactsTypes, Reads

\* What a step that establishes the baseline decided.
LEMMA BaselineStep ==
    ASSUME FactsTypes, EstablishBaseline
    PROVE  \/ facts'.stage = "RAISED" /\ facts'.equity = 0 /\ UNCHANGED file
           \/ \E readFault, writeFault \in BOOLEAN :
                 LET key == TradingDayKey(facts.asOf, rolloverHour)
                     status == ReadStatus(readFault)
                     rollover == DecideRollover(status, key, facts.equity, rolloverHour)
                     persisted == IF status = "VALID" THEN file ELSE NoState
                     writes == rollover.state # NoState /\ rollover.state # persisted
                 IN  /\ facts.equity \in Equities \ {0} /\ key \in Int
                     /\ file' = IF writes /\ ~writeFault THEN rollover.state ELSE file
                     /\ facts' = [stage |-> "BASELINE", asOf |-> facts.asOf, equity |-> facts.equity,
                                  floating |-> facts.floating, deals |-> facts.deals,
                                  open |-> facts.open, price |-> facts.price,
                                  rollover |-> rollover, persisted |-> ~(writes /\ writeFault)]
<1> DEFINE key == TradingDayKey(facts.asOf, rolloverHour)
           status(f) == ReadStatus(f)
           rollover(f) == DecideRollover(status(f), key, facts.equity, rolloverHour)
           persisted(f) == IF status(f) = "VALID" THEN file ELSE NoState
           writes(f) == rollover(f).state # NoState /\ rollover(f).state # persisted(f)
<1>1. /\ facts.stage = "POSITIONS" /\ facts.equity \in Equities
      /\ facts.asOf \in Nat /\ rolloverHour \in Hours /\ shift \in Int
      /\ Equities \subseteq Nat
  BY ClockAssumption, ValueAssumption DEF EstablishBaseline, FactsAt, FactsTypes, Reads
<1>2. key \in Int
  BY <1>1, KeyType
<1>3. PICK r, v \in BOOLEAN :
          IF SnapshotIsValid(rollover(r), facts.equity)
          THEN /\ file' = IF writes(r) /\ ~v THEN rollover(r).state ELSE file
               /\ facts' = [stage |-> "BASELINE", asOf |-> facts.asOf, equity |-> facts.equity,
                            floating |-> facts.floating, deals |-> facts.deals,
                            open |-> facts.open, price |-> facts.price,
                            rollover |-> rollover(r), persisted |-> ~(writes(r) /\ v)]
          ELSE facts' = [stage |-> "RAISED", equity |-> facts.equity] /\ UNCHANGED file
  BY DEF EstablishBaseline
<1>4. CASE facts.equity = 0
  <2>1. ~SnapshotIsValid(rollover(r), facts.equity)
    BY <1>4 DEF SnapshotIsValid
  <2>2. facts' = [stage |-> "RAISED", equity |-> facts.equity] /\ UNCHANGED file
    BY <1>3, <2>1
  <2> QED
    BY <1>4, <2>2
<1>5. CASE facts.equity # 0
  <2>1. facts.equity \in Equities \ {0} /\ facts.equity > 0
    <3>1. facts.equity \in Nat
      BY <1>1
    <3> QED
      BY <1>1, <1>5, <3>1
  <2>2. /\ rollover(r).state = NoState \/ rollover(r).state \in RolloverStates(Int)
        /\ (rollover(r).state # NoState) <=> rollover(r).outcome \in UsableRollovers
    BY <1>1, <1>2, <2>1, RolloverDecision DEF FactsTypes
  <2>3. \A s \in RolloverStates(Int) : s.equity > 0
    <3>1. \A s \in RolloverStates(Int) : s.equity \in Equities /\ s.equity # 0
      BY DEF RolloverStates
    <3>2. \A e \in Equities : e # 0 => e > 0
      BY <1>1
    <3> QED
      BY <3>1, <3>2
  <2>4. SnapshotIsValid(rollover(r), facts.equity)
    <3> HIDE DEF rollover
    <3> QED
      BY <2>1, <2>2, <2>3 DEF SnapshotIsValid
  <2>5. /\ file' = IF writes(r) /\ ~v THEN rollover(r).state ELSE file
        /\ facts' = [stage |-> "BASELINE", asOf |-> facts.asOf, equity |-> facts.equity,
                     floating |-> facts.floating, deals |-> facts.deals,
                     open |-> facts.open, price |-> facts.price,
                     rollover |-> rollover(r), persisted |-> ~(writes(r) /\ v)]
    BY <1>3, <2>4
  <2> QED
    BY <1>2, <2>1, <2>5
<1> QED
  BY <1>4, <1>5

\* What the assembly hands on: it never raises, and it is ready only with a
\* baseline of the day and every deal of the day counted.
LEMMA AssembleStep ==
    ASSUME FactsTypes, AssembleFacts
    PROVE  LET key == TradingDayKey(facts.asOf, rolloverHour)
               baseline == facts.rollover.state
           IN  /\ facts.stage = "BASELINE"
               /\ facts'.stage = "DONE" /\ facts'.asOf = facts.asOf /\ facts'.floating = facts.floating
               /\ facts'.baseline = baseline
               /\ facts'.ready =>
                      /\ baseline # NoState /\ baseline.key = key
                      /\ facts'.realized = DealsOfTheDay(facts.deals, key, rolloverHour)
               /\ reported' = IF /\ baseline # NoState /\ facts.persisted
                                 /\ watched = [hour |-> rolloverHour, key |-> key]
                              THEN baseline
                              ELSE reported
<1> DEFINE key == TradingDayKey(facts.asOf, rolloverHour)
           baseline == facts.rollover.state
           pnl == RealizedDailyPnl(facts.deals, key, rolloverHour)
           risk(symbol) == OpenRisk(facts.open, facts.price, symbol)
           reasons(symbol) == AssemblyReasons(facts.rollover, key, pnl, risk(symbol))
<1>1. facts.stage = "BASELINE"
  BY DEF AssembleFacts, FactsAt
<1>2. PICK symbol \in {"OK", "ABSENT", "NO_TICK_VALUE"} :
          IF PnlIsValid(pnl) /\ OpenRiskIsValid(risk(symbol))
          THEN /\ facts' = [stage |-> "DONE", asOf |-> facts.asOf, ready |-> reasons(symbol) = {},
                            baseline |-> baseline, floating |-> facts.floating,
                            realized |-> pnl.counted, open |-> facts.open,
                            price |-> facts.price, risk |-> risk(symbol).risk]
               /\ reported' = IF baseline # NoState /\ facts.persisted /\ watched = [hour |-> rolloverHour, key |-> key]
                              THEN baseline
                              ELSE reported
          ELSE facts' = [stage |-> "RAISED", equity |-> facts.equity] /\ UNCHANGED reported
  BY DEF AssembleFacts
<1>3. PnlIsValid(pnl) /\ OpenRiskIsValid(risk(symbol))
  BY <1>1, AssessmentsAreValid DEF FactsTypes
<1>4. /\ facts' = [stage |-> "DONE", asOf |-> facts.asOf, ready |-> reasons(symbol) = {},
                   baseline |-> baseline, floating |-> facts.floating,
                   realized |-> pnl.counted, open |-> facts.open,
                   price |-> facts.price, risk |-> risk(symbol).risk]
      /\ reported' = IF baseline # NoState /\ facts.persisted /\ watched = [hour |-> rolloverHour, key |-> key]
                     THEN baseline
                     ELSE reported
  BY <1>2, <1>3
<1>5. ASSUME reasons(symbol) = {}
      PROVE  /\ baseline # NoState /\ baseline.key = key
             /\ pnl.counted = DealsOfTheDay(facts.deals, key, rolloverHour)
  <2>1. \A r \in BlockReasons :
            ~(\/ r = "ROLLOVER_UNAVAILABLE" /\ facts.rollover.outcome \notin UsableRollovers
              \/ r = "REALIZED_PNL_UNAVAILABLE" /\ pnl.outcome # "READY"
              \/ r = "TIMESTAMP_MISMATCH" /\ facts.rollover.state # NoState /\ facts.rollover.state.key # key)
    <3> HIDE DEF pnl, key, risk
    <3> QED
      BY <1>5 DEF AssemblyReasons
  <2>2. "ROLLOVER_UNAVAILABLE" \in BlockReasons /\ "REALIZED_PNL_UNAVAILABLE" \in BlockReasons
        /\ "TIMESTAMP_MISMATCH" \in BlockReasons
    BY DEF BlockReasons
  <2>3. facts.rollover.outcome \in UsableRollovers /\ pnl.outcome = "READY"
        /\ (facts.rollover.state # NoState => facts.rollover.state.key = key)
    <3> HIDE DEF pnl, key
    <3> QED
      BY <2>1, <2>2
  <2>4. baseline # NoState
    BY <1>1, <2>3 DEF FactsTypes
  <2>5. pnl.counted = DealsOfTheDay(facts.deals, key, rolloverHour)
    <3> HIDE DEF key
    <3> QED
      BY <2>3 DEF RealizedDailyPnl
  <2> QED
    BY <2>3, <2>4, <2>5
<1>6. /\ facts'.stage = "DONE" /\ facts'.asOf = facts.asOf /\ facts'.floating = facts.floating
      /\ facts'.baseline = baseline /\ facts'.ready = (reasons(symbol) = {})
      /\ facts'.realized = pnl.counted
  <2> HIDE DEF reasons, risk, pnl
  <2> QED
    BY <1>4
<1> HIDE DEF reasons, risk, pnl
<1> QED
  BY <1>1, <1>4, <1>5, <1>6

\* Every step keeps the types.
LEMMA FactsTypesNext == FactsTypes /\ [FactsNext]_factsVars => FactsTypes'
<1> SUFFICES ASSUME FactsTypes, [FactsNext]_factsVars PROVE FactsTypes'
  OBVIOUS
<1>1. CASE EstablishBaseline
  <2>1. UNCHANGED <<now, held, dealt, shift, rolloverHour, watched, reported>>
    BY <1>1 DEF EstablishBaseline, brokerVars, policyVars
  <2>2. /\ facts.stage = "POSITIONS" /\ rolloverHour \in Hours
    BY <1>1 DEF EstablishBaseline, FactsAt, FactsTypes
  <2>3. CASE facts'.stage = "RAISED" /\ UNCHANGED file
    BY <2>1, <2>3 DEF FactsTypes, Reads
  <2>4. CASE ~(facts'.stage = "RAISED" /\ UNCHANGED file)
    <3> DEFINE key == TradingDayKey(facts.asOf, rolloverHour)
               rollover(r) == DecideRollover(ReadStatus(r), key, facts.equity, rolloverHour)
    <3>1. PICK r \in BOOLEAN :
              /\ facts.equity \in Equities \ {0} /\ key \in Int
              /\ (file' = rollover(r).state /\ rollover(r).state # NoState) \/ file' = file
              /\ facts'.stage = "BASELINE" /\ facts'.asOf = facts.asOf /\ facts'.equity = facts.equity
              /\ facts'.open = facts.open /\ facts'.price = facts.price
              /\ facts'.rollover = rollover(r)
      BY <1>1, <2>4, BaselineStep
    <3>2. /\ rollover(r).state = NoState \/ rollover(r).state \in RolloverStates(Int)
          /\ (rollover(r).state # NoState) <=> rollover(r).outcome \in UsableRollovers
      BY <2>2, <3>1, RolloverDecision DEF FactsTypes
    <3> HIDE DEF rollover
    <3> QED
      BY <2>1, <2>2, <3>1, <3>2 DEF FactsTypes, Reads
  <2> QED
    BY <2>3, <2>4
<1>2. CASE AssembleFacts
  <2>1. UNCHANGED <<now, held, dealt, shift, rolloverHour, watched, file>>
    BY <1>2 DEF AssembleFacts, brokerVars, policyVars
  <2>2. /\ facts.stage = "BASELINE" /\ facts'.stage = "DONE" /\ facts'.asOf = facts.asOf
        /\ reported' = facts.rollover.state \/ reported' = reported
    BY <1>2, AssembleStep
  <2> QED
    BY <2>1, <2>2 DEF FactsTypes, Reads
<1>3. CASE ChangePolicy
  BY <1>3 DEF ChangePolicy, brokerVars, Idle, FactsTypes, Reads
<1>4. CASE DayPasses \/ OpenPosition \/ ClosePosition
  <2>1. /\ now' = now + 1 /\ UNCHANGED <<shift, rolloverHour, watched, file, facts, reported>>
    BY <1>4 DEF DayPasses, OpenPosition, ClosePosition, policyVars
  <2>2. IsFiniteSet(held') /\ \A p \in held' : IsPosition(p)
    <3>1. CASE DayPasses
      BY <3>1 DEF DayPasses, FactsTypes
    <3>2. CASE OpenPosition
      <4>1. PICK t \in Tickets, s \in PositionShapes :
                held' = held \cup {[ticket |-> t, side |-> s.side, open |-> s.open, stop |-> s.stop]}
        BY <3>2 DEF OpenPosition
      <4>2. s.side \in {"BUY", "SELL"} /\ s.open \in Nat /\ s.stop \in Nat
        BY ValueAssumption
      <4> DEFINE new == [ticket |-> t, side |-> s.side, open |-> s.open, stop |-> s.stop]
      <4>3. IsPosition(new)
        BY <4>2 DEF IsPosition
      <4> HIDE DEF new
      <4>4. held' = held \cup {new}
        BY <4>1 DEF new
      <4> QED
        BY <4>3, <4>4, FS_AddElement DEF FactsTypes
    <3>3. CASE ClosePosition
      <4>1. held' \subseteq held
        BY <3>3 DEF ClosePosition
      <4> QED
        BY <4>1, FS_Subset DEF FactsTypes
    <3> QED
      BY <1>4, <3>1, <3>2, <3>3
  <2>3. now' \in Nat /\ now <= now'
    BY <2>1 DEF FactsTypes
  <2>4. facts.stage \in {"STARTED", "DONE"} \cup Reads => facts.asOf \in Nat /\ facts.asOf <= now'
    BY <2>1 DEF FactsTypes
  <2> QED
    BY <2>1, <2>2, <2>3, <2>4 DEF FactsTypes
<1>5. CASE UNCHANGED factsVars
  BY <1>5 DEF factsVars, FactsTypes
<1> QED
  BY <1>1, <1>2, <1>3, <1>4, <1>5, FactsTypesRead DEF FactsNext

-----------------------------------------------------------------------------
(* The account, the deals and the positions are read one after the other.   *)

\* The trading day of the cycle.
Key == TradingDayKey(facts.asOf, rolloverHour)

DealsOf(start) == {d \in dealt : start <= d.time /\ d.time <= facts.asOf}

DealsOnDay == {d \in dealt : d.time <= facts.asOf /\ TradingDayKey(d.time, rolloverHour) = Key}

\* The broker's book: one position per ticket, and none of a deal that closed
\* one.
BookInv ==
    /\ \A p \in held : p.ticket \in Used
    /\ \A p, q \in held : p.ticket = q.ticket => p = q
    /\ \A d \in dealt : d.time \in 1 .. now
    /\ \A d \in dealt, p \in held : d.entry # "IN" => p.ticket # d.ticket

\* A position that was open when the account was read has no closing deal up
\* to as_of, then or later.
FloatingInv ==
    facts.stage \in Reads \cup {"DONE"} =>
        \A d \in dealt, p \in facts.floating :
            d.entry # "IN" /\ d.time <= facts.asOf => p.ticket # d.ticket

\* The deals that were read are those of the day up to as_of, and maybe
\* earlier ones; those that are counted are of the day.
DealsInv ==
    /\ facts.stage \in {"HISTORY", "POSITIONS", "BASELINE"} =>
           facts.deals \in {DealsOf(0), DealsOf(DayBegin(Key, rolloverHour))}
    /\ Ready => facts.baseline.key = Key /\ facts.realized = DealsOnDay

\* What the broker does to the book.
LEMMA BrokerBook ==
    ASSUME DayPasses \/ OpenPosition \/ ClosePosition
    PROVE  /\ UNCHANGED <<shift, rolloverHour, watched, file, facts, reported>> /\ now' = now + 1
           /\ dealt \subseteq dealt' /\ \A d \in dealt' \ dealt : d.time = now + 1
BY DEF DayPasses, OpenPosition, ClosePosition, policyVars

\* The book stays one.
LEMMA BookNext == FactsTypes /\ BookInv /\ [FactsNext]_factsVars => BookInv'
<1> SUFFICES ASSUME FactsTypes, BookInv, [FactsNext]_factsVars PROVE BookInv'
  OBVIOUS
<1>1. ASSUME UNCHANGED <<now, held, dealt>> PROVE BookInv'
  BY <1>1 DEF BookInv, Used
<1>2. CASE DayPasses \/ OpenPosition \/ ClosePosition
  <2>1. now' = now + 1 /\ now \in Nat /\ dealt \subseteq dealt'
        /\ \A d \in dealt' \ dealt : d.time = now + 1
    BY <1>2, BrokerBook DEF FactsTypes
  <2>2. \A d \in dealt' : d.time \in 1 .. now'
    BY <2>1 DEF BookInv
  <2>3. Used \subseteq Used'
    BY <2>1 DEF Used
  <2>4. CASE DayPasses
    BY <2>2, <2>4 DEF DayPasses, BookInv, Used
  <2>5. CASE OpenPosition
    <3>1. PICK t \in Tickets \ Used, s \in PositionShapes :
              /\ held' = held \cup {[ticket |-> t, side |-> s.side, open |-> s.open, stop |-> s.stop]}
              /\ dealt' = dealt \cup {[ticket |-> t, entry |-> "IN", type |-> s.side, time |-> now']}
      BY <2>5 DEF OpenPosition
    <3> DEFINE new == [ticket |-> t, side |-> s.side, open |-> s.open, stop |-> s.stop]
               deal == [ticket |-> t, entry |-> "IN", type |-> s.side, time |-> now']
    <3>2. new.ticket = t /\ deal.ticket = t /\ deal.entry = "IN"
      OBVIOUS
    <3>3. held' = held \cup {new} /\ dealt' = dealt \cup {deal} /\ t \notin Used
      BY <3>1
    <3> HIDE DEF new, deal
    <3>4. \A d \in dealt : d.ticket # t
      BY <3>3 DEF Used
    <3>5. \A p \in held : p.ticket # t
      BY <3>3 DEF BookInv
    <3>6. t \in Used'
      BY <3>2, <3>3 DEF Used
    <3>7. \A p \in held' : p.ticket \in Used'
      BY <2>3, <3>2, <3>3, <3>6 DEF BookInv
    <3>8. \A p, q \in held' : p.ticket = q.ticket => p = q
      BY <3>2, <3>3, <3>5 DEF BookInv
    <3>9. \A d \in dealt', p \in held' : d.entry # "IN" => p.ticket # d.ticket
      BY <3>2, <3>3, <3>4 DEF BookInv
    <3> QED
      BY <2>2, <3>7, <3>8, <3>9 DEF BookInv
  <2>6. CASE ClosePosition
    <3>1. PICK p \in held, entry \in {"OUT", "OUT_BY"} :
              /\ held' = held \ {p}
              /\ dealt' = dealt \cup {[ticket |-> p.ticket, entry |-> entry, type |-> p.side, time |-> now']}
      BY <2>6 DEF ClosePosition
    <3>2. \A d \in dealt' \ dealt : d.ticket = p.ticket
      BY <3>1
    <3>3. \A d \in dealt', q \in held' : d.entry # "IN" => q.ticket # d.ticket
      BY <3>1, <3>2 DEF BookInv
    <3>4. \A q \in held' : q.ticket \in Used'
      BY <2>3, <3>1 DEF BookInv
    <3>5. \A q, r \in held' : q.ticket = r.ticket => q = r
      BY <3>1 DEF BookInv
    <3> QED
      BY <2>2, <3>3, <3>4, <3>5 DEF BookInv
  <2> QED
    BY <1>2, <2>4, <2>5, <2>6
<1>3. ASSUME ~(DayPasses \/ OpenPosition \/ ClosePosition)
      PROVE  UNCHANGED <<now, held, dealt>>
  BY <1>3 DEF FactsNext, factsVars, StartFacts, ReadAccount, ReadHistory, ReadPositions,
     EstablishBaseline, AssembleFacts, StopCycle, ChangePolicy, brokerVars
<1> QED
  BY <1>1, <1>2, <1>3

\* A step of the broker leaves what was dealt up to as_of as it was.
LEMMA EarlierDeals ==
    ASSUME FactsTypes, DayPasses \/ OpenPosition \/ ClosePosition,
           facts.stage \in {"STARTED", "DONE"} \cup Reads
    PROVE  \A d \in dealt' : d.time <= facts.asOf => d \in dealt
<1>1. facts.asOf \in Nat /\ facts.asOf <= now /\ now \in Nat
  BY DEF FactsTypes
<1> QED
  BY <1>1, BrokerBook

\* The account and the deals fit together at every later moment.
LEMMA FloatingNext ==
    FactsTypes /\ BookInv /\ FloatingInv /\ [FactsNext]_factsVars => FloatingInv'
<1> SUFFICES ASSUME FactsTypes, BookInv, FloatingInv, [FactsNext]_factsVars PROVE FloatingInv'
  OBVIOUS
<1>1. CASE StartFacts \/ StopCycle \/ ChangePolicy
  <2>1. facts'.stage \in {"IDLE", "STARTED"}
    BY <1>1 DEF StartFacts, StopCycle, ChangePolicy, Idle
  <2> QED
    BY <2>1 DEF FloatingInv, Reads
<1>2. CASE ReadAccount
  <2>1. UNCHANGED dealt
    BY <1>2 DEF ReadAccount, brokerVars
  <2>2. \/ facts'.stage = "IDLE"
        \/ facts'.floating = held
    BY <1>2 DEF ReadAccount, Idle
  <2>3. CASE facts'.stage = "IDLE"
    BY <2>3 DEF FloatingInv, Reads
  <2>4. CASE facts'.floating = held
    BY <2>1, <2>4 DEF FloatingInv, BookInv
  <2> QED
    BY <2>2, <2>3, <2>4
<1>3. CASE ReadHistory \/ ReadPositions \/ EstablishBaseline \/ AssembleFacts
  <2>1. UNCHANGED dealt
    BY <1>3 DEF ReadHistory, ReadPositions, EstablishBaseline, AssembleFacts, brokerVars
  <2>2. facts.stage \in Reads
    BY <1>3 DEF ReadHistory, ReadPositions, EstablishBaseline, AssembleFacts, FactsAt, Reads
  <2>3. \/ facts'.stage \in {"IDLE", "RAISED"}
        \/ facts'.floating = facts.floating /\ facts'.asOf = facts.asOf
    <3>1. CASE ReadHistory
      BY <3>1 DEF ReadHistory, Idle
    <3>2. CASE ReadPositions
      BY <3>2 DEF ReadPositions, Idle
    <3>3. CASE EstablishBaseline
      BY <3>3, BaselineStep
    <3>4. CASE AssembleFacts
      BY <3>4, AssembleStep
    <3> QED
      BY <1>3, <3>1, <3>2, <3>3, <3>4
  <2> QED
    BY <2>1, <2>2, <2>3 DEF FloatingInv, Reads
<1>4. CASE DayPasses \/ OpenPosition \/ ClosePosition
  <2>1. UNCHANGED facts
    BY <1>4, BrokerBook
  <2> QED
    BY <1>4, <2>1, EarlierDeals DEF FloatingInv
<1>5. CASE UNCHANGED factsVars
  BY <1>5 DEF factsVars, FloatingInv
<1> QED
  BY <1>1, <1>2, <1>3, <1>4, <1>5 DEF FactsNext

\* The deals that count are those of the trading day.
LEMMA DayIsCounted ==
    ASSUME FactsTypes, BookInv, DealsInv, shift \in {-1, 0, 1}, facts.stage = "BASELINE"
    PROVE  DealsOfTheDay(facts.deals, Key, rolloverHour) = DealsOnDay
<1> DEFINE b == DayBegin(Key, rolloverHour)
           e == DayEnd(Key, rolloverHour)
<1>1. facts.asOf \in Nat /\ rolloverHour \in Hours /\ Key \in Int
  BY KeyType DEF FactsTypes, Key, Reads
<1>2. b \in Int
  <2>1. DayLength \in Int /\ rolloverHour \in Int /\ ShiftAt \in Int
    BY <1>1, ClockAssumption
  <2> QED
    BY <1>1, <2>1 DEF DayBegin, InstantOf
<1>3. \A d \in dealt : d.time \in Int /\ ~(d.time <= Epoch) /\ 0 <= d.time
  BY DEF BookInv, FactsTypes, Epoch
<1>4. \A d \in dealt : b <= d.time /\ d.time < e <=> TradingDayKey(d.time, rolloverHour) = Key
  BY <1>1, <1>3, DayBorders
<1>5. facts.deals \in {DealsOf(0), DealsOf(b)}
  BY DEF DealsInv
<1>6. DealsOfTheDay(facts.deals, Key, rolloverHour)
          = {d \in facts.deals : d.time <= Epoch \/ (b <= d.time /\ d.time < e)}
  BY DEF DealsOfTheDay
<1> HIDE DEF b, e
<1> QED
  BY <1>1, <1>2, <1>3, <1>4, <1>5, <1>6 DEF DealsOf, DealsOnDay

\* The trading day of a cycle stays the same while it is in progress.
LEMMA CalendarKept ==
    ASSUME UNCHANGED <<shift, rolloverHour>>, facts'.asOf = facts.asOf
    PROVE  /\ Key' = Key /\ DayBegin(Key, rolloverHour)' = DayBegin(Key, rolloverHour)
           /\ \A t : TradingDayKey(t, rolloverHour)' = TradingDayKey(t, rolloverHour)
<1>1. \A t : TradingDayKey(t, rolloverHour)' = TradingDayKey(t, rolloverHour)
  BY DEF TradingDayKey, Wall
<1>2. Key' = Key
  BY DEF Key, TradingDayKey, Wall
<1>3. DayBegin(Key, rolloverHour)' = DayBegin(Key, rolloverHour)
  BY <1>2 DEF DayBegin, InstantOf
<1> QED
  BY <1>1, <1>2, <1>3

\* The deals of a cycle stay those of its day.
LEMMA DealsNext ==
    ASSUME Shifts \subseteq {-1, 0, 1}
    PROVE  FactsTypes /\ BookInv /\ DealsInv /\ [FactsNext]_factsVars => DealsInv'
<1> SUFFICES ASSUME FactsTypes, BookInv, DealsInv, [FactsNext]_factsVars PROVE DealsInv'
  OBVIOUS
<1>1. shift \in {-1, 0, 1}
  BY DEF FactsTypes
<1>2. CASE StartFacts \/ ReadAccount \/ StopCycle \/ ChangePolicy
  <2>1. facts'.stage \in {"IDLE", "STARTED", "ACCOUNT"}
    BY <1>2 DEF StartFacts, ReadAccount, StopCycle, ChangePolicy, Idle
  <2> QED
    BY <2>1 DEF DealsInv, Ready
<1>3. CASE ReadHistory
  <2>1. CASE facts' = Idle
    BY <2>1 DEF DealsInv, Ready, Idle
  <2>2. CASE facts' # Idle
    <3>1. UNCHANGED <<dealt, shift, rolloverHour>>
      BY <1>3 DEF ReadHistory, brokerVars, policyVars
    <3>2. PICK start \in {0, DayBegin(Key, rolloverHour)} :
              facts'.stage = "HISTORY" /\ facts'.asOf = facts.asOf /\ facts'.deals = DealsOf(start)
      BY <1>3, <2>2 DEF ReadHistory, Key, DealsOf
    <3>3. DayBegin(Key, rolloverHour)' = DayBegin(Key, rolloverHour)
      BY <3>1, <3>2, CalendarKept
    <3>4. facts'.deals \in {DealsOf(0)', DealsOf(DayBegin(Key, rolloverHour))'}
      <4>1. DealsOf(0)' = DealsOf(0)
        BY <3>1, <3>2 DEF DealsOf
      <4>2. DealsOf(DayBegin(Key, rolloverHour))' = DealsOf(DayBegin(Key, rolloverHour))
        BY <3>1, <3>2, <3>3 DEF DealsOf
      <4> QED
        BY <3>2, <4>1, <4>2
    <3> QED
      BY <3>2, <3>4 DEF DealsInv, Ready
  <2> QED
    BY <2>1, <2>2
<1>4. CASE ReadPositions \/ EstablishBaseline
  <2>1. UNCHANGED <<dealt, shift, rolloverHour>>
    BY <1>4 DEF ReadPositions, EstablishBaseline, brokerVars, policyVars
  <2>2. facts.stage \in {"HISTORY", "POSITIONS"}
    BY <1>4 DEF ReadPositions, EstablishBaseline, FactsAt
  <2>3. \/ facts'.stage \in {"IDLE", "RAISED"}
        \/ /\ facts'.stage \in {"POSITIONS", "BASELINE"}
           /\ facts'.asOf = facts.asOf /\ facts'.deals = facts.deals
    <3>1. CASE ReadPositions
      BY <3>1 DEF ReadPositions, Idle
    <3>2. CASE EstablishBaseline
      BY <3>2, BaselineStep
    <3> QED
      BY <1>4, <3>1, <3>2
  <2>4. CASE facts'.stage \in {"IDLE", "RAISED"}
    BY <2>4 DEF DealsInv, Ready
  <2>5. CASE facts'.stage \in {"POSITIONS", "BASELINE"} /\ facts'.asOf = facts.asOf /\ facts'.deals = facts.deals
    <3>1. DayBegin(Key, rolloverHour)' = DayBegin(Key, rolloverHour)
      BY <2>1, <2>5, CalendarKept
    <3>2. /\ DealsOf(0)' = DealsOf(0)
          /\ DealsOf(DayBegin(Key, rolloverHour))' = DealsOf(DayBegin(Key, rolloverHour))
      BY <2>1, <2>5, <3>1 DEF DealsOf
    <3> QED
      BY <2>2, <2>5, <3>2 DEF DealsInv, Ready
  <2> QED
    BY <2>3, <2>4, <2>5
<1>5. CASE AssembleFacts
  <2>1. UNCHANGED <<dealt, shift, rolloverHour>>
    BY <1>5 DEF AssembleFacts, brokerVars, policyVars
  <2>2. /\ facts.stage = "BASELINE" /\ facts'.stage = "DONE" /\ facts'.asOf = facts.asOf
        /\ facts'.ready => facts'.baseline.key = Key
                           /\ facts'.realized = DealsOfTheDay(facts.deals, Key, rolloverHour)
    BY <1>5, AssembleStep DEF Key
  <2>3. facts'.ready => facts'.baseline.key = Key /\ facts'.realized = DealsOnDay
    BY <1>1, <2>2, DayIsCounted
  <2>4. Key' = Key /\ DealsOnDay' = DealsOnDay
    <3>1. Key' = Key /\ \A t : TradingDayKey(t, rolloverHour)' = TradingDayKey(t, rolloverHour)
      BY <2>1, <2>2, CalendarKept
    <3> QED
      BY <2>1, <2>2, <3>1 DEF DealsOnDay
  <2> QED
    BY <2>2, <2>3, <2>4 DEF DealsInv, Ready
<1>6. CASE DayPasses \/ OpenPosition \/ ClosePosition
  <2>1. UNCHANGED <<shift, rolloverHour, facts>> /\ dealt \subseteq dealt'
    BY <1>6, BrokerBook
  <2>2. /\ Key' = Key /\ DayBegin(Key, rolloverHour)' = DayBegin(Key, rolloverHour)
        /\ \A t : TradingDayKey(t, rolloverHour)' = TradingDayKey(t, rolloverHour)
    BY <2>1, CalendarKept
  <2>3. ASSUME facts.stage \in {"STARTED", "DONE"} \cup Reads
        PROVE  /\ DealsOf(0)' = DealsOf(0) /\ DealsOnDay' = DealsOnDay
               /\ DealsOf(DayBegin(Key, rolloverHour))' = DealsOf(DayBegin(Key, rolloverHour))
    <3>1. \A d \in dealt' : d.time <= facts.asOf => d \in dealt
      BY <1>6, <2>3, EarlierDeals
    <3> QED
      BY <2>1, <2>2, <3>1 DEF DealsOf, DealsOnDay
  <2> QED
    BY <2>1, <2>2, <2>3 DEF DealsInv, Ready, Reads
<1>7. CASE UNCHANGED factsVars
  <2>1. UNCHANGED <<dealt, shift, rolloverHour, facts>>
    BY <1>7 DEF factsVars
  <2>2. /\ Key' = Key /\ DayBegin(Key, rolloverHour)' = DayBegin(Key, rolloverHour)
        /\ \A t : TradingDayKey(t, rolloverHour)' = TradingDayKey(t, rolloverHour)
    BY <2>1, CalendarKept
  <2>3. /\ DealsOf(0)' = DealsOf(0) /\ DealsOnDay' = DealsOnDay
        /\ DealsOf(DayBegin(Key, rolloverHour))' = DealsOf(DayBegin(Key, rolloverHour))
    BY <2>1, <2>2 DEF DealsOf, DealsOnDay
  <2> QED
    BY <2>1, <2>2, <2>3 DEF DealsInv, Ready
<1> QED
  BY <1>2, <1>3, <1>4, <1>5, <1>6, <1>7 DEF FactsNext

-----------------------------------------------------------------------------
(* The baseline of the watched day.                                         *)

IsWatched == watched = [hour |-> rolloverHour, key |-> Key]

\* Once a baseline was reported, the file holds it or that of a later day:
\* no cycle decides otherwise, and the cycle at work has decided the same.
FileInv ==
    /\ reported # NoState =>
           /\ reported.key = watched.key /\ reported.hour = watched.hour
           /\ file \in RolloverStates(Int)
           /\ file = reported \/ file.key > watched.key
    /\ facts.stage = "BASELINE" /\ facts.rollover.state # NoState =>
           /\ facts.rollover.state.key = Key /\ facts.rollover.state.hour = rolloverHour
           /\ facts.persisted => file = facts.rollover.state
           /\ reported # NoState /\ IsWatched => facts.rollover.state = reported
    /\ BaselineIsKept

\* Every step keeps the file and what is reported together.
LEMMA FileNext == FactsTypes /\ FileInv /\ [FactsNext]_factsVars => FileInv'
<1> SUFFICES ASSUME FactsTypes, FileInv, [FactsNext]_factsVars PROVE FileInv'
  OBVIOUS
<1>1. CASE StartFacts \/ ReadAccount \/ ReadHistory \/ ReadPositions \/ StopCycle \/ ChangePolicy
  <2>1. UNCHANGED <<file, reported, watched>>
    BY <1>1 DEF StartFacts, ReadAccount, ReadHistory, ReadPositions, StopCycle, ChangePolicy,
       brokerVars, policyVars
  <2>2. facts'.stage \notin {"BASELINE", "DONE"}
    BY <1>1 DEF StartFacts, ReadAccount, ReadHistory, ReadPositions, StopCycle, ChangePolicy, Idle
  <2> QED
    BY <2>1, <2>2 DEF FileInv, BaselineIsKept, Ready
<1>2. CASE EstablishBaseline
  <2>1. UNCHANGED <<reported, watched, shift, rolloverHour>>
    BY <1>2 DEF EstablishBaseline, policyVars
  <2>2. facts.stage = "POSITIONS" /\ rolloverHour \in Hours /\ file \in RolloverStates(Int) \cup {NoFile, BadFile}
    BY <1>2 DEF EstablishBaseline, FactsAt, FactsTypes
  <2>3. CASE facts'.stage = "RAISED" /\ UNCHANGED file
    BY <2>1, <2>3 DEF FileInv, BaselineIsKept, Ready
  <2>4. CASE ~(facts'.stage = "RAISED" /\ UNCHANGED file)
    <3> DEFINE status(r) == ReadStatus(r)
               rollover(r) == DecideRollover(status(r), Key, facts.equity, rolloverHour)
               persisted(r) == IF status(r) = "VALID" THEN file ELSE NoState
               writes(r) == rollover(r).state # NoState /\ rollover(r).state # persisted(r)
    <3>1. PICK r \in BOOLEAN, v \in BOOLEAN :
              /\ facts.equity \in Equities \ {0} /\ Key \in Int
              /\ file' = IF writes(r) /\ ~v THEN rollover(r).state ELSE file
              /\ facts'.stage = "BASELINE" /\ facts'.asOf = facts.asOf
              /\ facts'.rollover = rollover(r) /\ facts'.persisted = ~(writes(r) /\ v)
      BY <1>2, <2>4, BaselineStep DEF Key
    <3>2. /\ rollover(r).state = NoState \/ (rollover(r).state \in RolloverStates(Int) /\ rollover(r).state.key = Key
                                             /\ rollover(r).state.hour = rolloverHour)
          /\ rollover(r).state # NoState => status(r) \in {"ABSENT", "VALID"}
          /\ status(r) = "VALID" <=> ~r /\ file \in RolloverStates(Int)
          /\ status(r) = "ABSENT" => file = NoFile
          /\ rollover(r).state # NoState /\ status(r) = "VALID" =>
                 Key > file.key \/ (Key = file.key /\ rollover(r).state = file)
      BY <2>2, <3>1, RolloverDecision
    <3> DEFINE state == rollover(r).state
               valid == status(r) = "VALID"
    <3>3. /\ state = NoState \/ (state \in RolloverStates(Int) /\ state.key = Key /\ state.hour = rolloverHour)
          /\ state # NoState /\ ~valid => file = NoFile
          /\ valid => file \in RolloverStates(Int)
          /\ state # NoState /\ valid => Key > file.key \/ (Key = file.key /\ state = file)
          /\ writes(r) <=> state # NoState /\ state # (IF valid THEN file ELSE NoState)
      BY <3>2
    <3>4. facts'.rollover.state = state
      BY <3>1
    <3> HIDE DEF state, valid, writes, rollover, status
    <3>5. Key' = Key /\ (IsWatched' <=> IsWatched)
      BY <2>1, <3>1, CalendarKept DEF IsWatched
    <3>6. IsWatched => watched.key = Key
      BY DEF IsWatched
    <3>7. \A s \in RolloverStates(Int) : s.key \in Int
      BY DEF RolloverStates
    <3>8. watched.key \in Int
      BY DEF FactsTypes
    <3>9. /\ ~writes(r) \/ v => file' = file
          /\ writes(r) /\ ~v => file' = state
          /\ facts'.persisted => ~writes(r) \/ ~v
      BY <3>1 DEF state
    <3>10. reported # NoState /\ state # NoState =>
               /\ file \in RolloverStates(Int) /\ valid
               /\ reported.key = watched.key /\ (file = reported \/ file.key > watched.key)
               /\ Key > file.key \/ (Key = file.key /\ state = file)
      BY <3>3, NoStateAssumption DEF FileInv
    <3>11. reported # NoState =>
               /\ file' \in RolloverStates(Int)
               /\ file' = reported \/ file'.key > watched.key
      <4>1. CASE file' = file
        BY <4>1 DEF FileInv
      <4>2. CASE writes(r) /\ ~v
        <5>1. file' = state /\ state \in RolloverStates(Int) /\ state # NoState /\ state.key = Key
          BY <3>3, <3>9, <4>2
        <5> SUFFICES ASSUME reported # NoState
                     PROVE  file' = reported \/ file'.key > watched.key
          BY <5>1
        <5>2. file.key \in Int /\ Key \in Int
          BY <3>1, <3>7, <3>10, <5>1
        <5>3. CASE state = file
          BY <3>10, <5>1, <5>3
        <5>4. CASE Key > file.key
          BY <3>8, <3>10, <5>1, <5>2, <5>4
        <5> QED
          BY <3>10, <5>1, <5>3, <5>4
      <4> QED
        BY <3>9, <4>1, <4>2
    <3>12. state # NoState /\ facts'.persisted => file' = state
      <4>1. state # NoState /\ ~writes(r) => state = file
        BY <3>3
      <4> QED
        BY <3>9, <4>1
    <3>13. state # NoState /\ reported # NoState /\ IsWatched => state = reported
      <4> SUFFICES ASSUME state # NoState, reported # NoState, IsWatched PROVE state = reported
        OBVIOUS
      <4>1. file.key \in Int
        BY <3>7, <3>10
      <4> QED
        BY <3>6, <3>8, <3>10, <4>1
    <3>14. ~Ready'
      BY <3>1 DEF Ready
    <3>15. state # NoState => state.key = Key' /\ state.hour = rolloverHour'
      BY <2>1, <3>3, <3>5
    <3> QED
      BY <2>1, <3>4, <3>5, <3>11, <3>12, <3>13, <3>14, <3>15 DEF FileInv, BaselineIsKept
  <2> QED
    BY <2>3, <2>4
<1>3. CASE AssembleFacts
  <2>1. UNCHANGED <<file, watched, shift, rolloverHour>>
    BY <1>3 DEF AssembleFacts, policyVars
  <2>2. /\ facts.stage = "BASELINE" /\ facts'.stage = "DONE" /\ facts'.asOf = facts.asOf
        /\ facts'.baseline = facts.rollover.state
        /\ facts'.ready => facts.rollover.state # NoState
        /\ reported' = IF facts.rollover.state # NoState /\ facts.persisted /\ IsWatched
                       THEN facts.rollover.state
                       ELSE reported
    BY <1>3, AssembleStep DEF Key, IsWatched
  <2>3. Key' = Key /\ (IsWatched' <=> IsWatched)
    BY <2>1, <2>2, CalendarKept DEF IsWatched
  <2>4. IsWatched => watched.key = Key /\ watched.hour = rolloverHour
    BY DEF IsWatched
  <2>5. facts.rollover.state \in RolloverStates(Int) \cup {NoState}
    BY <2>2 DEF FactsTypes
  <2>6. reported' # NoState =>
            /\ reported'.key = watched.key /\ reported'.hour = watched.hour
            /\ file \in RolloverStates(Int)
            /\ file = reported' \/ file.key > watched.key
    BY <2>2, <2>4, <2>5 DEF FileInv
  <2>7. facts'.ready /\ reported' # NoState /\ IsWatched => facts'.baseline = reported'
    BY <2>2 DEF FileInv
  <2>8. BaselineIsKept'
    BY <2>1, <2>3, <2>7 DEF BaselineIsKept, Ready, IsWatched, Key
  <2> QED
    BY <2>1, <2>2, <2>6, <2>8 DEF FileInv
<1>4. ASSUME UNCHANGED <<shift, rolloverHour, watched, file, facts, reported>>
      PROVE  FileInv'
  <2>1. Key' = Key /\ IsWatched' = IsWatched
    BY <1>4, CalendarKept DEF IsWatched
  <2>2. BaselineIsKept' <=> BaselineIsKept
    BY <1>4, <2>1 DEF BaselineIsKept, Ready, Key
  <2> QED
    BY <1>4, <2>1, <2>2 DEF FileInv
<1>5. CASE DayPasses \/ OpenPosition \/ ClosePosition
  BY <1>4, <1>5, BrokerBook
<1>6. CASE UNCHANGED factsVars
  BY <1>4, <1>6 DEF factsVars
<1> QED
  BY <1>1, <1>2, <1>3, <1>5, <1>6 DEF FactsNext

-----------------------------------------------------------------------------
(* The theorems.                                                            *)

\* The types hold in every run.
THEOREM FactsAreTyped == FactsSpec => []FactsTypes
<1> QED
  BY FactsTypesInit, FactsTypesNext, PTL DEF FactsSpec

\* A trading day has one baseline (app/mt5/rollover.py): for every calendar,
\* every order of cycles, restarts and policies, and whichever reads and
\* writes of the file fail.
THEOREM BaselineHolds == FactsSpec => []BaselineIsKept
<1>1. FactsInit => FileInv
  BY DEF FactsInit, FileInv, BaselineIsKept, Ready, Idle
<1>2. FileInv => BaselineIsKept
  BY DEF FileInv
<1> QED
  BY <1>1, <1>2, FactsAreTyped, FileNext, PTL DEF FactsSpec

\* The facts of a cycle that goes on are of one trading day and book no deal
\* twice (app/orchestration/facts.py, app/mt5/history.py): for every account
\* and every interleaving with the broker, in a time zone that changes its
\* offset by an hour at most.  By more, a border of the day could fall among
\* the readings that are skipped or repeated, and a deal there be of the
\* wrong day.
THEOREM OneDay ==
    ASSUME Shifts \subseteq {-1, 0, 1}
    PROVE  FactsSpec => []FactsAreOfOneDay
<1>1. FactsInit => BookInv /\ FloatingInv /\ DealsInv
  BY DEF FactsInit, BookInv, FloatingInv, DealsInv, Ready, Idle, Reads
<1>2. FactsTypes /\ BookInv /\ DealsInv /\ [FactsNext]_factsVars => DealsInv'
  BY DealsNext
<1>3. FloatingInv /\ DealsInv => FactsAreOfOneDay
  <2> SUFFICES ASSUME FloatingInv, DealsInv, Ready
               PROVE  /\ facts.baseline.key = Key
                      /\ facts.realized = DealsOnDay
                      /\ \A d \in facts.realized :
                             d.entry # "IN" => \A p \in facts.floating : p.ticket # d.ticket
    BY DEF FactsAreOfOneDay, Key, DealsOnDay
  <2>1. facts.baseline.key = Key /\ facts.realized = DealsOnDay
    BY DEF DealsInv
  <2> QED
    BY <2>1 DEF FloatingInv, DealsOnDay, Ready
<1> QED
  BY <1>1, <1>2, <1>3, FactsAreTyped, BookNext, FloatingNext, PTL DEF FactsSpec

\* A cycle raises on its own facts only when the account is worth nothing
\* (MT5RolloverSnapshot, MT5RealizedDailyPnLAssessment, MT5OpenRiskAssessment):
\* whatever was read, the assessments are ones their models accept.
THEOREM OnlyEmptyRaise == FactsSpec => []OnlyEmptyAccountsRaise
<1>1. FactsInit => OnlyEmptyAccountsRaise
  BY DEF FactsInit, OnlyEmptyAccountsRaise, Idle
<1>2. FactsTypes /\ OnlyEmptyAccountsRaise /\ [FactsNext]_factsVars => OnlyEmptyAccountsRaise'
  <2> SUFFICES ASSUME FactsTypes, OnlyEmptyAccountsRaise, [FactsNext]_factsVars
               PROVE  OnlyEmptyAccountsRaise'
    OBVIOUS
  <2>1. CASE StartFacts \/ ReadAccount \/ ReadHistory \/ ReadPositions \/ StopCycle \/ ChangePolicy
    <3>1. facts'.stage # "RAISED"
      BY <2>1 DEF StartFacts, ReadAccount, ReadHistory, ReadPositions, StopCycle, ChangePolicy, Idle
    <3> QED
      BY <3>1 DEF OnlyEmptyAccountsRaise
  <2>2. CASE EstablishBaseline
    <3>1. facts'.stage = "BASELINE" \/ facts'.equity = 0
      BY <2>2, BaselineStep
    <3> QED
      BY <3>1 DEF OnlyEmptyAccountsRaise
  <2>3. CASE AssembleFacts
    <3>1. facts'.stage = "DONE"
      BY <2>3, AssembleStep
    <3> QED
      BY <3>1 DEF OnlyEmptyAccountsRaise
  <2>4. CASE DayPasses \/ OpenPosition \/ ClosePosition
    BY <2>4, BrokerBook DEF OnlyEmptyAccountsRaise
  <2>5. CASE UNCHANGED factsVars
    BY <2>5 DEF factsVars, OnlyEmptyAccountsRaise
  <2> QED
    BY <2>1, <2>2, <2>3, <2>4, <2>5 DEF FactsNext
<1> QED
  BY <1>1, <1>2, FactsAreTyped, PTL DEF FactsSpec

=============================================================================
