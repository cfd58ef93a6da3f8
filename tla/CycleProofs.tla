------------------------------ MODULE CycleProofs ------------------------------
(***************************************************************************)
(* Proofs about the parts of a cycle: the calendar that a verdict is held  *)
(* against, the budget the recommendations stay in, and what the operator  *)
(* is told.                                                                *)
(***************************************************************************)
EXTENDS CycleReport, CalendarBridge, FiniteSums

-----------------------------------------------------------------------------
(* The calendar.                                                            *)

\* The entries the expert exports when it asks at t.
InExport(e, t) ==
    /\ calendar[e].kind.code \in AllowlistedCodes
    /\ ServerTime(t) - LookBack <= ServerTime(calendar[e].at)
    /\ ServerTime(calendar[e].at) <= ServerTime(t) + LookAhead

ExportedAt(t) ==
    {[kind |-> calendar[e].kind, server |-> ServerTime(calendar[e].at)] : e \in {e \in Events : InExport(e, t)}}

\* A text of the expert, published or not.
IsExport(text) == text.queried \in Nat /\ (text.whole => text.records = ExportedAt(text.queried))

FamilyVerdict(asOf) == EvaluateFamily(ContextEvents(asOf), asOf, asOf + ExecutionWindow)

\* What the publication and the cycle have in hand.  The verdict follows from
\* the file that is published when it is reached, and nothing moves after it.
CalendarInv ==
    /\ clock \in Nat
    /\ offset \in Int
    /\ calendar \in [Events -> [kind : Kinds, at : EventTimes]]
    /\ expert.stage = "QUERIED" => expert.queried \in Nat /\ expert.records = ExportedAt(expert.queried)
    /\ expert.stage = "WRITTEN" => IsExport(expert.text)
    /\ bridge # NoCalendar => IsExport(bridge)
    /\ verdict.stage \in {"ASKED", "REACHED"} => verdict.asOf \in Nat
    /\ verdict.stage = "REACHED" =>
           /\ verdict.quality = ContextQuality(verdict.asOf)
           /\ verdict.verdict = FamilyVerdict(verdict.asOf).verdict
           /\ verdict.safe = FamilyVerdict(verdict.asOf).safe

LEMMA CalendarStart == CalendarInit => CalendarInv
BY CalendarAssumption DEF CalendarInit, CalendarInv

\* The calendar does not change, so neither does what an instant exports.
LEMMA ExportStays ==
    ASSUME UNCHANGED <<offset, calendar>>, NEW CONSTANT t
    PROVE  ExportedAt(t)' = ExportedAt(t)
<1>1. \A s : ServerTime(s)' = ServerTime(s)
  BY DEF ServerTime
<1>2. \A e : InExport(e, t)' = InExport(e, t)
  BY <1>1 DEF InExport
<1> QED
  BY <1>1, <1>2 DEF ExportedAt

LEMMA ReadingStays ==
    ASSUME UNCHANGED <<offset, bridge>>, NEW CONSTANT a
    PROVE  ContextQuality(a)' = ContextQuality(a) /\ FamilyVerdict(a)' = FamilyVerdict(a)
<1>1. \A w : CanResolve(w)' = CanResolve(w) /\ Resolve(w)' = Resolve(w)
  <2>1. \A s : ServerTime(s)' = ServerTime(s)
    BY DEF ServerTime
  <2>2. \A w : Instants(w)' = Instants(w)
    BY <2>1 DEF Instants
  <2> QED
    BY <2>2 DEF CanResolve, Resolve
<1>2. ContextQuality(a)' = ContextQuality(a)
  BY <1>1 DEF ContextQuality, FileQuality
<1>3. ContextEvents(a)' = ContextEvents(a)
  BY <1>1, <1>2 DEF ContextEvents
<1> QED
  BY <1>2, <1>3 DEF FamilyVerdict

\* Every step but the verdict moves one of the expert, the file, the clock.
LEMMA CalendarStep == CalendarInv /\ [CalendarNext]_calendarVars => CalendarInv'
<1> SUFFICES ASSUME CalendarInv, [CalendarNext]_calendarVars
             PROVE  CalendarInv'
  OBVIOUS
<1>1. UNCHANGED <<offset, calendar>>
  BY DEF calendarVars, CalendarNext, QueryCalendar, WriteTemporary, RemoveTarget, MoveIntoPlace, AbandonPublication,
     RequestVerdict, ReachVerdict, TimePasses
<1>2. clock' \in Nat /\ offset' \in Int /\ calendar' \in [Events -> [kind : Kinds, at : EventTimes]]
  BY <1>1 DEF CalendarInv, calendarVars, CalendarNext, QueryCalendar, WriteTemporary, RemoveTarget, MoveIntoPlace,
     AbandonPublication, RequestVerdict, ReachVerdict, TimePasses
<1>3. ASSUME NEW CONSTANT text, IsExport(text)
      PROVE  IsExport(text)'
  BY <1>1, <1>3, ExportStays DEF IsExport
<1>4. expert'.stage = "QUERIED" => expert'.queried \in Nat /\ (expert.records = ExportedAt(expert.queried))'
  <2>1. CASE UNCHANGED expert
    <3>1. PICK x : x = expert.queried
      OBVIOUS
    <3>2. ExportedAt(x)' = ExportedAt(x)
      BY <1>1, ExportStays
    <3> QED
      BY <2>1, <3>1, <3>2 DEF CalendarInv
  <2>2. CASE QueryCalendar
    <3>1. PICK x \in Nat : x = clock
      BY DEF CalendarInv
    <3>2. ExportedAt(x)' = ExportedAt(x)
      BY <1>1, ExportStays
    <3>3. Exported(calendar) = ExportedAt(x)
      BY <3>1 DEF Exported, ExportedAt, InExport
    <3> QED
      BY <2>2, <3>1, <3>2, <3>3 DEF QueryCalendar
  <2>3. CASE expert'.stage # "QUERIED"
    BY <2>3
  <2> QED
    BY <2>1, <2>2, <2>3 DEF calendarVars, CalendarNext, WriteTemporary, RemoveTarget, MoveIntoPlace,
       AbandonPublication, RequestVerdict, ReachVerdict, TimePasses
<1>5. expert'.stage = "WRITTEN" => IsExport(expert.text)'
  <2>1. CASE UNCHANGED expert
    <3>1. PICK x : x = expert.text
      OBVIOUS
    <3>2. expert.stage = "WRITTEN" => IsExport(x)'
      BY <1>3, <3>1 DEF CalendarInv
    <3> QED
      BY <2>1, <3>1, <3>2 DEF IsExport
  <2>2. CASE WriteTemporary
    <3>1. PICK x : x = expert'.text
      OBVIOUS
    <3>2. IsExport(x)
      BY <2>2, <3>1 DEF WriteTemporary, CalendarInv, IsExport
    <3> QED
      BY <1>3, <3>1, <3>2 DEF IsExport
  <2>3. CASE expert'.stage # "WRITTEN"
    BY <2>3
  <2> QED
    BY <2>1, <2>2, <2>3 DEF calendarVars, CalendarNext, QueryCalendar, RemoveTarget, MoveIntoPlace,
       AbandonPublication, RequestVerdict, ReachVerdict, TimePasses
<1>6. bridge' # NoCalendar => IsExport(bridge)'
  <2>1. PICK x : x = bridge'
    OBVIOUS
  <2>2. x # NoCalendar => IsExport(x)
    BY <2>1 DEF CalendarInv, calendarVars, CalendarNext, QueryCalendar, WriteTemporary, RemoveTarget, MoveIntoPlace,
       AbandonPublication, RequestVerdict, ReachVerdict, TimePasses
  <2> QED
    BY <1>3, <2>1, <2>2 DEF IsExport
<1>7. /\ verdict'.stage \in {"ASKED", "REACHED"} => verdict'.asOf \in Nat
      /\ verdict'.stage = "REACHED" => UNCHANGED bridge
  BY DEF CalendarInv, calendarVars, CalendarNext, QueryCalendar, WriteTemporary, RemoveTarget, MoveIntoPlace,
     AbandonPublication, RequestVerdict, ReachVerdict, TimePasses
<1>8. ASSUME verdict'.stage = "REACHED"
      PROVE  (/\ verdict.quality = ContextQuality(verdict.asOf)
              /\ verdict.verdict = FamilyVerdict(verdict.asOf).verdict
              /\ verdict.safe = FamilyVerdict(verdict.asOf).safe)'
  <2>1. PICK a : a = verdict'.asOf
    OBVIOUS
  <2>2. ContextQuality(a)' = ContextQuality(a) /\ FamilyVerdict(a)' = FamilyVerdict(a)
    BY <1>1, <1>7, <1>8, ReadingStays
  <2>3. /\ verdict'.quality = ContextQuality(a)
        /\ verdict'.verdict = FamilyVerdict(a).verdict
        /\ verdict'.safe = FamilyVerdict(a).safe
    <3>1. CASE UNCHANGED verdict
      BY <1>8, <2>1, <3>1 DEF CalendarInv
    <3>2. CASE ReachVerdict
      BY <2>1, <3>2 DEF ReachVerdict, FamilyVerdict
    <3> QED
      BY <1>8, <3>1, <3>2 DEF calendarVars, CalendarNext, QueryCalendar, WriteTemporary, RemoveTarget, MoveIntoPlace,
         AbandonPublication, RequestVerdict, TimePasses
  <2> QED
    BY <2>1, <2>2, <2>3
<1> QED
  BY <1>2, <1>4, <1>5, <1>6, <1>7, <1>8 DEF CalendarInv

\* The maximum of a set that has one.
LEMMA MaxIsLargest ==
    ASSUME NEW S \in SUBSET Int, NEW m \in S, \A x \in S : x <= m
    PROVE  Max(S) = m
<1>1. \A y \in S : m >= y
  OBVIOUS
<1>2. Max(S) \in S /\ \A y \in S : Max(S) >= y
  BY <1>1 DEF Max
<1>3. Max(S) \in Int /\ m \in Int /\ Max(S) >= m /\ Max(S) <= m
  BY <1>2
<1> QED
  BY <1>3

\* A server time that can be resolved is resolved to the instant it is of.
LEMMA ResolvedIsTrue ==
    ASSUME offset \in Int, NEW at \in Int, CanResolve(ServerTime(at))
    PROVE  Resolve(ServerTime(at)) = at
<1> DEFINE w == ServerTime(at)
<1>1. w \in Int /\ (w = at \/ w - offset = at)
  BY CalendarAssumption DEF ServerTime
<1>2. at \in Instants(w)
  BY <1>1 DEF Instants
<1>3. IsFiniteSet(Instants(w))
  <2>1. IsFiniteSet({w, w - offset})
    <3>1. {w, w - offset} = {w} \cup {w - offset}
      OBVIOUS
    <3>2. IsFiniteSet({w}) /\ IsFiniteSet({w - offset})
      BY FS_Singleton
    <3>3. IsFiniteSet({w} \cup {w - offset})
      BY <3>2, FS_Union
    <3> HIDE DEF w
    <3> QED
      BY <3>1, <3>3, Zenon
  <2> QED
    BY <2>1, FS_Subset DEF Instants
<1>4. PICK t : Instants(w) = {t}
  BY <1>3, FS_Singleton DEF CanResolve
<1> QED
  BY <1>2, <1>4 DEF Resolve

\* A context that is FRESH gives the entries that were exported, at the instants
\* they have.
LEMMA FreshContext ==
    ASSUME CalendarInv, NEW asOf, ContextQuality(asOf) = "FRESH"
    PROVE  /\ bridge # NoCalendar /\ bridge.queried \in Nat
           /\ ContextEvents(asOf) =
                {[kind |-> calendar[e].kind, at |-> calendar[e].at] : e \in {e \in Events : InExport(e, bridge.queried)}}
<1> DEFINE exported == {e \in Events : InExport(e, bridge.queried)}
<1>1. bridge # NoCalendar /\ FileQuality(asOf) = "FRESH"
  BY DEF ContextQuality
<1>2. bridge.whole /\ \A r \in bridge.records : CanResolve(r.server)
  BY <1>1 DEF FileQuality
<1>3. bridge.queried \in Nat /\ bridge.records = ExportedAt(bridge.queried)
  BY <1>1, <1>2 DEF CalendarInv, IsExport
<1>4. bridge.records = {[kind |-> calendar[e].kind, server |-> ServerTime(calendar[e].at)] : e \in exported}
  BY <1>3 DEF ExportedAt
<1>5. \A e \in exported : Resolve(ServerTime(calendar[e].at)) = calendar[e].at
  <2> SUFFICES ASSUME NEW e \in exported PROVE Resolve(ServerTime(calendar[e].at)) = calendar[e].at
    OBVIOUS
  <2>1. calendar[e].at \in Int
    BY CalendarAssumption DEF CalendarInv
  <2>2. CanResolve(ServerTime(calendar[e].at))
    <3> DEFINE r == [kind |-> calendar[e].kind, server |-> ServerTime(calendar[e].at)]
    <3>1. r \in bridge.records
      BY <1>4
    <3> QED
      BY <1>2, <3>1
  <2> QED
    BY <2>1, <2>2, ResolvedIsTrue DEF CalendarInv
<1>6. ContextEvents(asOf) = {[kind |-> r.kind, at |-> Resolve(r.server)] : r \in bridge.records}
  BY DEF ContextEvents
<1> HIDE DEF exported
<1>7. ContextEvents(asOf) = {[kind |-> calendar[e].kind, at |-> Resolve(ServerTime(calendar[e].at))] : e \in exported}
  <2> DEFINE file(e) == [kind |-> calendar[e].kind, server |-> ServerTime(calendar[e].at)]
             read(r) == [kind |-> r.kind, at |-> Resolve(r.server)]
  <2>1. \A e : read(file(e)) = [kind |-> calendar[e].kind, at |-> Resolve(ServerTime(calendar[e].at))]
    OBVIOUS
  <2>2. bridge.records = {file(e) : e \in exported} /\ ContextEvents(asOf) = {read(r) : r \in bridge.records}
    BY <1>4, <1>6
  <2>3. ContextEvents(asOf) = {read(file(e)) : e \in exported}
    <3> HIDE DEF file, read
    <3> QED
      BY <2>2
  <2> QED
    BY <2>1, <2>3
<1>8. ContextEvents(asOf) = {[kind |-> calendar[e].kind, at |-> calendar[e].at] : e \in exported}
  BY <1>5, <1>7
<1> QED
  BY <1>1, <1>3, <1>8 DEF exported

\* An entry blocks at asOf.
BlocksAt(e, asOf) ==
    IsRelevant(calendar[e].kind) /\ Blocks(calendar[e].kind, calendar[e].at, asOf, asOf + ExecutionWindow)

LEMMA BlackoutsBlock ==
    ASSUME CalendarInv, verdict.asOf \in Nat, NEW e \in Events
    PROVE  e \in BlackoutEvents <=> BlocksAt(e, verdict.asOf)
<1>1. calendar[e].kind \in [code : STRING, importance : 0 .. 3] /\ calendar[e].at \in Int
  BY CalendarAssumption DEF CalendarInv
<1> QED
  BY <1>1 DEF BlackoutEvents, BlocksAt, Blocks, Overlaps, IsHardBlockEligible, High, Moderate, BlockPre, BlockPost,
     ExecutionWindow

\* The calendar is exported in server time, and so is the window: an entry of
\* the cycle's moment is in it, unless the offset changes in between.
LEMMA BlackoutsAreExported ==
    ASSUME CalendarInv, verdict.asOf \in Nat, bridge.queried \in Nat, NEW e \in Events, e \in BlackoutEvents,
           ExportCoversCycle, SameSideOfChange(e)
    PROVE  InExport(e, bridge.queried)
<1> DEFINE at == calendar[e].at
<1>1. at \in Int /\ offset \in Int /\ OffsetAt \in Nat
  BY CalendarAssumption DEF CalendarInv
<1>2. calendar[e].kind.code \in AllowlistedCodes /\ verdict.asOf <= at /\ at <= verdict.asOf + ExecutionWindow
  BY <1>1 DEF BlackoutEvents, IsRelevant, BlockPre, BlockPost, ExecutionWindow
<1>3. bridge.queried - LookBack <= at /\ at <= bridge.queried + LookAhead
  BY <1>1, <1>2 DEF ExportCoversCycle, LookBack, LookAhead, ExecutionWindow
<1>4. ServerTime(at) - ServerTime(bridge.queried) = at - bridge.queried
  BY <1>1 DEF SameSideOfChange, ServerTime
<1>5. ServerTime(at) \in Int /\ ServerTime(bridge.queried) \in Int
  BY <1>1 DEF ServerTime
<1> HIDE DEF at
<1>6. ServerTime(bridge.queried) - LookBack <= ServerTime(at) /\ ServerTime(at) <= ServerTime(bridge.queried) + LookAhead
  BY <1>1, <1>3, <1>4, <1>5 DEF LookBack, LookAhead
<1> QED
  BY <1>2, <1>6 DEF InExport, at

LEMMA VerdictIsTrue == CalendarInv => FreshVerdictIsTrue
<1> SUFFICES ASSUME CalendarInv, verdict.stage = "REACHED", verdict.quality = "FRESH"
             PROVE  LET blackouts == {e \in BlackoutEvents : ExportCoversCycle /\ SameSideOfChange(e)}
                    IN  /\ blackouts # {} => verdict.verdict = "BLOCKED"
                        /\ verdict.verdict = "BLOCKED" =>
                             /\ BlackoutEvents # {}
                             /\ verdict.safe > verdict.asOf
                             /\ \A e \in blackouts : calendar[e].at + BlockPost <= verdict.safe
  BY DEF FreshVerdictIsTrue
<1> DEFINE blackouts == {e \in BlackoutEvents : ExportCoversCycle /\ SameSideOfChange(e)}
           asOf == verdict.asOf
           events == ContextEvents(asOf)
           relevant == {e \in events : IsRelevant(e.kind)}
           blocking == {e \in relevant : Blocks(e.kind, e.at, asOf, asOf + ExecutionWindow)}
           ends == {e.at + BlockPost : e \in blocking}
<1>1. asOf \in Nat /\ ContextQuality(asOf) = "FRESH"
  BY DEF CalendarInv
<1>2. /\ bridge.queried \in Nat
      /\ events = {[kind |-> calendar[e].kind, at |-> calendar[e].at] : e \in {e \in Events : InExport(e, bridge.queried)}}
  BY <1>1, FreshContext
<1>3. /\ verdict.verdict = "BLOCKED" <=> blocking # {}
      /\ blocking # {} => verdict.safe = Max(ends)
  BY DEF CalendarInv, FamilyVerdict, EvaluateFamily
<1>4. \A v \in blocking : \E e \in Events : e \in BlackoutEvents /\ v.at = calendar[e].at /\ v.kind = calendar[e].kind
  <2> SUFFICES ASSUME NEW v \in blocking
               PROVE  \E e \in Events : e \in BlackoutEvents /\ v.at = calendar[e].at /\ v.kind = calendar[e].kind
    OBVIOUS
  <2>1. PICK e \in Events : v = [kind |-> calendar[e].kind, at |-> calendar[e].at]
    BY <1>2
  <2>2. BlocksAt(e, asOf)
    BY <2>1 DEF BlocksAt
  <2> QED
    BY <1>1, <2>1, <2>2, BlackoutsBlock
<1>5. \A e \in blackouts : \E v \in blocking : v.at = calendar[e].at
  <2> SUFFICES ASSUME NEW e \in blackouts PROVE \E v \in blocking : v.at = calendar[e].at
    OBVIOUS
  <2>1. e \in Events /\ e \in BlackoutEvents
    BY DEF BlackoutEvents
  <2>2. [kind |-> calendar[e].kind, at |-> calendar[e].at] \in events
    BY <1>1, <1>2, <2>1, BlackoutsAreExported
  <2>3. BlocksAt(e, asOf)
    BY <1>1, <2>1, BlackoutsBlock
  <2> QED
    BY <2>2, <2>3 DEF BlocksAt
<1>6. \A v \in blocking : v.at \in Int /\ asOf <= v.at /\ v.at <= asOf + 1
  <2> SUFFICES ASSUME NEW v \in blocking PROVE v.at \in Int /\ asOf <= v.at /\ v.at <= asOf + 1
    OBVIOUS
  <2>1. PICK e \in Events : e \in BlackoutEvents /\ v.at = calendar[e].at
    BY <1>4
  <2>2. v.at \in Int
    BY <2>1, CalendarAssumption DEF CalendarInv
  <2> QED
    BY <1>1, <2>1, <2>2 DEF BlackoutEvents, BlockPre, BlockPost, ExecutionWindow
<1>7. blocking # {} => Max(ends) > asOf /\ \A v \in blocking : v.at + BlockPost <= Max(ends)
  <2> SUFFICES ASSUME blocking # {} PROVE Max(ends) > asOf /\ \A v \in blocking : v.at + BlockPost <= Max(ends)
    OBVIOUS
  <2> HIDE DEF blocking, asOf
  <2>1. ends \in SUBSET Int /\ ends # {} /\ \A n \in ends : n = asOf + 1 \/ n = asOf + 2
    BY <1>1, <1>6 DEF BlockPost
  <2>2. PICK m \in ends : \A n \in ends : n <= m
    <3> HIDE DEF ends
    <3>1. asOf \in Int
      BY <1>1
    <3>2. CASE asOf + 2 \in ends
      <4>1. \A n \in ends : n <= asOf + 2
        BY <2>1, <3>1
      <4> QED
        BY <3>2, <4>1
    <3>3. CASE asOf + 2 \notin ends
      <4>1. PICK m \in ends : TRUE
        BY <2>1
      <4>2. \A n \in ends : n = asOf + 1
        BY <2>1, <3>3
      <4>3. \A n \in ends : n <= m
        BY <3>1, <4>1, <4>2
      <4> QED
        BY <4>1, <4>3
    <3> QED
      BY <3>2, <3>3
  <2>3. Max(ends) = m
    <3> HIDE DEF ends
    <3> QED
      BY <2>1, <2>2, MaxIsLargest
  <2>4. \A v \in blocking : v.at + BlockPost \in ends
    OBVIOUS
  <2> HIDE DEF ends
  <2>5. m > asOf
    BY <1>1, <2>1
  <2>6. \A v \in blocking : v.at + BlockPost <= m
    BY <2>2, <2>4
  <2> QED
    BY <2>3, <2>5, <2>6
<1> HIDE DEF blocking, ends, events, relevant
<1> QED
  BY <1>3, <1>4, <1>5, <1>7

\* A calendar that counts as FRESH is complete and true to the instant
\* (file_reader.py:146-203, high_impact_event_gate.py): for every calendar, run of
\* the clock and change of the server's offset.
THEOREM FreshVerdict == CalendarSpec => []FreshVerdictIsTrue
<1>1. CalendarInv /\ [CalendarNext]_calendarVars => CalendarInv'
  BY CalendarStep
<1> QED
  BY <1>1, CalendarStart, VerdictIsTrue, PTL DEF CalendarSpec

-----------------------------------------------------------------------------
(* Numbers: maxima, minima, and divisions that leave no rest.               *)

LEMMA PositivePart == ASSUME NEW x \in Int PROVE Positive(x) = IF x > 0 THEN x ELSE 0
<1>1. CASE x > 0
  BY <1>1, MaxIsLargest DEF Positive
<1>2. CASE ~(x > 0)
  BY <1>2, MaxIsLargest DEF Positive
<1> QED
  BY <1>1, <1>2

LEMMA MinOfTwo == ASSUME NEW x \in Int, NEW y \in Int PROVE Min({x, y}) = IF x <= y THEN x ELSE y
<1>1. Min({x, y}) \in {x, y} /\ \A z \in {x, y} : Min({x, y}) <= z
  <2>1. \E m \in {x, y} : \A z \in {x, y} : m <= z
    OBVIOUS
  <2> QED
    BY <2>1 DEF Min
<1> QED
  BY <1>1

LEMMA DivideProduct == ASSUME NEW x \in Int, NEW d \in Nat \ {0} PROVE (x * d) \div d = x /\ (x * d) % d = 0
<1> DEFINE a == x * d
           q == a \div d
           r == a % d
<1>1. a \in Int /\ q \in Int /\ r \in Int /\ a = d * q + r /\ 0 <= r /\ r < d
  OBVIOUS
<1> HIDE DEF q, r
<1>2. d * (x - q) = r
  BY <1>1
<1>3. x - q = 0
  <2>1. ~(x - q >= 1)
    <3> SUFFICES ASSUME x - q >= 1 PROVE FALSE
      OBVIOUS
    <3>1. d * (x - q) >= d
      BY <1>1
    <3> QED
      BY <1>1, <1>2, <3>1
  <2>2. ~(x - q <= -1)
    <3> SUFFICES ASSUME x - q <= -1 PROVE FALSE
      OBVIOUS
    <3>1. d * (x - q) <= -d
      BY <1>1
    <3> QED
      BY <1>1, <1>2, <3>1
  <2> QED
    BY <1>1, <2>1, <2>2
<1> QED
  BY <1>1, <1>2, <1>3 DEF q, r

LEMMA Cancel == ASSUME NEW x \in Int, NEW y \in Int, NEW d \in Nat \ {0}, x * d <= y * d PROVE x <= y
<1> SUFFICES ASSUME x >= y + 1 PROVE FALSE
  OBVIOUS
<1>1. x * d >= (y + 1) * d
  OBVIOUS
<1>2. (y + 1) * d = y * d + d /\ y * d \in Int /\ x * d \in Int
  OBVIOUS
<1> QED
  BY <1>1, <1>2

LEMMA Multiple == ASSUME NEW x \in Int, NEW d \in Nat \ {0}, x % d = 0 PROVE x = (x \div d) * d
OBVIOUS

-----------------------------------------------------------------------------
(* The setups.                                                              *)

\* What is left of a market once its evidence is built.
IsPrepared(m) ==
    /\ m.account # NoAccount => IsAccount(m.account)
    /\ m.symbol # NoSymbol => IsSymbol(m.symbol)
    /\ m.structure # NoStructure => IsStructure(m.structure)
    /\ m.external # NoContour => IsExternal(m.external)

\* A setup that was constructed lies at whole ticks from its stop, and its risk
\* is that of so many ticks; its own model accepts it.
IsSetup(m, setup) ==
    /\ setup.outcome \in {"CONSTRUCTED", "BLOCKED"}
    /\ SetupIsValid(setup)
    /\ setup.outcome = "CONSTRUCTED" =>
         /\ SymbolUsable(m.symbol)
         /\ \E ticks \in Nat : /\ Distance(setup.entry, setup.stop) = ticks * m.symbol.tick
                               /\ setup.risk = ticks * m.symbol.tickValue

LEMMA RoundedStop ==
    ASSUME NEW price \in Int, NEW direction, NEW tick \in Nat \ {0}
    PROVE  \E k \in Int : RoundStop(price, direction, tick) = k * tick /\ (price >= 0 => k >= 0)
<1>1. /\ price \div tick \in Int /\ (-price) \div tick \in Int
      /\ price >= 0 => price \div tick >= 0 /\ (-price) \div tick <= 0
  OBVIOUS
<1>2. CASE direction = "LONG"
  BY <1>1, <1>2 DEF RoundStop
<1>3. CASE direction # "LONG"
  <2> DEFINE k == -((-price) \div tick)
  <2>1. k \in Int
    BY <1>1
  <2>2. RoundStop(price, direction, tick) = k * tick /\ (price >= 0 => k >= 0)
    BY <1>1, <1>3 DEF RoundStop
  <2> QED
    BY <2>1, <2>2
<1> QED
  BY <1>2, <1>3

\* The stop of a structural family is the price of a swing, or of a break.
LEMMA StopIsPrice ==
    ASSUME NEW structure, IsStructure(structure), NEW direction
    PROVE  TrendStop(direction, structure) \subseteq Nat /\ BreakoutStop(direction, structure) \subseteq Nat
<1> DEFINE swings == structure.swings
           breaks == structure.breaks
           Swing == [kind : {"HIGH", "LOW"}, at : Int, price : Nat]
           Break == [direction : Directional, price : Nat]
<1>0. swings \in Seq(Swing) /\ breaks \in Seq(Break)
  BY DEF IsStructure
<1>1. \A i \in DOMAIN swings : swings[i].price \in Nat
  <2>1. \A i \in DOMAIN swings : swings[i] \in Swing
    <3> HIDE DEF swings, Swing
    <3> QED
      BY <1>0
  <2> QED
    BY <2>1
<1>2. Len(breaks) > 0 => breaks[Len(breaks)].price \in Nat
  <2>1. Len(breaks) > 0 => breaks[Len(breaks)] \in Break
    <3> HIDE DEF breaks, Break
    <3> QED
      BY <1>0
  <2> QED
    BY <2>1
<1> QED
  BY <1>1, <1>2 DEF TrendStop, BreakoutStop

LEMMA StructuralSetup ==
    ASSUME NEW m, IsPrepared(m), NEW family, NEW direction
    PROVE  IsSetup(m, ConstructStructural(m, family, direction))
<1> DEFINE stops == IF family = "TREND_FOLLOWING" THEN TrendStop(direction, m.structure)
                    ELSE BreakoutStop(direction, m.structure)
           entry == EntryPrice(direction, m.symbol)
           stop == RoundStop(CHOOSE p \in stops : TRUE, direction, m.symbol.tick)
           setup == ConstructStructural(m, family, direction)
           tick == m.symbol.tick
<1>1. CASE ~SymbolUsable(m.symbol) \/ ~StructureUsable(m.structure) \/ stops = {}
  BY <1>1 DEF ConstructStructural, SetupBlocked, IsSetup, SetupIsValid
<1>2. CASE SymbolUsable(m.symbol) /\ StructureUsable(m.structure) /\ stops # {}
  <2>1. tick \in Nat \ {0} /\ m.symbol.tickValue \in Int /\ entry \in Nat /\ entry % tick = 0
    BY <1>2 DEF SymbolUsable, IsPrepared, IsSymbol, EntryPrice
  <2>2. PICK i \in Int : entry = i * tick
    <3> HIDE DEF entry, tick
    <3>1. entry = (entry \div tick) * tick /\ entry \div tick \in Int
      BY <2>1, Multiple
    <3> QED
      BY <3>1
  <2>3. (CHOOSE p \in stops : TRUE) \in Nat
    BY <1>2, StopIsPrice DEF StructureUsable, IsPrepared
  <2>4. PICK k \in Int : stop = k * tick /\ k >= 0
    <3> DEFINE price == CHOOSE p \in stops : TRUE
    <3>1. price \in Int /\ price >= 0
      BY <2>3
    <3> HIDE DEF price, tick
    <3>2. \E k \in Int : RoundStop(price, direction, tick) = k * tick /\ (price >= 0 => k >= 0)
      BY <2>1, <3>1, RoundedStop
    <3> QED
      BY <3>1, <3>2 DEF price, tick
  <2> DEFINE ticks == IF entry > stop THEN i - k ELSE k - i
  <2>5. ticks \in Nat /\ Distance(entry, stop) = ticks * tick
    <3> HIDE DEF entry, stop, tick
    <3>1. entry - stop = (i - k) * tick /\ stop - entry = (k - i) * tick
      BY <2>1, <2>2, <2>4
    <3>2. i > k <=> i * tick > k * tick
      BY <2>1
    <3> QED
      BY <2>1, <2>2, <2>4, <3>1, <3>2 DEF Distance
  <2>6. RiskPerUnit(entry, stop, m.symbol) = ticks * m.symbol.tickValue
    <3>1. Distance(entry, stop) \div tick = ticks
      <4> HIDE DEF ticks, entry, stop, tick
      <4> QED
        BY <2>1, <2>5, DivideProduct
    <3> HIDE DEF ticks, entry, stop
    <3> QED
      BY <3>1 DEF RiskPerUnit
  <2>7. setup.outcome = "BLOCKED"
          \/ /\ Geometry(direction, entry, stop)
             /\ setup = [outcome |-> "CONSTRUCTED", direction |-> direction, entry |-> entry, stop |-> stop,
                         risk |-> RiskPerUnit(entry, stop, m.symbol)]
    BY <1>2 DEF ConstructStructural, SetupBlocked
  <2>8. entry >= 0 /\ stop >= 0
    <3> HIDE DEF entry, stop, tick
    <3> QED
      BY <2>1, <2>4
  <2> HIDE DEF setup, entry, stop, ticks
  <2>9. SetupIsValid(setup)
    BY <2>7, <2>8 DEF SetupIsValid
  <2> QED
    BY <1>2, <2>5, <2>6, <2>7, <2>9 DEF IsSetup, setup
<1> QED
  BY <1>1, <1>2

\* There is a setup for each family that passes the policy.
AreSetups(m, judged, setups) ==
    /\ DOMAIN setups = {f \in DOMAIN judged : PassesPolicy(judged[f])}
    /\ \A f \in DOMAIN setups : IsSetup(m, setups[f])

LEMMA Setups ==
    ASSUME NEW m, IsPrepared(m), NEW judged
    PROVE  AreSetups(m, judged, Construct(m, judged))
<1>1. IsSetup(m, SetupBlocked("FAMILY_SETUP_UNAVAILABLE"))
  BY DEF IsSetup, SetupBlocked, SetupIsValid
<1> QED
  BY <1>1, StructuralSetup DEF AreSetups, Construct

-----------------------------------------------------------------------------
(* The shares.                                                              *)

\* What the gates have made of the setups.
IsShared(m, p) ==
    /\ m.account # NoAccount
    /\ p.risks = RiskShares(m, p.judged, p.setups)
    /\ p.portfolios = PortfolioShares(m, p.risks)
    /\ p.shares = SessionShares(m, p.portfolios)

GrantedOf(shares) == {f \in DOMAIN shares : IsGranted(shares[f])}

Requested(risks) == MapThenSumSet(LAMBDA f : risks[f].risk, GrantedOf(risks))

\* The denominator of every share.
Divisor(m, p) == IF Requested(p.risks) <= JointCapacity(m.account) THEN 1 ELSE Requested(p.risks)

LEMMA FamiliesAreFinite == ASSUME NEW S \in SUBSET StrategyFamilies PROVE IsFiniteSet(S)
<1>1. StrategyFamilies = {"TREND_FOLLOWING"} \cup {"MEAN_REVERSION"} \cup {"BREAKOUT"} \cup {"EVENT_DRIVEN"}
  BY DEF StrategyFamilies
<1>2. IsFiniteSet({"TREND_FOLLOWING"}) /\ IsFiniteSet({"MEAN_REVERSION"}) /\ IsFiniteSet({"BREAKOUT"})
        /\ IsFiniteSet({"EVENT_DRIVEN"})
  BY FS_Singleton
<1>3. IsFiniteSet(StrategyFamilies)
  BY <1>1, <1>2, FS_Union
<1> QED
  BY <1>3, FS_Subset

\* The capacities are whole numbers.
LEMMA Capacities ==
    ASSUME NEW a, IsAccount(a)
    PROVE  /\ DailyCapacity(a) \in Nat /\ NewTradeCapacity(a) \in Nat /\ PortfolioCapacity(a) \in Nat
           /\ JointCapacity(a) = IF NewTradeCapacity(a) <= PortfolioCapacity(a) THEN NewTradeCapacity(a)
                                 ELSE PortfolioCapacity(a)
           /\ DailyCapacity(a) > 0 =>
                DailyCapacity(a) = a.rollover * DailyPct - 100 * Positive(-(a.realized + a.floating))
           /\ NewTradeCapacity(a) > 0 => NewTradeCapacity(a) = DailyCapacity(a) - 100 * a.openRisk
           /\ PortfolioCapacity(a) > 0 => PortfolioCapacity(a) = a.equity * PortfolioPct - 100 * a.openRisk
<1> DEFINE lost == Positive(-100 * (a.realized + a.floating))
<1>0. /\ {a.rollover, a.equity, a.realized, a.floating, a.openRisk} \subseteq Int
      /\ {DailyPct, PerTradePct, PortfolioPct} \subseteq Nat
  BY TradingCycleAssumption DEF IsAccount
<1>1. lost \in Nat /\ lost = 100 * Positive(-(a.realized + a.floating))
  <2>1. -100 * (a.realized + a.floating) \in Int /\ -(a.realized + a.floating) \in Int
    BY <1>0
  <2> QED
    BY <1>0, <2>1, PositivePart
<1>2. a.rollover * DailyPct - lost \in Int /\ a.equity * PortfolioPct - 100 * a.openRisk \in Int
  BY <1>0, <1>1
<1> HIDE DEF lost
<1>3. DailyCapacity(a) = IF a.rollover * DailyPct - lost > 0 THEN a.rollover * DailyPct - lost ELSE 0
  BY <1>2, PositivePart DEF DailyCapacity, lost
<1>4. PortfolioCapacity(a) = IF a.equity * PortfolioPct - 100 * a.openRisk > 0
                             THEN a.equity * PortfolioPct - 100 * a.openRisk ELSE 0
  BY <1>2, PositivePart DEF PortfolioCapacity
<1>5. DailyCapacity(a) \in Nat /\ PortfolioCapacity(a) \in Nat
  BY <1>2, <1>3, <1>4
<1>6. NewTradeCapacity(a) = IF DailyCapacity(a) - 100 * a.openRisk > 0 THEN DailyCapacity(a) - 100 * a.openRisk ELSE 0
  <2>1. DailyCapacity(a) - 100 * a.openRisk \in Int
    BY <1>0, <1>5
  <2> QED
    BY <2>1, PositivePart DEF NewTradeCapacity
<1>7. NewTradeCapacity(a) \in Nat
  BY <1>0, <1>5, <1>6
<1>8. JointCapacity(a) = IF NewTradeCapacity(a) <= PortfolioCapacity(a) THEN NewTradeCapacity(a) ELSE PortfolioCapacity(a)
  BY <1>5, <1>7, MinOfTwo DEF JointCapacity
<1>9. DailyCapacity(a) > 0 =>
        DailyCapacity(a) = a.rollover * DailyPct - 100 * Positive(-(a.realized + a.floating))
  BY <1>1, <1>3
<1>10. /\ NewTradeCapacity(a) > 0 => NewTradeCapacity(a) = DailyCapacity(a) - 100 * a.openRisk
       /\ PortfolioCapacity(a) > 0 => PortfolioCapacity(a) = a.equity * PortfolioPct - 100 * a.openRisk
  BY <1>4, <1>6
<1> QED
  BY <1>5, <1>7, <1>8, <1>9, <1>10

\* A trade that has a share has passed every gate, and the share is what it was
\* first given, scaled when the trades ask for more than there is.
LEMMA GrantedShare ==
    ASSUME NEW m, NEW p, IsPrepared(m), AreSetups(m, p.judged, p.setups), IsShared(m, p), NEW f \in GrantedOf(p.shares)
    PROVE  LET a == m.account
           IN  /\ f \in DOMAIN p.setups /\ CandidateRisk(m, p.setups[f]) > 0
               /\ f \in GrantedOf(p.risks) /\ f \in GrantedOf(p.portfolios) /\ p.portfolios[f] = p.shares[f]
               /\ DailyCapacity(a) > 0 /\ NewTradeCapacity(a) > 0 /\ PortfolioCapacity(a) > 0
               /\ p.risks[f].risk = Min({a.rollover * PerTradePct, NewTradeCapacity(a)})
               /\ p.shares[f].risk = IF Requested(p.risks) <= JointCapacity(a) THEN <<p.risks[f].risk, 1>>
                                     ELSE <<p.risks[f].risk * JointCapacity(a), Requested(p.risks)>>
<1> DEFINE a == m.account
<1>0. IsAccount(a) /\ DailyCapacity(a) \in Nat /\ NewTradeCapacity(a) \in Nat /\ PortfolioCapacity(a) \in Nat
  BY Capacities DEF IsPrepared, IsShared
<1>1. /\ DOMAIN p.risks = DOMAIN p.judged /\ DOMAIN p.portfolios = DOMAIN p.judged /\ DOMAIN p.shares = DOMAIN p.judged
      /\ f \in DOMAIN p.judged /\ IsGranted(p.shares[f])
  BY DEF IsShared, RiskShares, PortfolioShares, SessionShares, GrantedOf
<1>2. p.shares[f] = SessionShare(m, p.portfolios[f])
  BY <1>1 DEF IsShared, SessionShares
<1>3. p.portfolios[f] = PortfolioShare(a, Requested(p.risks), p.risks[f])
  BY <1>1 DEF IsShared, PortfolioShares, Requested, GrantedOf
<1>4. p.risks[f] = IndividualShare(m, p.judged, p.setups, f)
  BY <1>1 DEF IsShared, RiskShares
<1>5. IsGranted(p.portfolios[f]) /\ p.shares[f] = p.portfolios[f]
  <2>1. SessionStatus(m) # "NONE"
    BY DEF SessionStatus
  <2> QED
    BY <1>1, <1>2, <2>1 DEF SessionShare, Denied, IsGranted
<1>6. /\ IsGranted(p.risks[f]) /\ PortfolioCapacity(a) > 0
      /\ p.portfolios[f] = Granted(IF Requested(p.risks) <= JointCapacity(a) THEN <<p.risks[f].risk, 1>>
                                   ELSE <<p.risks[f].risk * JointCapacity(a), Requested(p.risks)>>)
  BY <1>0, <1>3, <1>5 DEF PortfolioShare, Denied, IsGranted
<1>7. /\ PassesPolicy(p.judged[f]) /\ ~(CandidateRisk(m, p.setups[f]) <= 0)
      /\ DailyCapacity(a) > 0 /\ NewTradeCapacity(a) > 0
      /\ p.risks[f] = Granted(Min({a.rollover * PerTradePct, NewTradeCapacity(a)}))
  BY <1>0, <1>4, <1>6 DEF IndividualShare, Denied, IsGranted
<1>8. f \in DOMAIN p.setups
  BY <1>1, <1>7 DEF AreSetups
<1>9. CandidateRisk(m, p.setups[f]) \in Int
  <2>1. p.setups[f].outcome = "CONSTRUCTED" => p.setups[f].risk \in Int
    <3> SUFFICES ASSUME p.setups[f].outcome = "CONSTRUCTED" PROVE p.setups[f].risk \in Int
      OBVIOUS
    <3>1. SymbolUsable(m.symbol) /\ \E ticks \in Nat : p.setups[f].risk = ticks * m.symbol.tickValue
      BY <1>8 DEF AreSetups, IsSetup
    <3>2. m.symbol.tickValue \in Int
      BY <3>1 DEF SymbolUsable, IsPrepared, IsSymbol
    <3> QED
      BY <3>1, <3>2
  <2> QED
    BY <2>1 DEF CandidateRisk
<1> QED
  BY <1>1, <1>5, <1>6, <1>7, <1>8, <1>9 DEF Granted, GrantedOf

\* What a trade loses at its stop.
Loss(advice, symbol, f) ==
    (100 * Distance(advice[f].entry, advice[f].stop) * symbol.tickValue * advice[f].volume) \div symbol.tick

RequestsUp(g, risks, S) == g = [s \in SUBSET S |-> IF s = {} THEN 0 ELSE risks[Pick(s)].risk + g[s \ {Pick(s)}]]

\* What the trades of S ask for, as a sum.
LEMMA RequestsSum ==
    ASSUME NEW risks, NEW S, IsFiniteSet(S), NEW w, \A f \in S : w[f] = risks[f].risk
    PROVE  MapThenSumSet(LAMBDA f : risks[f].risk, S) = SumOf(w, S)
<1>1. \A g : RequestsUp(g, risks, S) <=> SumsUp(g, w, S)
  BY PickIsElement DEF RequestsUp, SumsUp
<1> DEFINE h == CHOOSE g : RequestsUp(g, risks, S)
<1>2. SumsUp(h, w, S)
  <2>1. \E g : RequestsUp(g, risks, S)
    BY <1>1, AddsExists
  <2>2. RequestsUp(h, risks, S)
    BY <2>1
  <2> HIDE DEF h
  <2> QED
    BY <1>1, <2>2
<1>3. MapThenSumSet(LAMBDA f : risks[f].risk, S) = h[S]
  BY DEF MapThenSumSet, MapThenFoldSet, Pick, RequestsUp
<1> HIDE DEF h
<1> QED
  BY <1>2, <1>3, SumsUpToSum

SharesUp(g, shares, S) == g = [s \in SUBSET S |-> IF s = {} THEN 0 ELSE shares[Pick(s)].risk[1] + g[s \ {Pick(s)}]]

\* What the trades of S are granted, as a sum.
LEMMA SharesSum ==
    ASSUME NEW shares, NEW S, IsFiniteSet(S), NEW w, \A f \in S : w[f] = shares[f].risk[1]
    PROVE  MapThenSumSet(LAMBDA f : shares[f].risk[1], S) = SumOf(w, S)
<1>1. \A g : SharesUp(g, shares, S) <=> SumsUp(g, w, S)
  BY PickIsElement DEF SharesUp, SumsUp
<1> DEFINE h == CHOOSE g : SharesUp(g, shares, S)
<1>2. SumsUp(h, w, S)
  <2>1. \E g : SharesUp(g, shares, S)
    BY <1>1, AddsExists
  <2>2. SharesUp(h, shares, S)
    BY <2>1
  <2> HIDE DEF h
  <2> QED
    BY <1>1, <2>2
<1>3. MapThenSumSet(LAMBDA f : shares[f].risk[1], S) = h[S]
  BY DEF MapThenSumSet, MapThenFoldSet, Pick, SharesUp
<1> HIDE DEF h
<1> QED
  BY <1>2, <1>3, SumsUpToSum

TotalLoss(advice, symbol, S) == MapThenSumSet(LAMBDA f : Loss(advice, symbol, f), S)

LossesUp(g, advice, symbol, S) == g = [s \in SUBSET S |-> IF s = {} THEN 0 ELSE Loss(advice, symbol, Pick(s)) + g[s \ {Pick(s)}]]

\* What the trades of S lose, as a sum.
LEMMA LossesSum ==
    ASSUME NEW advice, NEW symbol, NEW S, IsFiniteSet(S), NEW w, \A f \in S : w[f] = Loss(advice, symbol, f)
    PROVE  TotalLoss(advice, symbol, S) = SumOf(w, S)
<1>1. \A g : LossesUp(g, advice, symbol, S) <=> SumsUp(g, w, S)
  BY PickIsElement DEF LossesUp, SumsUp
<1> DEFINE h == CHOOSE g : LossesUp(g, advice, symbol, S)
<1>2. SumsUp(h, w, S)
  <2>1. \E g : LossesUp(g, advice, symbol, S)
    BY <1>1, AddsExists
  <2>2. LossesUp(h, advice, symbol, S)
    BY <2>1
  <2> HIDE DEF h
  <2> QED
    BY <1>1, <2>2
<1>3. TotalLoss(advice, symbol, S) = h[S]
  BY DEF TotalLoss, MapThenSumSet, MapThenFoldSet, Pick, LossesUp
<1> HIDE DEF h
<1> QED
  BY <1>2, <1>3, SumsUpToSum

\* The shares of a division of risk: whole numerators over one divisor.
LEMMA DividedRisk ==
    ASSUME NEW m, NEW p, IsPrepared(m), DOMAIN p.judged \subseteq StrategyFamilies,
           AreSetups(m, p.judged, p.setups), IsShared(m, p), GrantedOf(p.shares) # {}
    PROVE  LET J == JointCapacity(m.account)
               limit == m.account.rollover * PerTradePct
           IN  /\ J \in Nat /\ limit \in Int /\ Divisor(m, p) \in Nat \ {0}
               /\ \A f \in GrantedOf(p.shares) :
                    /\ p.shares[f].risk[1] \in Nat \ {0}
                    /\ p.shares[f].risk[2] = Divisor(m, p)
                    /\ p.shares[f].risk[1] <= limit * Divisor(m, p)
               /\ MapThenSumSet(LAMBDA f : p.shares[f].risk[1], GrantedOf(p.shares)) <= J * Divisor(m, p)
<1> DEFINE a == m.account
           J == JointCapacity(a)
           N == NewTradeCapacity(a)
           R == Requested(p.risks)
           limit == a.rollover * PerTradePct
           share == Min({limit, N})
           granted == GrantedOf(p.shares)
           G == GrantedOf(p.risks)
           w == [f \in G |-> p.risks[f].risk]
<1>1. /\ limit \in Int /\ N \in Nat /\ J \in Nat /\ (N > 0 /\ PortfolioCapacity(a) > 0 => J > 0)
  <2>1. IsAccount(a)
    BY DEF IsPrepared, IsShared
  <2> QED
    BY <2>1, Capacities, TradingCycleAssumption DEF IsAccount
<1>2. share \in Int /\ share <= limit /\ (limit > 0 /\ N > 0 => share > 0)
  BY <1>1, MinOfTwo
<1>3. J > 0 /\ share > 0
  <2>1. J > 0 /\ N > 0 /\ DailyCapacity(a) > 0
    BY <1>1, GrantedShare
  <2>2. IsAccount(a)
    BY DEF IsPrepared, IsShared
  <2>3. {a.rollover, a.realized, a.floating} \subseteq Int /\ {DailyPct, PerTradePct} \subseteq Nat \ {0}
    BY <2>2, TradingCycleAssumption DEF IsAccount
  <2>4. a.rollover * DailyPct > 0
    <3> DEFINE lost == Positive(-(a.realized + a.floating))
    <3>1. lost \in Nat
      BY <2>3, PositivePart
    <3>2. DailyCapacity(a) = a.rollover * DailyPct - 100 * lost
      BY <2>1, <2>2, Capacities
    <3> HIDE DEF lost
    <3> QED
      BY <2>1, <2>3, <3>1, <3>2
  <2>5. a.rollover > 0
    BY <2>3, <2>4
  <2>6. limit > 0
    BY <2>3, <2>5
  <2> QED
    BY <1>2, <2>1, <2>6
<1>4. /\ R \in Int /\ G \in SUBSET StrategyFamilies /\ R = SumOf(w, G)
      /\ \A f \in G : w[f] = share
  <2>1. G \in SUBSET StrategyFamilies
    BY DEF IsShared, RiskShares, GrantedOf
  <2>2. \A f \in G : p.risks[f].risk = share
    BY <1>1 DEF GrantedOf, IsShared, RiskShares, IndividualShare, Denied, Granted, IsGranted
  <2>3. SumOf(w, G) \in Int
    BY <1>2, <2>1, <2>2, FamiliesAreFinite, SumType
  <2>4. R = SumOf(w, G)
    BY <2>1, FamiliesAreFinite, RequestsSum DEF Requested
  <2> QED
    BY <2>1, <2>2, <2>3, <2>4
<1>5. Divisor(m, p) = (IF R <= J THEN 1 ELSE R) /\ Divisor(m, p) \in Nat \ {0}
  <2> HIDE DEF R, J
  <2> QED
    BY <1>1, <1>3, <1>4 DEF Divisor, R, J
<1>6. ASSUME NEW f \in granted
      PROVE  /\ p.shares[f].risk[1] \in Nat \ {0}
             /\ p.shares[f].risk[1] = IF R <= J THEN share ELSE share * J
             /\ f \in G
             /\ p.shares[f].risk[2] = Divisor(m, p)
             /\ p.shares[f].risk[1] <= limit * Divisor(m, p)
  <2>1. p.shares[f].risk = IF R <= J THEN <<share, 1>> ELSE <<share * J, R>>
    <3>1. /\ p.risks[f].risk = share
          /\ p.shares[f].risk = IF R <= J THEN <<p.risks[f].risk, 1>> ELSE <<p.risks[f].risk * J, R>>
      BY <1>6, GrantedShare
    <3> HIDE DEF share, R, J
    <3> QED
      BY <3>1
  <2>2. p.shares[f].risk[2] = Divisor(m, p)
    BY <1>5, <2>1
  <2>3. f \in G
    BY <1>6, GrantedShare
  <2> HIDE DEF limit, share, R, J, G
  <2>4. CASE R <= J
    BY <1>1, <1>2, <1>3, <1>5, <2>1, <2>2, <2>3, <2>4
  <2>5. CASE ~(R <= J)
    <3>1. p.shares[f].risk[1] = share * J /\ share * J \in Int /\ Divisor(m, p) = R /\ J < R
      BY <1>1, <1>2, <1>4, <1>5, <2>1, <2>5
    <3>2. share * J > 0
      BY <1>1, <1>2, <1>3
    <3>3. share * J <= share * R
      BY <1>1, <1>2, <1>3, <1>4, <3>1
    <3>4. share * R <= limit * R
      BY <1>1, <1>2, <1>3, <1>4, <3>1
    <3>5. share * R \in Int /\ limit * R \in Int
      BY <1>1, <1>2, <1>4
    <3> QED
      BY <2>2, <2>3, <2>5, <3>1, <3>2, <3>3, <3>4, <3>5
  <2> QED
    BY <2>4, <2>5
<1>7. MapThenSumSet(LAMBDA f : p.shares[f].risk[1], granted) <= J * Divisor(m, p)
  <2> DEFINE v == [f \in granted |-> p.shares[f].risk[1]]
  <2>1. granted \in SUBSET G /\ IsFiniteSet(G) /\ IsFiniteSet(granted)
    <3>1. granted \in SUBSET G
      BY <1>6
    <3> QED
      BY <1>4, <3>1, FamiliesAreFinite, FS_Subset
  <2>2. MapThenSumSet(LAMBDA f : p.shares[f].risk[1], granted) = SumOf(v, granted)
    BY <2>1, SharesSum
  <2>3. SumOf(w, granted) <= R /\ SumOf(w, granted) \in Int
    <3>1. \A f \in G : w[f] \in Nat
      <4>1. share \in Nat
        BY <1>2, <1>3
      <4> HIDE DEF share, w, G
      <4> QED
        BY <1>4, <4>1
    <3> HIDE DEF w, G, R, granted
    <3> QED
      BY <1>4, <2>1, <3>1, SumSubset, SumType
  <2> HIDE DEF w, granted, share, R, J, G
  <2>4. CASE R <= J
    <3>1. \A f \in granted : v[f] = w[f]
      BY <1>4, <1>6, <2>4
    <3> HIDE DEF v
    <3>2. SumOf(v, granted) = SumOf(w, granted)
      BY <2>1, <3>1, SumAgrees
    <3> QED
      BY <1>1, <1>4, <1>5, <2>2, <2>3, <2>4, <3>2
  <2>5. CASE ~(R <= J)
    <3>1. \A f \in granted : w[f] \in Int /\ v[f] \in Int /\ v[f] = w[f] * J
      BY <1>1, <1>2, <1>4, <1>6, <2>1, <2>5
    <3> HIDE DEF v
    <3>2. SumOf(v, granted) = SumOf(w, granted) * J
      BY <1>1, <2>1, <3>1, SumTimes
    <3>3. SumOf(w, granted) * J <= R * J /\ R * J = J * R
      BY <1>1, <1>4, <2>3
    <3> QED
      BY <1>5, <2>2, <2>5, <3>2, <3>3
  <2> QED
    BY <2>4, <2>5
<1> QED
  BY <1>1, <1>5, <1>6, <1>7

\* The validators of the shares accept every division: the capacity holds them.
LEMMA SharesFit ==
    ASSUME NEW m, NEW p, IsPrepared(m), DOMAIN p.judged \subseteq StrategyFamilies,
           AreSetups(m, p.judged, p.setups), IsShared(m, p)
    PROVE  SharesAreValid(m, p.shares)
<1>1. CASE GrantedOf(p.shares) = {}
  BY <1>1 DEF SharesAreValid, GrantedOf
<1>2. CASE GrantedOf(p.shares) # {}
  <2> DEFINE total == MapThenSumSet(LAMBDA f : p.shares[f].risk[1], GrantedOf(p.shares))
             J == JointCapacity(m.account)
  <2>1. \A f \in GrantedOf(p.shares) : p.shares[f].risk[1] \in Nat \ {0} /\ p.shares[f].risk[2] = Divisor(m, p)
    BY <1>2, DividedRisk
  <2>2. total <= J * Divisor(m, p)
    BY <1>2, DividedRisk
  <2>3. total = MapThenSumSet(LAMBDA g : p.shares[g].risk[1], {f \in DOMAIN p.shares : IsGranted(p.shares[f])})
    BY DEF GrantedOf
  <2> HIDE DEF total, J
  <2>4. \A f \in GrantedOf(p.shares) : p.shares[f].risk[1] > 0 /\ total <= J * p.shares[f].risk[2]
    BY <2>1, <2>2
  <2> QED
    BY <2>3, <2>4 DEF SharesAreValid, GrantedOf, J
<1> QED
  BY <1>1, <1>2

-----------------------------------------------------------------------------
(* The budget.                                                              *)

\* The volume of a trade risks no more than its share.
LEMMA SizedTrade ==
    ASSUME NEW m, IsPrepared(m), m.symbol # NoSymbol, NEW setup, setup.risk \in Nat \ {0},
           NEW risk, risk[1] \in Nat, risk[2] \in Nat \ {0},
           Sizing(setup, risk, m.symbol).outcome = "ACTIONABLE"
    PROVE  LET sizing == Sizing(setup, risk, m.symbol)
           IN  /\ sizing.volume \in Int
               /\ sizing.risk = 100 * setup.risk * sizing.volume
               /\ sizing.risk * risk[2] <= risk[1]
<1> DEFINE symbol == m.symbol
           perUnit == 100 * setup.risk
           volume == VolumeToStep(risk, perUnit, symbol)
           least == symbol.volMin * perUnit * risk[2]
<1>1. /\ Sizing(setup, risk, symbol) = [outcome |-> "ACTIONABLE", volume |-> volume, risk |-> perUnit * volume]
      /\ ~(symbol.volMin <= 0) /\ ~(symbol.volStep <= 0)
      /\ ~(risk[1] < least) /\ ~(risk[1] >= least /\ perUnit * volume * risk[2] > risk[1])
  <2> HIDE DEF volume
  <2> QED
    BY DEF Sizing, volume
<1>2. {symbol.volMin, symbol.volMax, symbol.volStep} \subseteq Int
  BY DEF IsPrepared, IsSymbol
<1>3. volume \in Int
  <2> DEFINE largest == symbol.volMax - ((symbol.volMax - symbol.volMin) % symbol.volStep)
             steps == (risk[1] - symbol.volMin * perUnit * risk[2]) \div (symbol.volStep * perUnit * risk[2])
  <2>1. largest \in Int
    BY <1>1, <1>2
  <2>2. risk[1] - symbol.volMin * perUnit * risk[2] \in Int /\ symbol.volStep * perUnit * risk[2] \in Nat \ {0}
    <3>1. perUnit \in Nat \ {0}
      OBVIOUS
    <3> HIDE DEF perUnit
    <3>2. symbol.volMin * perUnit \in Int /\ symbol.volStep * perUnit \in Nat \ {0}
      BY <1>1, <1>2, <3>1
    <3> QED
      BY <3>2
  <2>3. steps \in Int
    <3> HIDE DEF perUnit, symbol
    <3> QED
      BY <2>2
  <2> HIDE DEF largest, steps
  <2>4. symbol.volMin + steps * symbol.volStep \in Int
    BY <1>2, <2>3
  <2>5. volume = Min({largest, symbol.volMin + steps * symbol.volStep})
    BY DEF VolumeToStep, largest, steps
  <2> QED
    BY <2>1, <2>4, <2>5, MinOfTwo
<1>4. perUnit * volume * risk[2] \in Int
  <2> HIDE DEF volume
  <2> QED
    BY <1>3
<1> HIDE DEF volume
<1>5. perUnit * volume * risk[2] <= risk[1]
  <2>1. least \in Int
    BY <1>2
  <2> HIDE DEF least
  <2> QED
    BY <1>1, <1>4, <2>1
<1> QED
  BY <1>1, <1>3, <1>5

LEMMA RecommendedTrade ==
    ASSUME NEW m, NEW p, IsPrepared(m), DOMAIN p.judged \subseteq StrategyFamilies,
           AreSetups(m, p.judged, p.setups), IsShared(m, p),
           NEW advice, advice = Recommendations(m, p.setups, p.shares), NEW f \in DOMAIN advice
    PROVE  /\ m.symbol # NoSymbol /\ f \in GrantedOf(p.shares)
           /\ Loss(advice, m.symbol, f) \in Int /\ Loss(advice, m.symbol, f) = advice[f].risk
           /\ Loss(advice, m.symbol, f) * Divisor(m, p) <= p.shares[f].risk[1]
<1> DEFINE setup == p.setups[f]
           risk == p.shares[f].risk
           symbol == m.symbol
           sizing == Sizing(setup, risk, symbol)
<1>1. /\ symbol # NoSymbol /\ f \in GrantedOf(p.shares) /\ sizing.outcome = "ACTIONABLE"
      /\ advice[f] = Recommendation(setup, sizing)
  BY DEF Recommendations, GrantedOf
<1>2. f \in DOMAIN p.setups /\ CandidateRisk(m, setup) > 0
  BY <1>1, GrantedShare
<1>3. /\ SymbolUsable(symbol)
      /\ \E ticks \in Nat : Distance(setup.entry, setup.stop) = ticks * symbol.tick /\ setup.risk = ticks * symbol.tickValue
  BY <1>2 DEF CandidateRisk, AreSetups, IsSetup
<1>4. PICK ticks \in Nat : Distance(setup.entry, setup.stop) = ticks * symbol.tick /\ setup.risk = ticks * symbol.tickValue
  BY <1>3
<1>5. symbol.tick \in Nat \ {0} /\ symbol.tickValue \in Nat \ {0}
  BY <1>3 DEF SymbolUsable, IsPrepared, IsSymbol
<1>6. setup.risk \in Nat \ {0}
  <2>1. CandidateRisk(m, setup) = 100 * setup.risk
    BY <1>2 DEF CandidateRisk
  <2> HIDE DEF setup, symbol
  <2>2. setup.risk \in Nat
    BY <1>4, <1>5
  <2> QED
    BY <1>2, <2>1, <2>2
<1>7. risk[1] \in Nat \ {0} /\ risk[2] = Divisor(m, p) /\ Divisor(m, p) \in Nat \ {0}
  BY <1>1, DividedRisk
<1>8. /\ sizing.volume \in Int /\ sizing.risk = 100 * setup.risk * sizing.volume
      /\ sizing.risk * risk[2] <= risk[1]
  <2> HIDE DEF setup, risk
  <2> QED
    BY <1>1, <1>6, <1>7, SizedTrade
<1>9. Loss(advice, symbol, f) = sizing.risk
  <2>1. Loss(advice, symbol, f)
          = (100 * Distance(setup.entry, setup.stop) * symbol.tickValue * sizing.volume) \div symbol.tick
    BY <1>1 DEF Loss, Recommendation
  <2> HIDE DEF setup, symbol, sizing
  <2>2. 100 * (ticks * symbol.tick) * symbol.tickValue * sizing.volume
          = (100 * (ticks * symbol.tickValue) * sizing.volume) * symbol.tick
    BY <1>5, <1>8
  <2>3. 100 * (ticks * symbol.tickValue) * sizing.volume \in Int
    BY <1>5, <1>8
  <2>4. (100 * Distance(setup.entry, setup.stop) * symbol.tickValue * sizing.volume) \div symbol.tick
          = 100 * (ticks * symbol.tickValue) * sizing.volume
    <3> DEFINE whole == 100 * (ticks * symbol.tickValue) * sizing.volume
    <3>1. 100 * Distance(setup.entry, setup.stop) * symbol.tickValue * sizing.volume
            = 100 * (ticks * symbol.tick) * symbol.tickValue * sizing.volume
      BY <1>4
    <3>2. (whole * symbol.tick) \div symbol.tick = whole
      BY <1>5, <2>3, DivideProduct
    <3> QED
      BY <2>2, <3>1, <3>2
  <2> QED
    BY <1>4, <1>8, <2>1, <2>4
<1>10. sizing.risk \in Int /\ advice[f].risk = sizing.risk
  <2>1. advice[f].risk = sizing.risk
    BY <1>1 DEF Recommendation
  <2> HIDE DEF setup, sizing
  <2> QED
    BY <1>6, <1>8, <2>1
<1> QED
  BY <1>1, <1>7, <1>8, <1>9, <1>10

\* All that may be lost is no more than the joint capacity, and each trade loses
\* no more than a trade may.
LEMMA LossesFit ==
    ASSUME NEW m, NEW p, IsPrepared(m), DOMAIN p.judged \subseteq StrategyFamilies,
           AreSetups(m, p.judged, p.setups), IsShared(m, p),
           NEW advice, advice = Recommendations(m, p.setups, p.shares), DOMAIN advice # {}
    PROVE  LET losses == TotalLoss(advice, m.symbol, DOMAIN advice)
           IN  /\ losses \in Int /\ losses <= JointCapacity(m.account)
               /\ \A f \in DOMAIN advice : /\ Loss(advice, m.symbol, f) = advice[f].risk
                                          /\ Loss(advice, m.symbol, f) <= m.account.rollover * PerTradePct
<1> DEFINE S == DOMAIN advice
           G == GrantedOf(p.shares)
           J == JointCapacity(m.account)
           limit == m.account.rollover * PerTradePct
           d == Divisor(m, p)
           w == [f \in S |-> Loss(advice, m.symbol, f)]
           v == [f \in G |-> p.shares[f].risk[1]]
           losses == TotalLoss(advice, m.symbol, S)
<1>1. \A f \in S : f \in G /\ w[f] \in Int /\ w[f] * d <= v[f] /\ w[f] = advice[f].risk
  BY RecommendedTrade
<1>2. G # {} /\ G \in SUBSET StrategyFamilies /\ S \in SUBSET G /\ S \in SUBSET StrategyFamilies
  BY <1>1 DEF IsShared, RiskShares, PortfolioShares, SessionShares, GrantedOf
<1>3. IsFiniteSet(G) /\ IsFiniteSet(S)
  BY <1>2, FamiliesAreFinite
<1>4. J \in Nat /\ limit \in Int /\ d \in Nat \ {0} /\ \A f \in G : v[f] \in Nat /\ v[f] <= limit * d
  BY <1>2, DividedRisk
<1>5. SumOf(v, G) <= J * d
  <2>1. MapThenSumSet(LAMBDA f : p.shares[f].risk[1], G) <= J * d
    BY <1>2, DividedRisk
  <2>2. MapThenSumSet(LAMBDA f : p.shares[f].risk[1], G) = SumOf(v, G)
    BY <1>3, SharesSum
  <2> QED
    BY <2>1, <2>2
<1>6. losses = SumOf(w, S)
  <2>1. \A f \in S : w[f] = Loss(advice, m.symbol, f)
    OBVIOUS
  <2> HIDE DEF w
  <2> QED
    BY <1>3, <2>1, LossesSum
<1> HIDE DEF w, v, losses, J, limit, d
<1>7. SumOf(w, S) * d <= J * d
  <2>1. \A f \in S : w[f] \in Int /\ v[f] \in Int /\ w[f] * d <= v[f]
    BY <1>1, <1>4
  <2>2. SumOf(w, S) * d <= SumOf(v, S)
    BY <1>3, <1>4, <2>1, SumScaled
  <2>3. SumOf(v, S) <= SumOf(v, G)
    BY <1>2, <1>3, <1>4, SumSubset
  <2>4. SumOf(w, S) \in Int /\ SumOf(v, S) \in Int /\ SumOf(v, G) \in Int
    BY <1>3, <1>4, <2>1, SumType
  <2>5. SumOf(w, S) * d \in Int /\ J * d \in Int
    BY <1>4, <2>4
  <2> QED
    BY <1>5, <2>2, <2>3, <2>4, <2>5
<1>8. losses \in Int /\ losses <= J
  <2>1. SumOf(w, S) \in Int
    BY <1>1, <1>3, SumType
  <2> QED
    BY <1>4, <1>6, <1>7, <2>1, Cancel
<1>9. \A f \in S : w[f] <= limit
  <2> SUFFICES ASSUME NEW f \in S PROVE w[f] <= limit
    OBVIOUS
  <2>1. w[f] \in Int /\ v[f] \in Int /\ w[f] * d <= v[f] /\ v[f] <= limit * d
    BY <1>1, <1>4
  <2>2. w[f] * d \in Int /\ limit * d \in Int
    BY <1>4, <2>1
  <2>3. w[f] * d <= limit * d
    BY <2>1, <2>2
  <2> QED
    BY <1>4, <2>1, <2>3, Cancel
<1> QED
  BY <1>1, <1>8, <1>9 DEF w, losses, J, limit

\* What the pipeline has in hand, stage by stage.
TradeInv ==
    /\ IF pipeline.stage = "FACTS" THEN IsMarket(market) ELSE IsPrepared(market)
    /\ pipeline.stage \in {"JUDGED", "SETUP", "SHARED", "DONE"} => DOMAIN pipeline.judged \subseteq StrategyFamilies
    /\ pipeline.stage \in {"SETUP", "SHARED", "DONE"} => AreSetups(market, pipeline.judged, pipeline.setups)
    /\ pipeline.stage = "SHARED" => IsShared(market, pipeline)
    /\ pipeline.stage = "DONE" =>
         IF market.account = NoAccount THEN pipeline.advice = <<>>
         ELSE /\ IsShared(market, pipeline)
              /\ pipeline.advice = Recommendations(market, pipeline.setups, pipeline.shares)

LEMMA Prepared == ASSUME NEW m, IsMarket(m) PROVE IsPrepared(WithEvidence(m))
<1>1. {"account", "symbol", "structure", "external"} \subseteq DOMAIN m
  BY DEF IsMarket
<1>2. /\ WithEvidence(m).account = m.account /\ WithEvidence(m).symbol = m.symbol
      /\ WithEvidence(m).external = m.external
      /\ WithEvidence(m).structure = IF SetupTimeframe \in DOMAIN m.snapshots
                                     THEN m.snapshots[SetupTimeframe].structure ELSE NoStructure
  BY <1>1 DEF WithEvidence
<1> QED
  BY <1>2 DEF IsMarket, IsPrepared

LEMMA TradeStep == TradeInv /\ [TradeNext]_tradeVars => TradeInv'
<1> SUFFICES ASSUME TradeInv, [TradeNext]_tradeVars
             PROVE  TradeInv'
  OBVIOUS
<1>1. CASE AnalyzeTechnical
  BY <1>1, Prepared DEF AnalyzeTechnical, TradeInv, Raised
<1>2. CASE JudgeMarket
  BY <1>2 DEF JudgeMarket, TradeInv, Raised, Judgements, EligibleFamilies
<1>3. CASE ConstructSetups
  <2>1. AreSetups(market, pipeline.judged, Construct(market, pipeline.judged))
    BY <1>3, Setups DEF ConstructSetups, TradeInv
  <2> QED
    BY <1>3, <2>1 DEF ConstructSetups, TradeInv, Raised
<1>4. CASE BlockBeforeRisk
  BY <1>4 DEF BlockBeforeRisk, TradeInv
<1>5. CASE ShareRisk
  BY <1>5 DEF ShareRisk, TradeInv, Raised, IsShared
<1>6. CASE Recommend
  BY <1>6 DEF Recommend, TradeInv, IsShared
<1>7. CASE UNCHANGED tradeVars
  BY <1>7 DEF tradeVars, TradeInv
<1> QED
  BY <1>1, <1>2, <1>3, <1>4, <1>5, <1>6, <1>7 DEF TradeNext

LEMMA Budget == TradeInv => RiskStaysInBudget
<1> SUFFICES ASSUME TradeInv, Done, pipeline.advice # <<>>
             PROVE  RiskStaysInBudget
  BY DEF RiskStaysInBudget
<1> DEFINE a == market.account
           advice == pipeline.advice
           losses == TotalLoss(advice, market.symbol, DOMAIN advice)
           lostToday == 100 * Positive(-(a.realized + a.floating))
<1>1. /\ IsPrepared(market) /\ DOMAIN pipeline.judged \subseteq StrategyFamilies
      /\ AreSetups(market, pipeline.judged, pipeline.setups) /\ IsShared(market, pipeline)
      /\ advice = Recommendations(market, pipeline.setups, pipeline.shares)
  <2>1. pipeline.stage = "DONE" /\ advice # <<>>
    BY Zenon DEF Done
  <2>2. market.account # NoAccount
    BY <2>1, Zenon DEF TradeInv
  <2> QED
    BY <2>1, <2>2 DEF TradeInv
<1>2. DOMAIN advice # {}
  BY <1>1 DEF Recommendations
<1>3. PICK f \in DOMAIN advice : TRUE
  BY <1>2
<1>4. /\ losses \in Int /\ losses <= JointCapacity(a)
      /\ \A g \in DOMAIN advice : /\ Loss(advice, market.symbol, g) = advice[g].risk
                                 /\ Loss(advice, market.symbol, g) <= a.rollover * PerTradePct
  BY <1>1, <1>2, LossesFit
<1>6. IsAccount(a)
  BY <1>1 DEF IsPrepared, IsShared
<1>7. DailyCapacity(a) > 0 /\ NewTradeCapacity(a) > 0 /\ PortfolioCapacity(a) > 0
  <2>1. f \in GrantedOf(pipeline.shares)
    BY <1>1, <1>3, RecommendedTrade
  <2> HIDE DEF advice
  <2> QED
    BY <1>1, <2>1, GrantedShare
<1>8. /\ losses + 100 * a.openRisk + lostToday <= a.rollover * DailyPct
      /\ losses + 100 * a.openRisk <= a.equity * PortfolioPct
  <2>1. {a.rollover, a.equity, a.realized, a.floating, a.openRisk} \subseteq Int
    BY <1>6 DEF IsAccount
  <2>2. lostToday \in Int
    BY <2>1, PositivePart
  <2>3. a.rollover * DailyPct \in Int /\ a.equity * PortfolioPct \in Int
    <3>1. DailyPct \in Int /\ PortfolioPct \in Int
      BY TradingCycleAssumption
    <3> HIDE DEF a
    <3> QED
      BY <2>1, <3>1
  <2>4. /\ NewTradeCapacity(a) = a.rollover * DailyPct - lostToday - 100 * a.openRisk
        /\ PortfolioCapacity(a) = a.equity * PortfolioPct - 100 * a.openRisk
    BY <1>6, <1>7, Capacities
  <2>5. losses <= NewTradeCapacity(a) /\ losses <= PortfolioCapacity(a)
    BY <1>4, <1>6, Capacities
  <2>6. losses \in Int /\ {a.openRisk, a.rollover * DailyPct, a.equity * PortfolioPct} \subseteq Int
    BY <1>4, <2>1, <2>3
  <2> HIDE DEF losses, lostToday, a
  <2> QED
    BY <2>2, <2>4, <2>5, <2>6
<1> QED
  BY <1>4, <1>8 DEF RiskStaysInBudget, TotalLoss, Loss

\* The recommendations of a cycle stay within what the day still allows, the
\* portfolio limit and the limit of a trade (decision_risk_pipeline.py, app/risk,
\* app/diversification, mt5/sizing.py): for every market and configuration, in the
\* pipeline alone and in the cycle that reports it.
THEOREM TradeBudget == TradeSpec => []RiskStaysInBudget
<1>1. TradeInit => TradeInv
  BY MarketsAssumption DEF TradeInit, TradeInv
<1> QED
  BY <1>1, TradeStep, Budget, PTL DEF TradeSpec

LEMMA ReportStepsTrade == [ReportNext]_reportVars => [TradeNext]_tradeVars
BY DEF ReportNext, reportVars, tradeVars, EvaluatePipeline, RunRuntimeCycle, ExplainWithoutProvider, ProviderFails,
   ProviderAnswers, ProviderErrs, AnswerRequest

THEOREM CycleBudget == ReportSpec => []RiskStaysInBudget
<1>1. ReportInit => TradeInv
  BY CyclesAssumption DEF ReportInit, TradeInv
<1> QED
  BY <1>1, TradeStep, ReportStepsTrade, Budget, PTL DEF ReportSpec

-----------------------------------------------------------------------------
(* The cards of the explanation.                                            *)

\* f retains the members of S among the first n elements of s.
RetainsUpTo(f, s, S, n) ==
    f = [k \in 0 .. n |->
            IF k = 0 THEN <<>> ELSE IF s[k] \in S THEN Append(f[k - 1], s[k]) ELSE f[k - 1]]

LEMMA RetainsExists ==
    ASSUME NEW s, NEW S, NEW n \in Nat
    PROVE  \E f : RetainsUpTo(f, s, S, n)
<1> DEFINE T == {m \in Nat : \E f : RetainsUpTo(f, s, S, m)}
<1>1. 0 \in T
  <2> DEFINE f == [k \in 0 .. 0 |-> <<>>]
  <2>1. RetainsUpTo(f, s, S, 0)
    BY DEF RetainsUpTo
  <2> QED
    BY <2>1
<1>2. ASSUME NEW m \in Nat, m \in T
      PROVE  m + 1 \in T
  <2>1. PICK f : RetainsUpTo(f, s, S, m)
    BY <1>2
  <2> DEFINE last == IF s[m + 1] \in S THEN Append(f[m], s[m + 1]) ELSE f[m]
             g == [k \in 0 .. m + 1 |-> IF k = m + 1 THEN last ELSE f[k]]
             step(k) == IF k = 0 THEN <<>> ELSE IF s[k] \in S THEN Append(g[k - 1], s[k]) ELSE g[k - 1]
  <2>2. \A k \in 0 .. m : f[k] = IF k = 0 THEN <<>> ELSE IF s[k] \in S THEN Append(f[k - 1], s[k]) ELSE f[k - 1]
    BY <2>1 DEF RetainsUpTo
  <2>3. \A k \in 0 .. m + 1 : g[k] = step(k)
    <3> SUFFICES ASSUME NEW k \in 0 .. m + 1 PROVE g[k] = step(k)
      OBVIOUS
    <3>1. CASE k = m + 1
      <4>1. g[m + 1] = last /\ g[m] = f[m] /\ k - 1 = m /\ k # 0
        BY <3>1
      <4> QED
        BY <3>1, <4>1
    <3>2. CASE k # m + 1
      <4>1. g[k] = f[k] /\ k \in 0 .. m /\ (k # 0 => g[k - 1] = f[k - 1])
        BY <3>2
      <4> HIDE DEF g
      <4> QED
        BY <2>2, <4>1
    <3> QED
      BY <3>1, <3>2
  <2>4. g = [k \in 0 .. m + 1 |-> g[k]]
    OBVIOUS
  <2> HIDE DEF g
  <2>5. g = [k \in 0 .. m + 1 |-> step(k)]
    BY <2>3, <2>4
  <2>6. RetainsUpTo(g, s, S, m + 1)
    BY <2>5, Zenon DEF RetainsUpTo
  <2>7. m + 1 \in Nat
    OBVIOUS
  <2> QED
    BY <2>6, <2>7
<1> HIDE DEF T
<1>3. Nat \subseteq T
  BY <1>1, <1>2, NatSetInduction
<1> QED
  BY <1>3 DEF T

\* What is retained are the members of S, each as often as it was there.
LEMMA Retained ==
    ASSUME NEW A, NEW s \in Seq(A), NEW S, IsInjective(s)
    PROVE  Retain(s, S) \in Seq(A) /\ ToSet(Retain(s, S)) = ToSet(s) \cap S /\ IsInjective(Retain(s, S))
<1> DEFINE N == Len(s)
           h == CHOOSE f : RetainsUpTo(f, s, S, N)
<1>1. N \in Nat /\ DOMAIN s = 1 .. N
  OBVIOUS
<1>2. RetainsUpTo(h, s, S, N)
  BY <1>1, RetainsExists
<1>3. Retain(s, S) = h[N]
  BY DEF Retain, RetainsUpTo
<1> HIDE DEF h, N
<1>4. /\ h[0] = <<>>
      /\ \A k \in 0 .. N : k # 0 => h[k] = IF s[k] \in S THEN Append(h[k - 1], s[k]) ELSE h[k - 1]
  <2>1. PICK g : g = h
    OBVIOUS
  <2>2. h = [k \in 0 .. N |-> IF k = 0 THEN <<>> ELSE IF s[k] \in S THEN Append(g[k - 1], s[k]) ELSE g[k - 1]]
    BY <1>2, <2>1, Zenon DEF RetainsUpTo
  <2>3. 0 \in 0 .. N
    BY <1>1
  <2>4. h[0] = <<>>
    BY <2>2, <2>3
  <2>5. \A k \in 0 .. N : k # 0 => h[k] = IF s[k] \in S THEN Append(g[k - 1], s[k]) ELSE g[k - 1]
    BY <2>2
  <2> QED
    BY <2>1, <2>4, <2>5, Zenon
<1> DEFINE kept(k) == {s[i] : i \in 1 .. k} \cap S
           right(k) == h[k] \in Seq(A) /\ ToSet(h[k]) = kept(k) /\ IsInjective(h[k])
           T == {k \in Nat : k <= N => right(k)}
<1>5. 0 \in T
  <2>1. h[0] \in Seq(A) /\ ToSet(h[0]) = {} /\ IsInjective(h[0])
    BY <1>4 DEF ToSet, IsInjective
  <2>2. kept(0) = {}
    OBVIOUS
  <2> QED
    BY <2>1, <2>2
<1>6. ASSUME NEW k \in Nat, k \in T
      PROVE  k + 1 \in T
  <2> SUFFICES ASSUME k + 1 <= N PROVE right(k + 1)
    OBVIOUS
  <2>1. right(k) /\ k + 1 \in 1 .. N /\ k + 1 \in DOMAIN s /\ s[k + 1] \in A
    BY <1>1, <1>6
  <2>2. h[k + 1] = IF s[k + 1] \in S THEN Append(h[k], s[k + 1]) ELSE h[k]
    <3>1. k + 1 \in 0 .. N /\ k + 1 # 0 /\ (k + 1) - 1 = k
      BY <1>1
    <3> QED
      BY <1>4, <3>1
  <2>3. kept(k + 1) = IF s[k + 1] \in S THEN kept(k) \cup {s[k + 1]} ELSE kept(k)
    <3>1. 1 .. k + 1 = (1 .. k) \cup {k + 1}
      OBVIOUS
    <3> QED
      BY <3>1
  <2>4. s[k + 1] \notin kept(k)
    <3>1. \A i \in 1 .. k : i \in DOMAIN s /\ i # k + 1
      BY <1>1
    <3> QED
      BY <2>1, <3>1 DEF IsInjective
  <2>5. CASE s[k + 1] \in S
    <3> DEFINE q == h[k]
               x == s[k + 1]
               p == Append(q, x)
    <3>1. q \in Seq(A) /\ ToSet(q) = kept(k) /\ IsInjective(q) /\ x \in A /\ x \notin ToSet(q)
      BY <2>1, <2>4
    <3> HIDE DEF q, x, kept
    <3>2. p \in Seq(A) /\ DOMAIN p = 1 .. Len(q) + 1 /\ DOMAIN q = 1 .. Len(q) /\ Len(q) \in Nat
      BY <3>1
    <3>3. p[Len(q) + 1] = x /\ \A i \in 1 .. Len(q) : p[i] = q[i]
      BY <3>1
    <3> HIDE DEF p
    <3>4. ToSet(p) = ToSet(q) \cup {x}
      <4>1. 1 .. Len(q) + 1 = (1 .. Len(q)) \cup {Len(q) + 1}
        BY <3>2
      <4> QED
        BY <3>2, <3>3, <4>1 DEF ToSet
    <3>5. IsInjective(p)
      <4>1. \A i \in 1 .. Len(q) : q[i] # x
        BY <3>1, <3>2 DEF ToSet
      <4>2. \A i, j \in 1 .. Len(q) : q[i] = q[j] => i = j
        BY <3>1, <3>2 DEF IsInjective
      <4>3. \A i \in 1 .. Len(q) + 1 : i \in 1 .. Len(q) \/ i = Len(q) + 1
        BY <3>2
      <4> QED
        BY <3>2, <3>3, <4>1, <4>2, <4>3 DEF IsInjective
    <3> QED
      BY <2>2, <2>3, <2>5, <3>1, <3>2, <3>4, <3>5 DEF p, q, x
  <2>6. CASE s[k + 1] \notin S
    BY <2>1, <2>2, <2>3, <2>6
  <2> QED
    BY <2>5, <2>6
<1> HIDE DEF T
<1>7. Nat \subseteq T
  BY <1>5, <1>6, NatSetInduction
<1>8. N \in T
  BY <1>1, <1>7
<1>9. right(N)
  BY <1>1, <1>8, N <= N DEF T
<1>10. {s[i] : i \in 1 .. N} = ToSet(s)
  BY <1>1 DEF ToSet
<1> QED
  BY <1>3, <1>9, <1>10

\* Two sequences without a common element.
LEMMA JoinedWithoutRepeats ==
    ASSUME NEW A, NEW p \in Seq(A), NEW B, NEW q \in Seq(B), IsInjective(p), IsInjective(q), ToSet(p) \cap ToSet(q) = {}
    PROVE  IsInjective(p \o q)
<1> DEFINE m == Len(p)
           n == Len(q)
           r == p \o q
<1>1. m \in Nat /\ n \in Nat /\ DOMAIN p = 1 .. m /\ DOMAIN q = 1 .. n /\ DOMAIN r = 1 .. m + n
  <2>1. p \in Seq(A \cup B) /\ q \in Seq(A \cup B)
    OBVIOUS
  <2> QED
    BY <2>1
<1>2. /\ \A i \in 1 .. m : r[i] = p[i]
      /\ \A i \in m + 1 .. m + n : i - m \in 1 .. n /\ r[i] = q[i - m]
  BY <1>1
<1> HIDE DEF m, n, r
<1>3. ASSUME NEW i \in 1 .. m + n, NEW j \in 1 .. m + n, r[i] = r[j]
      PROVE  i = j
  <2>1. CASE i <= m /\ j <= m
    <3>1. i \in 1 .. m /\ j \in 1 .. m
      BY <1>1, <2>1
    <3> QED
      BY <1>1, <1>2, <1>3, <3>1 DEF IsInjective
  <2>2. CASE i > m /\ j > m
    <3>1. i \in m + 1 .. m + n /\ j \in m + 1 .. m + n
      BY <1>1, <2>2
    <3>2. i - m \in 1 .. n /\ j - m \in 1 .. n /\ q[i - m] = q[j - m]
      BY <1>2, <1>3, <3>1
    <3>3. i - m = j - m
      BY <1>1, <3>2 DEF IsInjective
    <3> QED
      BY <1>1, <3>3
  <2>3. ASSUME NEW k \in 1 .. m, NEW l \in m + 1 .. m + n
        PROVE  r[k] # r[l]
    <3>1. r[k] \in ToSet(p) /\ r[l] \in ToSet(q)
      BY <1>1, <1>2 DEF ToSet
    <3> QED
      BY <3>1
  <2>4. i \in 1 .. m \/ i \in m + 1 .. m + n
    BY <1>1
  <2>5. j \in 1 .. m \/ j \in m + 1 .. m + n
    BY <1>1
  <2> QED
    BY <1>1, <1>3, <2>1, <2>2, <2>3, <2>4, <2>5
<1> QED
  BY <1>1, <1>3 DEF IsInjective, r

\* No card is there twice: the families are told in their order, and the trades
\* tracked before have other names.
LEMMA CardsAreOnce ==
    ASSUME NEW c, NEW r
    PROVE  IsInjective(RecommendationCards(r)) /\ IsInjective(TrackingCards(c, r))
<1> DEFINE created == {f \in DOMAIN r.issued : r.issued[f].creation = "CREATED"}
           old == Retain(TradeOrder, DOMAIN c.advanced)
           new == Retain(RecommendationCards(r), created)
<1>1. /\ RecommendationCards(r) \in Seq(StrategyFamilies) /\ ToSet(RecommendationCards(r)) \subseteq StrategyFamilies
      /\ IsInjective(RecommendationCards(r))
  BY OrderAssumption, Retained DEF RecommendationCards
<1>2. old \in Seq(ToSet(TradeOrder)) /\ IsInjective(old) /\ ToSet(old) \subseteq ToSet(TradeOrder)
  BY OrderAssumption, Retained
<1>3. new \in Seq(StrategyFamilies) /\ IsInjective(new) /\ ToSet(new) \subseteq StrategyFamilies
  BY <1>1, Retained
<1>4. ToSet(old) \cap ToSet(new) = {}
  BY <1>2, <1>3, OrderAssumption
<1>5. IsInjective(old \o new)
  <2> HIDE DEF old, new
  <2> QED
    BY <1>2, <1>3, <1>4, JoinedWithoutRepeats
<1> QED
  BY <1>1, <1>5 DEF TrackingCards

-----------------------------------------------------------------------------
(* What the operator is told.                                               *)

\* The gates have taken a family all the way to its sizing.
PassesGates(f) ==
    /\ f \in DOMAIN pipeline.judged /\ PassesPolicy(pipeline.judged[f])
    /\ pipeline.setups[f].outcome = "CONSTRUCTED" /\ ~market.event

\* A trade that is recommended has passed every gate, and no result on its way
\* stopped it.
LEMMA AdvisedTrade ==
    ASSUME TradeInv, Done, NEW f \in DOMAIN pipeline.advice
    PROVE  /\ market.account # NoAccount /\ market.symbol # NoSymbol /\ f \in StrategyFamilies
           /\ PassesGates(f) /\ IsGranted(pipeline.risks[f]) /\ IsGranted(pipeline.portfolios[f])
           /\ IsGranted(pipeline.shares[f])
<1>1. market.account # NoAccount
  BY DEF TradeInv, Done
<1>2. /\ IsPrepared(market) /\ DOMAIN pipeline.judged \subseteq StrategyFamilies
      /\ AreSetups(market, pipeline.judged, pipeline.setups) /\ IsShared(market, pipeline)
      /\ pipeline.advice = Recommendations(market, pipeline.setups, pipeline.shares)
  BY <1>1 DEF TradeInv, Done
<1>3. market.symbol # NoSymbol /\ f \in GrantedOf(pipeline.shares)
  BY <1>2, RecommendedTrade
<1>4. /\ f \in DOMAIN pipeline.setups /\ CandidateRisk(market, pipeline.setups[f]) > 0
      /\ f \in GrantedOf(pipeline.risks) /\ f \in GrantedOf(pipeline.portfolios)
  BY <1>2, <1>3, GrantedShare
<1>5. f \in DOMAIN pipeline.judged /\ PassesPolicy(pipeline.judged[f])
  BY <1>2, <1>4 DEF AreSetups
<1>6. pipeline.setups[f].outcome = "CONSTRUCTED" /\ ~market.event
  BY <1>4 DEF CandidateRisk
<1> QED
  BY <1>1, <1>2, <1>3, <1>4, <1>5, <1>6 DEF PassesGates, GrantedOf

\* A family that no result before the risk gate stops has a setup.
LEMMA NotStoppedBeforeRisk ==
    ASSUME TradeInv, Done, NEW f, StageBeforeRisk(f) = "NONE"
    PROVE  PassesGates(f)
<1>1. f \in DOMAIN pipeline.judged /\ PassesPolicy(pipeline.judged[f])
  BY DEF StageBeforeRisk
<1>2. pipeline.setups[f].outcome # "BLOCKED" /\ ~market.event
  BY <1>1 DEF StageBeforeRisk
<1>3. IsSetup(market, pipeline.setups[f])
  BY <1>1 DEF TradeInv, Done, AreSetups
<1> QED
  BY <1>1, <1>2, <1>3 DEF PassesGates, IsSetup

\* A setup needs the facts of the symbol.
LEMMA SetupHasSymbol ==
    ASSUME TradeInv, Done, NEW f, PassesGates(f)
    PROVE  market.symbol # NoSymbol
<1>1. IsSetup(market, pipeline.setups[f])
  BY DEF TradeInv, Done, AreSetups, PassesGates
<1> QED
  BY <1>1 DEF PassesGates, IsSetup, SymbolUsable

\* A family that is not stopped by a later gate is recommended.
LEMMA NotStoppedFromRisk ==
    ASSUME TradeInv, Done, market.account # NoAccount, NEW c, Constructed(c), NEW f, PassesGates(f),
           StageFromRisk(c, f) = "NONE"
    PROVE  f \in DOMAIN pipeline.advice
<1>1. IsShared(market, pipeline) /\ f \in DOMAIN pipeline.judged /\ PassesPolicy(pipeline.judged[f])
  BY DEF TradeInv, Done, PassesGates
<1>2. /\ pipeline.risks[f] = IndividualShare(market, pipeline.judged, pipeline.setups, f)
      /\ pipeline.portfolios[f] = PortfolioShare(market.account, Requested(pipeline.risks), pipeline.risks[f])
      /\ pipeline.shares[f] = SessionShare(market, pipeline.portfolios[f])
  BY <1>1 DEF IsShared, RiskShares, PortfolioShares, SessionShares, Requested, GrantedOf
<1>3. pipeline.risks[f].reason \in {"NONE", "POLICY_NOT_ELIGIBLE"}
  BY DEF StageFromRisk
<1>4. IsGranted(pipeline.risks[f])
  BY <1>1, <1>2, <1>3 DEF IndividualShare, Denied, Granted, IsGranted
<1>5. pipeline.portfolios[f].reason \in {"NONE", "RISK_NOT_ELIGIBLE"}
  BY DEF StageFromRisk
<1>6. IsGranted(pipeline.portfolios[f])
  BY <1>2, <1>4, <1>5 DEF PortfolioShare, Denied, Granted, IsGranted
<1>7. pipeline.shares[f].reason \in {"NONE", "PORTFOLIO_NOT_ELIGIBLE"}
  BY DEF StageFromRisk
<1>8. IsGranted(pipeline.shares[f])
  <2>1. SessionStatus(market) # "PORTFOLIO_NOT_ELIGIBLE"
    BY DEF SessionStatus
  <2> QED
    BY <1>2, <1>6, <1>7, <2>1 DEF SessionShare, Denied, IsGranted
<1> QED
  BY <1>3, <1>5, <1>7, <1>8 DEF StageFromRisk, IsGranted

\* Which families the stages name: those that are not stopped are recommended,
\* and one that is stopped late has a setup.
LEMMA StagesTellAdvice ==
    ASSUME TradeInv, Done, NEW c, Assembled(c), market.account # NoAccount, NEW f \in StrategyFamilies
    PROVE  LET stage == NoTradeStages(c)[f]
           IN  /\ stage = "NONE" <=> f \in DOMAIN Advice(c)
               /\ stage \in {"NONE", "RISK", "PORTFOLIO", "SESSION", "FINAL"} => PassesGates(f)
               /\ stage # "ISSUANCE"
<1> DEFINE stage == NoTradeStages(c)[f]
<1>1. stage = IF StageBeforeRisk(f) # "NONE" THEN StageBeforeRisk(f) ELSE StageFromRisk(c, f)
  BY OrderAssumption DEF NoTradeStages
<1>2. StageBeforeRisk(f) \in {"EVALUATION", "POLICY", "JUDGE", "SETUP", "EVENT", "NONE"}
  BY DEF StageBeforeRisk
<1>3. StageFromRisk(c, f) \in {"RISK", "PORTFOLIO", "SESSION", "FINAL", "NONE"}
  BY DEF StageFromRisk
<1>4. stage \in {"NONE", "RISK", "PORTFOLIO", "SESSION", "FINAL"} => PassesGates(f)
  BY <1>1, <1>2, NotStoppedBeforeRisk
<1>5. ASSUME stage = "NONE"
      PROVE  f \in DOMAIN Advice(c)
  <2>1. StageBeforeRisk(f) = "NONE" /\ StageFromRisk(c, f) = "NONE"
    BY <1>1, <1>5
  <2>2. PassesGates(f)
    BY <2>1, NotStoppedBeforeRisk
  <2>3. Constructed(c)
    BY <2>2, SetupHasSymbol DEF Constructed, SymbolFactsAvailable
  <2> QED
    BY <2>1, <2>2, <2>3, NotStoppedFromRisk DEF Advice
<1>6. ASSUME f \in DOMAIN Advice(c)
      PROVE  stage = "NONE"
  <2>1. f \in DOMAIN pipeline.advice
    BY <1>6 DEF Advice
  <2>2. PassesGates(f) /\ IsGranted(pipeline.risks[f]) /\ IsGranted(pipeline.portfolios[f]) /\ IsGranted(pipeline.shares[f])
    BY <2>1, AdvisedTrade
  <2>3. StageBeforeRisk(f) = "NONE"
    BY <2>2 DEF StageBeforeRisk, PassesGates
  <2>4. StageFromRisk(c, f) = "NONE"
    BY <2>1, <2>2 DEF StageFromRisk, IsGranted
  <2> QED
    BY <1>1, <2>3, <2>4
<1> QED
  BY <1>1, <1>2, <1>3, <1>4, <1>5, <1>6

\* Without account facts nothing is recommended.
LEMMA NoAdvice ==
    ASSUME TradeInv, NEW c, Assembled(c) => Done, ~Assembled(c) \/ market.account = NoAccount
    PROVE  DOMAIN Advice(c) = {}
BY DEF Advice, Constructed, TradeInv, Done

\* What the runtime cycle has left, for its explanation and its answer.
FromCycle(r) ==
    /\ pipeline.stage = IF Assembled(cycle) THEN "DONE" ELSE "EVIDENCE"
    /\ r.advice = Advice(cycle)
    /\ DOMAIN r.issued = Attempted(cycle, r.guard, r.advice)
    /\ \A f \in DOMAIN r.issued : \E tracked, provenance \in BOOLEAN : r.issued[f] = IssuanceOutcome(cycle, tracked, provenance)

\* The explanation is of this cycle.
OfCycle(r, e) == e.cited \subseteq Facts(cycle, r) /\ e.narrated = RecommendationCards(r)

\* The results an answer is made of.
Results(r) ==
    [advice |-> r.advice, issued |-> r.issued, guard |-> r.guard, outcome |-> RuntimeOutcome(cycle, r.guard, r.issued)]

\* A report, stage by stage.
IsReport(r) ==
    /\ r.stage \in {"FOUND", "EXPLAINING", "EXPLAINED", "ANSWERED"}
    /\ r.stage \in {"EXPLAINING", "EXPLAINED", "ANSWERED"} => FromCycle(r)
    /\ r.stage \in {"EXPLAINING", "EXPLAINED"} => r.outcome = RuntimeOutcome(cycle, r.guard, r.issued)
    /\ r.stage \in {"EXPLAINED", "ANSWERED"} => OfCycle(r, r.explanation)
    /\ r.stage = "ANSWERED" =>
         /\ r.reasons = Reasons(Results(r), NoTradeStages(cycle))
         /\ r.recommended = {f \in DOMAIN r.advice \ DOMAIN r.reasons : IsIssuable(r, f)}
         /\ r.status = Status(Results(r), r.recommended)

ReportInv == TradeInv /\ IsReport(report)

\* Nothing of a cycle is taken for impossible when it is answered.
LEMMA EveryCycleIsMappable ==
    ASSUME TradeInv, NEW r, FromCycle(r)
    PROVE  IsMappable(cycle, r, NoTradeStages(cycle))
<1> SUFFICES ASSUME Constructed(cycle), market.account # NoAccount,
                    NEW f \in DOMAIN NoTradeStages(cycle), NoTradeStages(cycle)[f] = "NONE"
             PROVE  f \in DOMAIN r.advice /\ (IsIssuable(r, f) \/ HasIssuanceReason(r, f))
  BY DEF IsMappable
<1>1. f \in StrategyFamilies
  BY OrderAssumption DEF NoTradeStages
<1>2. Assembled(cycle) /\ Done
  BY DEF Constructed, FromCycle, Done
<1>3. f \in DOMAIN r.advice
  BY <1>1, <1>2, StagesTellAdvice DEF FromCycle
<1> QED
  BY <1>3 DEF FromCycle, Attempted, HasIssuanceReason

\* The facts, the cards and the reasons of a report depend on its advice, its
\* guard, its writes and its outcome.
LEMMA SameFacts ==
    ASSUME NEW r, NEW q, r.advice = q.advice, r.guard = q.guard, r.issued = q.issued
    PROVE  /\ Facts(cycle, r) = Facts(cycle, q) /\ RecommendationCards(r) = RecommendationCards(q)
           /\ FromCycle(r) <=> FromCycle(q)
           /\ Results(r) = Results(q)
           /\ \A f : IsIssuable(r, f) <=> IsIssuable(q, f)
<1>1. RecommendationCards(r) = RecommendationCards(q) /\ TrackingCards(cycle, r) = TrackingCards(cycle, q)
  BY DEF RecommendationCards, TrackingCards
<1>2. CycleFacts(cycle, r) = CycleFacts(cycle, q) /\ RecommendationFacts(r) = RecommendationFacts(q)
        /\ TrackingFacts(cycle, r) = TrackingFacts(cycle, q) /\ Warnings(cycle, r) = Warnings(cycle, q)
  BY <1>1, ZenonT(60) DEF CycleFacts, RecommendationFacts, TrackingFacts, Warnings
<1> QED
  BY <1>1, <1>2 DEF Facts, FromCycle, Results, IsIssuable

\* What a report says is of the cycle, the market and the pipeline.
LEMMA ReportStays ==
    ASSUME UNCHANGED <<cycle, market, pipeline>>, NEW CONSTANT r
    PROVE  IsReport(r)' <=> IsReport(r)
<1>1. \A c : Constructed(c)' <=> Constructed(c)
  BY DEF Constructed, SymbolFactsAvailable
<1>2. \A c : Advice(c)' = Advice(c)
  BY <1>1 DEF Advice
<1>3. \A c, g, i : RuntimeOutcome(c, g, i)' = RuntimeOutcome(c, g, i)
  BY DEF RuntimeOutcome, SymbolFactsAvailable
<1>4. FromCycle(r)' <=> FromCycle(r)
  BY <1>2 DEF FromCycle
<1>5. Facts(cycle, r)' = Facts(cycle, r)
  <2>1. CycleFacts(cycle, r)' = CycleFacts(cycle, r)
    BY <1>1 DEF CycleFacts
  <2>2. Warnings(cycle, r)' = Warnings(cycle, r)
    <3>1. SymbolFactsAvailable' <=> SymbolFactsAvailable
      BY DEF SymbolFactsAvailable
    <3> QED
      BY <3>1 DEF Warnings
  <2>3. RecommendationFacts(r)' = RecommendationFacts(r) /\ TrackingFacts(cycle, r)' = TrackingFacts(cycle, r)
    OBVIOUS
  <2> QED
    BY <2>1, <2>2, <2>3 DEF Facts
<1>6. \A e : OfCycle(r, e)' <=> OfCycle(r, e)
  BY <1>5 DEF OfCycle, RecommendationCards
<1>7. Results(r)' = Results(r)
  BY <1>3 DEF Results
<1>8. NoTradeStages(cycle)' = NoTradeStages(cycle)
  BY <1>1 DEF NoTradeStages, StageBeforeRisk, StageFromRisk
<1> QED
  BY <1>3, <1>4, <1>6, <1>7, <1>8 DEF IsReport

\* The runtime cycle leaves a report.
LEMMA CycleLeavesReport == ReportInv /\ RunRuntimeCycle => IsReport(report')
<1> SUFFICES ASSUME ReportInv, RunRuntimeCycle
             PROVE  IsReport(report')
  OBVIOUS
<1> DEFINE advice == Advice(cycle)
           guard == Guard(cycle, Cardinality(DOMAIN advice))
           attempted == Attempted(cycle, guard, advice)
<1>1. PICK tracked \in [attempted -> BOOLEAN], provenance \in [attempted -> BOOLEAN] :
        LET issued == [f \in attempted |-> IssuanceOutcome(cycle, tracked[f], provenance[f])]
        IN  report' = [stage |-> "EXPLAINING", calls |-> 0, advice |-> advice, guard |-> guard,
                       issued |-> issued, outcome |-> RuntimeOutcome(cycle, guard, issued)]
  BY DEF RunRuntimeCycle
<1>2. pipeline.stage = IF Assembled(cycle) THEN "DONE" ELSE "EVIDENCE"
  BY DEF RunRuntimeCycle
<1> HIDE DEF advice, guard, attempted
<1>3. FromCycle(report')
  BY <1>1, <1>2 DEF FromCycle, advice, guard, attempted
<1> QED
  BY <1>1, <1>3 DEF IsReport

\* An explanation of this cycle is never refused by the result's validators.
LEMMA ExplainedReport ==
    ASSUME ReportInv, report.stage = "EXPLAINING", NEW e, OfCycle(report, e), e.tracked = TrackingCards(cycle, report),
           Explained(e)
    PROVE  IsReport(report')
<1>1. ExplanationIsValid(cycle, report, e)
  BY CardsAreOnce DEF ExplanationIsValid, OfCycle
<1>2. report' = [stage |-> "EXPLAINED", advice |-> report.advice, guard |-> report.guard, issued |-> report.issued,
                 outcome |-> report.outcome, explanation |-> e]
  BY <1>1 DEF Explained
<1>3. /\ Facts(cycle, report') = Facts(cycle, report) /\ RecommendationCards(report') = RecommendationCards(report)
      /\ FromCycle(report') <=> FromCycle(report)
  BY <1>2, SameFacts
<1> QED
  BY <1>2, <1>3 DEF IsReport, ReportInv, OfCycle

LEMMA FallbackReport ==
    ASSUME ReportInv, report.stage = "EXPLAINING", NEW provider, Explained(Fallback(cycle, report, provider))
    PROVE  IsReport(report')
<1> DEFINE e == Fallback(cycle, report, provider)
<1>1. OfCycle(report, e) /\ e.tracked = TrackingCards(cycle, report)
  BY DEF Fallback, OfCycle
<1> HIDE DEF e
<1>2. Explained(e)
  BY DEF e
<1> QED
  BY <1>1, <1>2, ExplainedReport

LEMMA AskedAgainReport ==
    ASSUME ReportInv, report.stage = "EXPLAINING", AskAgain
    PROVE  IsReport(report')
<1>1. CASE report.calls = 0
  <2>1. report' = [report EXCEPT !.calls = 1]
    BY <1>1 DEF AskAgain
  <2>2. /\ report'.stage = report.stage /\ report'.advice = report.advice /\ report'.guard = report.guard
        /\ report'.issued = report.issued /\ report'.outcome = report.outcome
    BY <2>1
  <2>3. FromCycle(report') <=> FromCycle(report)
    BY <2>2, SameFacts
  <2> QED
    BY <2>2, <2>3 DEF ReportInv, IsReport
<1>2. CASE report.calls # 0
  BY <1>2, FallbackReport DEF AskAgain
<1> QED
  BY <1>1, <1>2

\* A narrative that is told is the one the provider was asked for.
LEMMA AnsweredByProvider == ReportInv /\ ProviderAnswers => IsReport(report')
<1> SUFFICES ASSUME ReportInv, ProviderAnswers
             PROVE  IsReport(report')
  OBVIOUS
<1>1. PICK n \in Narratives(cycle, report) :
        IF IsValidNarrative(cycle, report, n) THEN Explained(Combined(cycle, report, n)) ELSE AskAgain
  BY DEF ProviderAnswers
<1>2. report.stage = "EXPLAINING"
  BY DEF ProviderAnswers
<1>3. CASE IsValidNarrative(cycle, report, n)
  <2> DEFINE e == Combined(cycle, report, n)
  <2>1. OfCycle(report, e) /\ e.tracked = TrackingCards(cycle, report)
    BY <1>3 DEF Combined, OfCycle, IsValidNarrative
  <2> HIDE DEF e
  <2>2. Explained(e)
    BY <1>1, <1>3 DEF e
  <2> QED
    BY <1>2, <2>1, <2>2, ExplainedReport
<1>4. CASE ~IsValidNarrative(cycle, report, n)
  BY <1>1, <1>2, <1>4, AskedAgainReport
<1> QED
  BY <1>3, <1>4

LEMMA AnsweredReport == ReportInv /\ AnswerRequest => IsReport(report')
<1> SUFFICES ASSUME ReportInv, AnswerRequest
             PROVE  IsReport(report')
  OBVIOUS
<1> DEFINE stages == NoTradeStages(cycle)
           reasons == Reasons(report, stages)
           recommended == {f \in DOMAIN report.advice \ DOMAIN reasons : IsIssuable(report, f)}
<1>1. report.stage = "EXPLAINED" /\ FromCycle(report) /\ OfCycle(report, report.explanation)
  BY DEF AnswerRequest, ReportInv, IsReport
<1>2. IsMappable(cycle, report, stages)
  BY <1>1, EveryCycleIsMappable DEF ReportInv
<1>3. report' = [stage |-> "ANSWERED", advice |-> report.advice, guard |-> report.guard,
                 issued |-> report.issued, explanation |-> report.explanation, status |-> Status(report, recommended),
                 recommended |-> recommended, reasons |-> reasons]
  BY <1>2 DEF AnswerRequest
<1>4. /\ Facts(cycle, report') = Facts(cycle, report) /\ RecommendationCards(report') = RecommendationCards(report)
      /\ FromCycle(report') /\ Results(report') = Results(report)
      /\ \A f : IsIssuable(report', f) <=> IsIssuable(report, f)
  BY <1>1, <1>3, SameFacts
<1>5. report.outcome = Results(report).outcome
  BY <1>1 DEF ReportInv, IsReport, Results
<1>6. reasons = Reasons(Results(report), stages)
  BY <1>5 DEF Reasons, Results, IsIssuable
<1>7. Status(report, recommended) = Status(Results(report), recommended)
  BY <1>5 DEF Status
<1> HIDE DEF reasons, stages
<1> QED
  BY <1>1, <1>3, <1>4, <1>6, <1>7 DEF IsReport, OfCycle, stages

LEMMA ReportStep == ReportInv /\ [ReportNext]_reportVars => ReportInv'
<1> SUFFICES ASSUME ReportInv, [ReportNext]_reportVars
             PROVE  ReportInv'
  OBVIOUS
<1>1. TradeInv'
  BY TradeStep, ReportStepsTrade DEF ReportInv
<1>2. CASE EvaluatePipeline
  <2>1. report'.stage = "FOUND"
    BY <1>2 DEF EvaluatePipeline
  <2> QED
    BY <1>1, <2>1 DEF ReportInv, IsReport
<1>3. ASSUME UNCHANGED <<cycle, market, pipeline>>, IsReport(report')
      PROVE  ReportInv'
  <2>1. PICK x : x = report'
    OBVIOUS
  <2>2. IsReport(x)'
    BY <1>3, <2>1, ReportStays
  <2> QED
    BY <1>1, <2>1, <2>2 DEF ReportInv, IsReport
<1>4. CASE RunRuntimeCycle
  BY <1>3, <1>4, CycleLeavesReport DEF RunRuntimeCycle
<1>5. CASE ExplainWithoutProvider \/ ProviderFails
  BY <1>3, <1>5, FallbackReport DEF ExplainWithoutProvider, ProviderFails
<1>6. CASE ProviderErrs
  BY <1>3, <1>6, AskedAgainReport DEF ProviderErrs
<1>7. CASE ProviderAnswers
  BY <1>3, <1>7, AnsweredByProvider DEF ProviderAnswers
<1>8. CASE AnswerRequest
  BY <1>3, <1>8, AnsweredReport DEF AnswerRequest
<1>9. CASE UNCHANGED reportVars
  BY <1>3, <1>9 DEF reportVars, ReportInv
<1> QED
  BY <1>2, <1>4, <1>5, <1>6, <1>7, <1>8, <1>9 DEF ReportNext

LEMMA ReportStarts == ReportInit => ReportInv
BY CyclesAssumption DEF ReportInit, ReportInv, TradeInv, IsReport

\* The tail of the cycle, the explanation and the answer keep to the pipeline.
LEMMA Report == ReportSpec => []ReportInv
BY ReportStarts, ReportStep, PTL DEF ReportSpec

\* The reasons of an answer: a family that is stopped, or whose trade was
\* withheld after every gate.
LEMMA AnswerReasons ==
    ASSUME ReportInv, report.stage = "ANSWERED", cycle.connected
    PROVE  LET stages == NoTradeStages(cycle)
               stopped == {f \in StrategyFamilies : stages[f] # "NONE"}
               withheld == {f \in DOMAIN report.advice \ stopped : ~IsIssuable(report, f)}
           IN  report.reasons = [f \in stopped \cup withheld |-> IF f \in stopped THEN stages[f] ELSE "ISSUANCE"]
<1> DEFINE stages == NoTradeStages(cycle)
           r == Results(report)
<1>1. report.reasons = Reasons(r, stages)
  BY DEF ReportInv, IsReport
<1>2. r.outcome # "BLOCKED" /\ r.advice = report.advice /\ r.issued = report.issued
  BY DEF Results, RuntimeOutcome
<1>3. DOMAIN stages = StrategyFamilies
  BY OrderAssumption DEF NoTradeStages
<1>4. \A f : IsIssuable(r, f) <=> IsIssuable(report, f)
  BY <1>2 DEF IsIssuable
<1> HIDE DEF stages, r
<1>5. {f \in DOMAIN stages : stages[f] # "NONE"} = {f \in StrategyFamilies : stages[f] # "NONE"}
  BY <1>3
<1>6. {f \in DOMAIN r.advice \ {g \in DOMAIN stages : stages[g] # "NONE"} : ~IsIssuable(r, f)}
        = {f \in DOMAIN report.advice \ {g \in StrategyFamilies : stages[g] # "NONE"} : ~IsIssuable(report, f)}
  BY <1>2, <1>4, <1>5
<1> QED
  BY <1>1, <1>2, <1>5, <1>6 DEF Reasons, stages

\* A trade that is advised comes from a pipeline that was run, and no stage
\* stopped it.
LEMMA AdvisedInReport ==
    ASSUME ReportInv, report.stage = "ANSWERED", NEW f \in DOMAIN report.advice
    PROVE  /\ Assembled(cycle) /\ market.account # NoAccount /\ Done /\ f \in StrategyFamilies
           /\ PassesGates(f) /\ NoTradeStages(cycle)[f] = "NONE"
<1>1. FromCycle(report) /\ TradeInv
  BY DEF ReportInv, IsReport
<1>2. report.advice = Advice(cycle) /\ (Assembled(cycle) => Done)
  BY <1>1 DEF FromCycle, Done
<1>3. Assembled(cycle) /\ market.account # NoAccount
  BY <1>1, <1>2, NoAdvice
<1>4. f \in DOMAIN pipeline.advice
  BY <1>2 DEF Advice
<1>5. f \in StrategyFamilies /\ PassesGates(f)
  BY <1>1, <1>2, <1>3, <1>4, AdvisedTrade
<1> QED
  BY <1>1, <1>2, <1>3, <1>5, StagesTellAdvice

(***************************************************************************)
(* In every cycle whose account is known each family is answered once,     *)
(* recommended or with one reason, for any families, any number of tracked *)
(* trades and any cycle the pipeline may find: map_recommendations never   *)
(* meets a result it takes for impossible, and a reason of a later gate is *)
(* given only to a family that has passed the earlier ones                 *)
(* (advisory_service.py:91-311).                                           *)
(***************************************************************************)
THEOREM EveryFamilyAnswered == ReportSpec => []EveryFamilyIsAnswered
<1>1. ReportInv => EveryFamilyIsAnswered
  <2> SUFFICES ASSUME ReportInv, report.stage = "ANSWERED", Assembled(cycle), market.account # NoAccount
               PROVE  EveryFamilyIsAnswered
    BY DEF EveryFamilyIsAnswered
  <2> DEFINE stages == NoTradeStages(cycle)
             stopped == {f \in StrategyFamilies : stages[f] # "NONE"}
             withheld == {f \in DOMAIN report.advice \ stopped : ~IsIssuable(report, f)}
             reasons == [f \in stopped \cup withheld |-> IF f \in stopped THEN stages[f] ELSE "ISSUANCE"]
  <2>1. report.reasons = reasons
    BY AnswerReasons DEF Assembled
  <2>2. report.recommended = {f \in DOMAIN report.advice \ DOMAIN reasons : IsIssuable(report, f)}
    BY <2>1 DEF ReportInv, IsReport
  <2>3. \A f \in DOMAIN report.advice : f \in StrategyFamilies /\ stages[f] = "NONE" /\ PassesGates(f)
    BY AdvisedInReport
  <2>4. \A f \in StrategyFamilies :
          /\ stages[f] = "NONE" => f \in DOMAIN report.advice
          /\ stages[f] \in {"RISK", "PORTFOLIO", "SESSION", "FINAL"} => PassesGates(f)
          /\ stages[f] # "ISSUANCE"
    <3>1. TradeInv /\ Done /\ report.advice = Advice(cycle)
      BY DEF ReportInv, IsReport, FromCycle, Done
    <3> QED
      BY <3>1, StagesTellAdvice
  <2> HIDE DEF stages
  <2>6. report.recommended \cup DOMAIN report.reasons = StrategyFamilies
    BY <2>1, <2>2, <2>3, <2>4
  <2>7. report.recommended \cap DOMAIN report.reasons = {}
    BY <2>1, <2>2
  <2>8. \A f \in DOMAIN report.reasons :
          report.reasons[f] \in {"RISK", "PORTFOLIO", "SESSION", "FINAL", "ISSUANCE"} => PassesGates(f)
    BY <2>1, <2>3, <2>4
  <2> QED
    BY <2>6, <2>7, <2>8, OrderAssumption DEF EveryFamilyIsAnswered, PassesGates
<1> QED
  BY <1>1, Report, PTL

(***************************************************************************)
(* No cycle is lost in its explanation or its answer, for any families,    *)
(* any tracked trades and whatever the provider says: the trades that are  *)
(* recommended are exactly those whose record was written, and what is     *)
(* explained and cited is of this cycle (explanation.py:619-728,           *)
(* advisory_service.py:91-311).                                            *)
(***************************************************************************)
THEOREM IssuedAnswered == ReportSpec => []IssuedCyclesAreAnswered
<1>1. ReportInv => IssuedCyclesAreAnswered
  <2> SUFFICES ASSUME ReportInv, report.stage = "ANSWERED"
               PROVE  report.recommended = {f \in DOMAIN report.issued : report.issued[f].tracked}
    BY DEF ReportInv, IsReport, OfCycle, IssuedCyclesAreAnswered
  <2>1. FromCycle(report) /\ TradeInv
    BY DEF ReportInv, IsReport
  <2>2. DOMAIN report.issued \subseteq DOMAIN report.advice
    BY <2>1 DEF FromCycle, Attempted
  <2>3. \A f \in DOMAIN report.issued : report.issued[f].tracked => IsIssuable(report, f)
    <3> SUFFICES ASSUME NEW f \in DOMAIN report.issued, report.issued[f].tracked
                 PROVE  IsIssuable(report, f)
      OBVIOUS
    <3>1. PICK tracked, provenance \in BOOLEAN : report.issued[f] = IssuanceOutcome(cycle, tracked, provenance)
      BY <2>1 DEF FromCycle
    <3>2. report.issued[f].creation = "CREATED"
      <4>1. report.issued[f].creation = CreationOutcome(cycle)
        BY <3>1 DEF IssuanceOutcome
      <4>2. report.issued[f].tracked = (CreationOutcome(cycle) = "CREATED" /\ tracked)
        <5> DEFINE outcome(a, b, c) == [creation |-> a, tracked |-> b, provenance |-> c]
        <5>1. \A a, b, c : outcome(a, b, c).tracked = b
          OBVIOUS
        <5>2. report.issued[f] = outcome(CreationOutcome(cycle), CreationOutcome(cycle) = "CREATED" /\ tracked,
                                         CreationOutcome(cycle) = "CREATED" /\ provenance)
          BY <3>1, Zenon DEF IssuanceOutcome
        <5> HIDE DEF outcome
        <5> QED
          BY <5>1, <5>2, Zenon
      <4> QED
        BY <4>1, <4>2, Zenon
    <3> QED
      BY <3>2 DEF IsIssuable
  <2>4. report.recommended = {f \in DOMAIN report.advice \ DOMAIN report.reasons : IsIssuable(report, f)}
    BY DEF ReportInv, IsReport
  <2>5. \A f \in DOMAIN report.advice : IsIssuable(report, f) => f \notin DOMAIN report.reasons
    <3> SUFFICES ASSUME NEW f \in DOMAIN report.advice, IsIssuable(report, f)
                 PROVE  f \notin DOMAIN report.reasons
      OBVIOUS
    <3> DEFINE stages == NoTradeStages(cycle)
               stopped == {g \in StrategyFamilies : stages[g] # "NONE"}
               withheld == {g \in DOMAIN report.advice \ stopped : ~IsIssuable(report, g)}
    <3>1. Assembled(cycle) /\ stages[f] = "NONE"
      BY AdvisedInReport
    <3>2. DOMAIN report.reasons = stopped \cup withheld
      BY <3>1, AnswerReasons DEF Assembled
    <3> HIDE DEF stages
    <3> QED
      BY <3>1, <3>2
  <2> QED
    BY <2>2, <2>3, <2>4, <2>5 DEF IsIssuable
<1> QED
  BY <1>1, Report, PTL

-----------------------------------------------------------------------------
(* The directions.                                                          *)

\* The analyst that speaks of a dimension.
HomeOf(d) ==
    CASE d \in {"RETURN_DIRECTION", "SLOPE_DIRECTION", "STRUCTURAL_SEQUENCE_BALANCE",
                "TREND_PRIMITIVE_AGREEMENT", "DIRECTIONAL_PERSISTENCE"} -> "TREND"
      [] d \in {"STRUCTURAL_BREAK_PRESENCE", "LATEST_BREAK_DIRECTION", "BREAK_SEQUENCE_PATTERN"} ->
           "MARKET_STRUCTURE"
      [] d = "RANGE_EXPANSION_REFERENCE" -> "VOLATILITY"
      [] d \in {"ROC_SIGN", "RSI_MIDPOINT_RELATION", "MOMENTUM_PRIMITIVE_AGREEMENT"} -> "MOMENTUM"
      [] d \in MovingAverageDimensions -> "MOVING_AVERAGE"
      [] d \in {"RANGE_SIZE_STATE", "BODY_WICK_DOMINANCE", "WICK_SIDE_COMPARISON", "CLOSE_LOCATION_RELATION"} ->
           "CANDLE_STRUCTURE"
      [] d \in {"NORMALIZED_RANGE_REFERENCE", "DIRECTIONAL_EFFICIENCY_BOUNDARY"} -> "RANGE_STATE"
      [] OTHER -> "NONE"

\* The observations O of analyst a: of its dimensions, once for each subject,
\* and about nothing in particular unless they are of moving averages.
SpeaksOnce(a, O) ==
    \A o \in O : /\ HomeOf(o.dimension) = a
                 /\ o.dimension \in MovingAverageDimensions \/ o.subject = <<>>
                 /\ \A p \in O : o.dimension = p.dimension /\ o.subject = p.subject => o = p

LEMMA OfTheResult ==
    ASSUME NEW f, NEW O
    PROVE  TechnicalResult(f, O).observations \subseteq O
BY DEF TechnicalResult, Analyzed, Abstained

LEMMA FewerSpeakOnce == ASSUME NEW a, NEW O, SpeaksOnce(a, O), NEW P \in SUBSET O PROVE SpeaksOnce(a, P)
BY DEF SpeaksOnce

\* The observations that all have the quality q, told by their values.
Spoken(q, values) == {[dimension |-> d, subject |-> <<>>, value |-> values[d], quality |-> q] : d \in DOMAIN values}

LEMMA SpokenOnce ==
    ASSUME NEW a, NEW q, NEW values, \A d \in DOMAIN values : HomeOf(d) = a
    PROVE  SpeaksOnce(a, Spoken(q, values))
BY DEF SpeaksOnce, Spoken

LEMMA TrendSpeaks ==
    ASSUME NEW f
    PROVE  /\ SpeaksOnce("TREND", TrendAnalyst(f).observations)
           /\ \A o \in TrendAnalyst(f).observations :
                 /\ o.dimension = "RETURN_DIRECTION" => o.value = f.return /\ o.value # "NONE"
                 /\ o.dimension = "SLOPE_DIRECTION" => o.value = f.slope /\ o.value # "NONE"
<1> DEFINE agreement == PrimitiveAgreement(f.return, f.slope)
           balance == SignOf(f.upCount, f.downCount)
           O == Observe("RETURN_DIRECTION", <<>>, f.return, f.quality)
                \cup Observe("SLOPE_DIRECTION", <<>>, f.slope, f.quality)
                \cup Observe("STRUCTURAL_SEQUENCE_BALANCE", <<>>, balance, f.quality)
                \cup (IF f.return = "NONE" /\ f.slope = "NONE" THEN {}
                      ELSE Observe("TREND_PRIMITIVE_AGREEMENT", <<>>, agreement, f.quality))
                \cup Observe("DIRECTIONAL_PERSISTENCE", <<>>, f.persistence, f.quality)
           values == [d \in {"RETURN_DIRECTION", "SLOPE_DIRECTION", "STRUCTURAL_SEQUENCE_BALANCE",
                             "TREND_PRIMITIVE_AGREEMENT", "DIRECTIONAL_PERSISTENCE"} |->
                        CASE d = "RETURN_DIRECTION" -> f.return [] d = "SLOPE_DIRECTION" -> f.slope
                          [] d = "STRUCTURAL_SEQUENCE_BALANCE" -> balance
                          [] d = "TREND_PRIMITIVE_AGREEMENT" -> agreement
                          [] d = "DIRECTIONAL_PERSISTENCE" -> f.persistence]
<1>1. TrendAnalyst(f).observations \subseteq O
  BY OfTheResult DEF TrendAnalyst
<1> HIDE DEF agreement, balance
<1>2. O \subseteq Spoken(f.quality, values) /\ \A o \in O : o.value # "NONE"
  BY DEF Observe, Spoken
<1>3. \A d \in DOMAIN values : HomeOf(d) = "TREND"
  BY DEF HomeOf, MovingAverageDimensions
<1>4. \A o \in O : /\ o.dimension = "RETURN_DIRECTION" => o.value = f.return
                   /\ o.dimension = "SLOPE_DIRECTION" => o.value = f.slope
  BY DEF Observe
<1> HIDE DEF O, values
<1>5. SpeaksOnce("TREND", Spoken(f.quality, values))
  BY <1>3, SpokenOnce
<1>6. TrendAnalyst(f).observations \in SUBSET Spoken(f.quality, values)
  BY <1>1, <1>2
<1> QED
  BY <1>1, <1>2, <1>4, <1>5, <1>6, FewerSpeakOnce

LEMMA StructureSpeaks ==
    ASSUME NEW f
    PROVE  SpeaksOnce("MARKET_STRUCTURE", MarketStructureAnalyst(f).observations)
<1> DEFINE n == Len(f.breaks)
           latest == IF n = 0 THEN "NONE" ELSE f.breaks[n].direction
           pattern == IF n < 2 THEN "INSUFFICIENT_DATA"
                      ELSE IF f.breaks[n - 1].direction = latest THEN "REPEATED_DIRECTION" ELSE "ALTERNATING"
           presence == IF n = 0 THEN "NO_BREAK_CONFIRMED" ELSE "BREAK_CONFIRMED"
           O == Observe("STRUCTURAL_BREAK_PRESENCE", <<>>, presence, f.quality)
                \cup Observe("LATEST_BREAK_DIRECTION", <<>>, latest, f.quality)
                \cup Observe("BREAK_SEQUENCE_PATTERN", <<>>, pattern, f.quality)
           values == [d \in {"STRUCTURAL_BREAK_PRESENCE", "LATEST_BREAK_DIRECTION", "BREAK_SEQUENCE_PATTERN"} |->
                        CASE d = "STRUCTURAL_BREAK_PRESENCE" -> presence [] d = "LATEST_BREAK_DIRECTION" -> latest
                          [] d = "BREAK_SEQUENCE_PATTERN" -> pattern]
<1>1. MarketStructureAnalyst(f).observations \subseteq O
  BY OfTheResult, Zenon DEF MarketStructureAnalyst
<1> HIDE DEF latest, pattern, presence
<1>2. O \subseteq Spoken(f.quality, values)
  BY DEF Observe, Spoken
<1>3. \A d \in DOMAIN values : HomeOf(d) = "MARKET_STRUCTURE"
  BY DEF HomeOf, MovingAverageDimensions
<1> HIDE DEF O, values
<1> QED
  BY <1>1, <1>2, <1>3, SpokenOnce, FewerSpeakOnce

LEMMA VolatilitySpeaks ==
    ASSUME NEW f
    PROVE  SpeaksOnce("VOLATILITY", VolatilityAnalyst(f).observations)
<1> DEFINE O == Observe("RANGE_EXPANSION_REFERENCE", <<>>, f.expansion, f.quality)
           values == [d \in {"RANGE_EXPANSION_REFERENCE"} |-> f.expansion]
<1>1. VolatilityAnalyst(f).observations \subseteq O
  BY OfTheResult DEF VolatilityAnalyst
<1>2. O \subseteq Spoken(f.quality, values)
  BY DEF Observe, Spoken
<1>3. \A d \in DOMAIN values : HomeOf(d) = "VOLATILITY"
  BY DEF HomeOf, MovingAverageDimensions
<1> HIDE DEF O, values
<1> QED
  BY <1>1, <1>2, <1>3, SpokenOnce, FewerSpeakOnce

LEMMA MomentumSpeaks ==
    ASSUME NEW f
    PROVE  SpeaksOnce("MOMENTUM", MomentumAnalyst(f).observations)
<1> DEFINE agreement == PrimitiveAgreement(f.roc, f.rsi)
           O == Observe("ROC_SIGN", <<>>, f.roc, f.quality)
                \cup Observe("RSI_MIDPOINT_RELATION", <<>>, f.rsi, f.quality)
                \cup (IF f.roc = "NONE" /\ f.rsi = "NONE" THEN {}
                      ELSE Observe("MOMENTUM_PRIMITIVE_AGREEMENT", <<>>, agreement, f.quality))
           values == [d \in {"ROC_SIGN", "RSI_MIDPOINT_RELATION", "MOMENTUM_PRIMITIVE_AGREEMENT"} |->
                        CASE d = "ROC_SIGN" -> f.roc [] d = "RSI_MIDPOINT_RELATION" -> f.rsi
                          [] d = "MOMENTUM_PRIMITIVE_AGREEMENT" -> agreement]
<1>1. MomentumAnalyst(f).observations \subseteq O
  BY OfTheResult DEF MomentumAnalyst
<1> HIDE DEF agreement
<1>2. O \subseteq Spoken(f.quality, values)
  BY DEF Observe, Spoken
<1>3. \A d \in DOMAIN values : HomeOf(d) = "MOMENTUM"
  BY DEF HomeOf, MovingAverageDimensions
<1> HIDE DEF O, values
<1> QED
  BY <1>1, <1>2, <1>3, SpokenOnce, FewerSpeakOnce

LEMMA AverageSpeaks ==
    ASSUME NEW f
    PROVE  SpeaksOnce("MOVING_AVERAGE", MovingAverageAnalyst(f).observations)
<1> DEFINE fastest == Min(f.periods)
           slowest == Max(f.periods)
           O == (UNION {Observe("PRICE_VS_SMA_POSITION", <<p>>, f.distance[p], f.quality) : p \in f.periods})
                \cup (UNION {Observe("MA_SLOPE_DIRECTION", <<p>>, f.maSlope[p], f.quality) : p \in f.periods})
                \cup (IF Cardinality(f.periods) < 2 THEN {}
                      ELSE Observe("MULTI_PERIOD_MA_ORDERING", <<fastest, slowest>>, f.ordering, f.quality))
<1>1. MovingAverageAnalyst(f).observations \subseteq O
  BY OfTheResult DEF MovingAverageAnalyst
<1>2. ASSUME NEW o \in O
      PROVE  \/ \E p : o = [dimension |-> "PRICE_VS_SMA_POSITION", subject |-> <<p>>, value |-> f.distance[p],
                            quality |-> f.quality]
             \/ \E p : o = [dimension |-> "MA_SLOPE_DIRECTION", subject |-> <<p>>, value |-> f.maSlope[p],
                            quality |-> f.quality]
             \/ o = [dimension |-> "MULTI_PERIOD_MA_ORDERING", subject |-> <<fastest, slowest>>,
                     value |-> f.ordering, quality |-> f.quality]
  <2>1. CASE \E p \in f.periods : o \in Observe("PRICE_VS_SMA_POSITION", <<p>>, f.distance[p], f.quality)
    BY <2>1 DEF Observe
  <2>2. CASE \E p \in f.periods : o \in Observe("MA_SLOPE_DIRECTION", <<p>>, f.maSlope[p], f.quality)
    BY <2>2 DEF Observe
  <2>3. CASE o \in Observe("MULTI_PERIOD_MA_ORDERING", <<fastest, slowest>>, f.ordering, f.quality)
    BY <2>3 DEF Observe
  <2>4. \/ o \in UNION {Observe("PRICE_VS_SMA_POSITION", <<p>>, f.distance[p], f.quality) : p \in f.periods}
        \/ o \in UNION {Observe("MA_SLOPE_DIRECTION", <<p>>, f.maSlope[p], f.quality) : p \in f.periods}
        \/ o \in Observe("MULTI_PERIOD_MA_ORDERING", <<fastest, slowest>>, f.ordering, f.quality)
    <3> HIDE DEF fastest, slowest
    <3> QED
      BY <1>2, Zenon
  <2> HIDE DEF fastest, slowest
  <2>5. \/ \E p \in f.periods : o \in Observe("PRICE_VS_SMA_POSITION", <<p>>, f.distance[p], f.quality)
        \/ \E p \in f.periods : o \in Observe("MA_SLOPE_DIRECTION", <<p>>, f.maSlope[p], f.quality)
        \/ o \in Observe("MULTI_PERIOD_MA_ORDERING", <<fastest, slowest>>, f.ordering, f.quality)
    <3> HIDE DEF O
    <3> QED
      BY <2>4, Zenon
  <2> HIDE DEF O
  <2> QED
    BY <2>1, <2>2, <2>3, <2>5
<1> HIDE DEF O, fastest, slowest
<1>3. \A p, q : <<p>> = <<q>> => p = q
  OBVIOUS
<1>4. SpeaksOnce("MOVING_AVERAGE", O)
  <2> SUFFICES ASSUME NEW o \in O, NEW p \in O
               PROVE  /\ o.dimension \in MovingAverageDimensions
                      /\ o.dimension = p.dimension /\ o.subject = p.subject => o = p
    BY DEF SpeaksOnce, HomeOf, MovingAverageDimensions
  <2>1. o.dimension \in MovingAverageDimensions
    BY <1>2 DEF MovingAverageDimensions
  <2>2. ASSUME o.dimension = p.dimension, o.subject = p.subject
        PROVE  o = p
    BY <1>2, <1>3, <2>2
  <2> QED
    BY <2>1, <2>2
<1> QED
  BY <1>1, <1>4, FewerSpeakOnce

LEMMA CandleSpeaks ==
    ASSUME NEW f
    PROVE  SpeaksOnce("CANDLE_STRUCTURE", CandleStructureAnalyst(f).observations)
<1> DEFINE O == Observe("RANGE_SIZE_STATE", <<>>, f.rangeSize, f.quality)
                \cup Observe("BODY_WICK_DOMINANCE", <<>>, f.bodyToWicks, f.quality)
                \cup Observe("WICK_SIDE_COMPARISON", <<>>, f.upperToLower, f.quality)
                \cup Observe("CLOSE_LOCATION_RELATION", <<>>, f.closeLocation, f.quality)
           values == [d \in {"RANGE_SIZE_STATE", "BODY_WICK_DOMINANCE", "WICK_SIDE_COMPARISON",
                             "CLOSE_LOCATION_RELATION"} |->
                        CASE d = "RANGE_SIZE_STATE" -> f.rangeSize [] d = "BODY_WICK_DOMINANCE" -> f.bodyToWicks
                          [] d = "WICK_SIDE_COMPARISON" -> f.upperToLower
                          [] d = "CLOSE_LOCATION_RELATION" -> f.closeLocation]
<1>1. CandleStructureAnalyst(f).observations \subseteq O
  BY OfTheResult DEF CandleStructureAnalyst
<1>2. O \subseteq Spoken(f.quality, values)
  BY DEF Observe, Spoken
<1>3. \A d \in DOMAIN values : HomeOf(d) = "CANDLE_STRUCTURE"
  BY DEF HomeOf, MovingAverageDimensions
<1> HIDE DEF O, values
<1> QED
  BY <1>1, <1>2, <1>3, SpokenOnce, FewerSpeakOnce

LEMMA RangeSpeaks ==
    ASSUME NEW f
    PROVE  SpeaksOnce("RANGE_STATE", RangeStateAnalyst(f).observations)
<1> DEFINE O == Observe("NORMALIZED_RANGE_REFERENCE", <<>>, f.normalized, f.quality)
                \cup Observe("DIRECTIONAL_EFFICIENCY_BOUNDARY", <<>>, f.efficiency, f.quality)
           values == [d \in {"NORMALIZED_RANGE_REFERENCE", "DIRECTIONAL_EFFICIENCY_BOUNDARY"} |->
                        IF d = "NORMALIZED_RANGE_REFERENCE" THEN f.normalized ELSE f.efficiency]
<1>1. RangeStateAnalyst(f).observations \subseteq O
  BY OfTheResult DEF RangeStateAnalyst
<1>2. O \subseteq Spoken(f.quality, values)
  BY DEF Observe, Spoken
<1>3. \A d \in DOMAIN values : HomeOf(d) = "RANGE_STATE"
  BY DEF HomeOf, MovingAverageDimensions
<1> HIDE DEF O, values
<1> QED
  BY <1>1, <1>2, <1>3, SpokenOnce, FewerSpeakOnce

\* Each analyst says finitely many things.
LEMMA UnionIsFinite ==
    ASSUME NEW S, IsFiniteSet(S), NEW f, \A x \in S : IsFiniteSet(f[x])
    PROVE  IsFiniteSet(UNION {f[x] : x \in S})
<1> DEFINE g == [x \in S |-> f[x]]
           T == {f[x] : x \in S}
<1>1. g \in Surjection(S, T)
  BY DEF Surjection
<1>2. IsFiniteSet(T)
  BY <1>1, FS_Surjection
<1> QED
  BY <1>2, FS_UNION

LEMMA ObservedIsFinite ==
    ASSUME NEW d, NEW s, NEW value, NEW q
    PROVE  IsFiniteSet(Observe(d, s, value, q))
BY FS_EmptySet, FS_Singleton DEF Observe

LEMMA ResultIsFinite ==
    ASSUME NEW f, NEW O, IsFiniteSet(O)
    PROVE  IsFiniteSet(TechnicalResult(f, O).observations)
<1>1. TechnicalResult(f, O).observations \in SUBSET O
  BY OfTheResult
<1> QED
  BY <1>1, FS_Subset

LEMMA AverageIsFinite ==
    ASSUME NEW f, IsFiniteSet(f.periods)
    PROVE  IsFiniteSet(MovingAverageAnalyst(f).observations)
<1> DEFINE fastest == Min(f.periods)
           slowest == Max(f.periods)
           distances == [p \in f.periods |-> Observe("PRICE_VS_SMA_POSITION", <<p>>, f.distance[p], f.quality)]
           slopes == [p \in f.periods |-> Observe("MA_SLOPE_DIRECTION", <<p>>, f.maSlope[p], f.quality)]
           A == UNION {Observe("PRICE_VS_SMA_POSITION", <<p>>, f.distance[p], f.quality) : p \in f.periods}
           B == UNION {Observe("MA_SLOPE_DIRECTION", <<p>>, f.maSlope[p], f.quality) : p \in f.periods}
           C == IF Cardinality(f.periods) < 2 THEN {}
                ELSE Observe("MULTI_PERIOD_MA_ORDERING", <<fastest, slowest>>, f.ordering, f.quality)
<1>1. IsFiniteSet(A)
  <2>1. \A p \in f.periods : IsFiniteSet(distances[p])
    BY ObservedIsFinite
  <2>2. IsFiniteSet(UNION {distances[p] : p \in f.periods})
    <3> HIDE DEF distances
    <3> QED
      BY <2>1, UnionIsFinite
  <2> QED
    BY <2>2
<1>2. IsFiniteSet(B)
  <2>1. \A p \in f.periods : IsFiniteSet(slopes[p])
    BY ObservedIsFinite
  <2>2. IsFiniteSet(UNION {slopes[p] : p \in f.periods})
    <3> HIDE DEF slopes
    <3> QED
      BY <2>1, UnionIsFinite
  <2> QED
    BY <2>2
<1>3. IsFiniteSet(C)
  <2> HIDE DEF fastest, slowest
  <2> QED
    BY ObservedIsFinite, FS_EmptySet
<1>4. MovingAverageAnalyst(f) = TechnicalResult(f, A \cup B \cup C)
  BY DEF MovingAverageAnalyst
<1> HIDE DEF A, B, C
<1>5. IsFiniteSet(A \cup B \cup C)
  BY <1>1, <1>2, <1>3, FS_Union
<1> QED
  BY <1>4, <1>5, ResultIsFinite

LEMMA SnapshotIsFinite ==
    ASSUME NEW s, IsFiniteSet(s.average.periods), NEW a \in TechnicalAnalysts
    PROVE  IsFiniteSet(AnalyzeSnapshot(s)[a].observations)
<1>1. \A f : IsFiniteSet(TrendAnalyst(f).observations)
  <2> SUFFICES ASSUME NEW f PROVE IsFiniteSet(TrendAnalyst(f).observations)
    OBVIOUS
  <2> DEFINE A == Observe("RETURN_DIRECTION", <<>>, f.return, f.quality)
             B == Observe("SLOPE_DIRECTION", <<>>, f.slope, f.quality)
             C == Observe("STRUCTURAL_SEQUENCE_BALANCE", <<>>, SignOf(f.upCount, f.downCount), f.quality)
             D == IF f.return = "NONE" /\ f.slope = "NONE" THEN {}
                  ELSE Observe("TREND_PRIMITIVE_AGREEMENT", <<>>, PrimitiveAgreement(f.return, f.slope), f.quality)
             E == Observe("DIRECTIONAL_PERSISTENCE", <<>>, f.persistence, f.quality)
  <2>1. IsFiniteSet(A) /\ IsFiniteSet(B) /\ IsFiniteSet(C) /\ IsFiniteSet(D) /\ IsFiniteSet(E)
    BY ObservedIsFinite, FS_EmptySet
  <2>2. TrendAnalyst(f) = TechnicalResult(f, A \cup B \cup C \cup D \cup E)
    BY DEF TrendAnalyst
  <2> HIDE DEF A, B, C, D, E
  <2> QED
    BY <2>1, <2>2, FS_Union, ResultIsFinite
<1>2. \A f : IsFiniteSet(MarketStructureAnalyst(f).observations)
  <2> SUFFICES ASSUME NEW f PROVE IsFiniteSet(MarketStructureAnalyst(f).observations)
    OBVIOUS
  <2> DEFINE n == Len(f.breaks)
             latest == IF n = 0 THEN "NONE" ELSE f.breaks[n].direction
             pattern == IF n < 2 THEN "INSUFFICIENT_DATA"
                        ELSE IF f.breaks[n - 1].direction = latest THEN "REPEATED_DIRECTION" ELSE "ALTERNATING"
             presence == IF n = 0 THEN "NO_BREAK_CONFIRMED" ELSE "BREAK_CONFIRMED"
             A == Observe("STRUCTURAL_BREAK_PRESENCE", <<>>, presence, f.quality)
             B == Observe("LATEST_BREAK_DIRECTION", <<>>, latest, f.quality)
             C == Observe("BREAK_SEQUENCE_PATTERN", <<>>, pattern, f.quality)
  <2>1. MarketStructureAnalyst(f) = TechnicalResult(f, A \cup B \cup C)
    BY Zenon DEF MarketStructureAnalyst
  <2> HIDE DEF latest, pattern, presence
  <2>2. IsFiniteSet(A) /\ IsFiniteSet(B) /\ IsFiniteSet(C)
    BY ObservedIsFinite
  <2> HIDE DEF A, B, C
  <2> QED
    BY <2>1, <2>2, FS_Union, ResultIsFinite
<1>3. \A f : IsFiniteSet(VolatilityAnalyst(f).observations)
  BY ObservedIsFinite, ResultIsFinite DEF VolatilityAnalyst
<1>4. \A f : IsFiniteSet(MomentumAnalyst(f).observations)
  <2> SUFFICES ASSUME NEW f PROVE IsFiniteSet(MomentumAnalyst(f).observations)
    OBVIOUS
  <2> DEFINE A == Observe("ROC_SIGN", <<>>, f.roc, f.quality)
             B == Observe("RSI_MIDPOINT_RELATION", <<>>, f.rsi, f.quality)
             C == IF f.roc = "NONE" /\ f.rsi = "NONE" THEN {}
                  ELSE Observe("MOMENTUM_PRIMITIVE_AGREEMENT", <<>>, PrimitiveAgreement(f.roc, f.rsi), f.quality)
  <2>1. IsFiniteSet(A) /\ IsFiniteSet(B) /\ IsFiniteSet(C)
    BY ObservedIsFinite, FS_EmptySet
  <2>2. MomentumAnalyst(f) = TechnicalResult(f, A \cup B \cup C)
    BY DEF MomentumAnalyst
  <2> HIDE DEF A, B, C
  <2> QED
    BY <2>1, <2>2, FS_Union, ResultIsFinite
<1>5. \A f : IsFiniteSet(CandleStructureAnalyst(f).observations)
  <2> SUFFICES ASSUME NEW f PROVE IsFiniteSet(CandleStructureAnalyst(f).observations)
    OBVIOUS
  <2> DEFINE A == Observe("RANGE_SIZE_STATE", <<>>, f.rangeSize, f.quality)
             B == Observe("BODY_WICK_DOMINANCE", <<>>, f.bodyToWicks, f.quality)
             C == Observe("WICK_SIDE_COMPARISON", <<>>, f.upperToLower, f.quality)
             D == Observe("CLOSE_LOCATION_RELATION", <<>>, f.closeLocation, f.quality)
  <2>1. IsFiniteSet(A) /\ IsFiniteSet(B) /\ IsFiniteSet(C) /\ IsFiniteSet(D)
    BY ObservedIsFinite
  <2>2. CandleStructureAnalyst(f) = TechnicalResult(f, A \cup B \cup C \cup D)
    BY DEF CandleStructureAnalyst
  <2> HIDE DEF A, B, C, D
  <2> QED
    BY <2>1, <2>2, FS_Union, ResultIsFinite
<1>6. \A f : IsFiniteSet(RangeStateAnalyst(f).observations)
  <2> SUFFICES ASSUME NEW f PROVE IsFiniteSet(RangeStateAnalyst(f).observations)
    OBVIOUS
  <2> DEFINE A == Observe("NORMALIZED_RANGE_REFERENCE", <<>>, f.normalized, f.quality)
             B == Observe("DIRECTIONAL_EFFICIENCY_BOUNDARY", <<>>, f.efficiency, f.quality)
  <2>1. IsFiniteSet(A) /\ IsFiniteSet(B)
    BY ObservedIsFinite
  <2>2. RangeStateAnalyst(f) = TechnicalResult(f, A \cup B)
    BY DEF RangeStateAnalyst
  <2> HIDE DEF A, B
  <2> QED
    BY <2>1, <2>2, FS_Union, ResultIsFinite
<1> QED
  BY <1>1, <1>2, <1>3, <1>4, <1>5, <1>6, AverageIsFinite DEF AnalyzeSnapshot, TechnicalAnalysts

LEMMA AnalystsAreFinite == IsFiniteSet(TechnicalAnalysts)
<1>1. TechnicalAnalysts = {"TREND"} \cup {"MARKET_STRUCTURE"} \cup {"VOLATILITY"} \cup {"MOMENTUM"}
                            \cup {"MOVING_AVERAGE"} \cup {"CANDLE_STRUCTURE"} \cup {"RANGE_STATE"}
  BY DEF TechnicalAnalysts
<1>2. \A x : IsFiniteSet({x})
  BY FS_Singleton
<1> QED
  BY <1>1, <1>2, FS_Union

\* What the supervisor has of a market: each timeframe says one thing of a
\* dimension and a subject, and the coherence is that of what they say.
IsEvidence(technical) ==
    /\ IsFiniteSet(DOMAIN technical.results)
    /\ \A t \in DOMAIN technical.results : IsFiniteSet(Observations(technical.results, t))
    /\ technical.coherence = BuildCoherence(technical.results)
    /\ \A t \in DOMAIN technical.results : \A o \in Observations(technical.results, t) :
         /\ o.dimension \in MovingAverageDimensions \/ o.subject = <<>>
         /\ o.dimension \in {"RETURN_DIRECTION", "SLOPE_DIRECTION"} => o.value \in Signs
         /\ \A p \in Observations(technical.results, t) :
              o.dimension = p.dimension /\ o.subject = p.subject => o = p

\* Every analyst keeps to its own dimensions, so a snapshot is spoken of once.
LEMMA SnapshotSpeaksOnce ==
    ASSUME NEW s, {s.trend.return, s.trend.slope} \subseteq MaybeSigns,
           NEW a \in TechnicalAnalysts, NEW b \in TechnicalAnalysts,
           NEW o \in AnalyzeSnapshot(s)[a].observations, NEW p \in AnalyzeSnapshot(s)[b].observations
    PROVE  /\ o.dimension \in MovingAverageDimensions \/ o.subject = <<>>
           /\ o.dimension \in {"RETURN_DIRECTION", "SLOPE_DIRECTION"} => o.value \in Signs
           /\ o.dimension = p.dimension /\ o.subject = p.subject => o = p
<1> DEFINE R == AnalyzeSnapshot(s)
<1>1. /\ R["TREND"] = TrendAnalyst(s.trend) /\ R["MARKET_STRUCTURE"] = MarketStructureAnalyst(s.structure)
      /\ R["VOLATILITY"] = VolatilityAnalyst(s.volatility) /\ R["MOMENTUM"] = MomentumAnalyst(s.momentum)
      /\ R["MOVING_AVERAGE"] = MovingAverageAnalyst(s.average)
      /\ R["CANDLE_STRUCTURE"] = CandleStructureAnalyst(s.candle) /\ R["RANGE_STATE"] = RangeStateAnalyst(s.range)
  BY DEF AnalyzeSnapshot, TechnicalAnalysts
<1> HIDE DEF R
<1>2. \A c \in TechnicalAnalysts : SpeaksOnce(c, R[c].observations)
  BY <1>1, TrendSpeaks, StructureSpeaks, VolatilitySpeaks, MomentumSpeaks, AverageSpeaks, CandleSpeaks, RangeSpeaks
     DEF TechnicalAnalysts
<1>3. o \in R[a].observations /\ p \in R[b].observations
  BY DEF R
<1>4. HomeOf(o.dimension) = a /\ HomeOf(p.dimension) = b
  BY <1>2, <1>3 DEF SpeaksOnce
<1>5. o.dimension = p.dimension /\ o.subject = p.subject => o = p
  BY <1>2, <1>3, <1>4 DEF SpeaksOnce
<1>6. o.dimension \in {"RETURN_DIRECTION", "SLOPE_DIRECTION"} => o.value \in Signs
  <2> SUFFICES ASSUME o.dimension \in {"RETURN_DIRECTION", "SLOPE_DIRECTION"}
               PROVE  o.value \in Signs
    OBVIOUS
  <2>1. a = "TREND"
    BY <1>4 DEF HomeOf, MovingAverageDimensions
  <2>2. o \in TrendAnalyst(s.trend).observations
    BY <1>1, <1>3, <2>1
  <2> QED
    BY <2>2, TrendSpeaks DEF MaybeSigns
<1> QED
  BY <1>2, <1>3, <1>5, <1>6 DEF SpeaksOnce

LEMMA EvidenceOfMarket ==
    ASSUME NEW m, IsMarket(m)
    PROVE  IsEvidence(WithEvidence(m).technical)
<1> DEFINE results == [t \in DOMAIN m.snapshots |-> AnalyzeSnapshot(m.snapshots[t])]
           technical == WithEvidence(m).technical
<1>1. technical = AggregateTechnical(results, Timeframes)
  BY DEF WithEvidence, IsMarket
<1>2. technical.results = results /\ technical.coherence = BuildCoherence(results)
  BY <1>1 DEF AggregateTechnical
<1>3. IsFiniteSet(DOMAIN results)
  <2>1. DOMAIN results \in SUBSET Timeframes
    BY DEF IsMarket
  <2> QED
    BY <2>1, FS_Subset, TimeframesAssumption
<1>4. ASSUME NEW t \in DOMAIN results, NEW o \in Observations(results, t)
      PROVE  /\ o.dimension \in MovingAverageDimensions \/ o.subject = <<>>
             /\ o.dimension \in {"RETURN_DIRECTION", "SLOPE_DIRECTION"} => o.value \in Signs
             /\ \A p \in Observations(results, t) : o.dimension = p.dimension /\ o.subject = p.subject => o = p
  <2> DEFINE s == m.snapshots[t]
  <2>1. {s.trend.return, s.trend.slope} \subseteq MaybeSigns
    BY DEF IsMarket
  <2>2. results[t] = AnalyzeSnapshot(s) /\ DOMAIN AnalyzeSnapshot(s) = TechnicalAnalysts
    BY DEF AnalyzeSnapshot
  <2>3. Observations(results, t) = UNION {AnalyzeSnapshot(s)[a].observations : a \in TechnicalAnalysts}
    BY <2>2 DEF Observations
  <2> HIDE DEF s, results
  <2>4. PICK a \in TechnicalAnalysts : o \in AnalyzeSnapshot(s)[a].observations
    BY <1>4, <2>3
  <2>5. ASSUME NEW p \in Observations(results, t)
        PROVE  /\ o.dimension \in MovingAverageDimensions \/ o.subject = <<>>
               /\ o.dimension \in {"RETURN_DIRECTION", "SLOPE_DIRECTION"} => o.value \in Signs
               /\ o.dimension = p.dimension /\ o.subject = p.subject => o = p
    <3>1. PICK b \in TechnicalAnalysts : p \in AnalyzeSnapshot(s)[b].observations
      BY <2>3, <2>5
    <3> QED
      BY <2>1, <2>4, <3>1, SnapshotSpeaksOnce
  <2> QED
    BY <1>4, <2>5
<1>5. ASSUME NEW t \in DOMAIN results
      PROVE  IsFiniteSet(Observations(results, t))
  <2> DEFINE R == AnalyzeSnapshot(m.snapshots[t])
             f == [a \in TechnicalAnalysts |-> R[a].observations]
  <2>1. results[t] = R /\ DOMAIN R = TechnicalAnalysts
    BY DEF AnalyzeSnapshot
  <2>2. \A a \in TechnicalAnalysts : IsFiniteSet(R[a].observations)
    BY SnapshotIsFinite DEF IsMarket
  <2> HIDE DEF R, results
  <2>3. Observations(results, t) = UNION {f[a] : a \in TechnicalAnalysts}
    BY <2>1 DEF Observations
  <2>4. \A a \in TechnicalAnalysts : IsFiniteSet(f[a])
    BY <2>2
  <2> HIDE DEF f
  <2> QED
    BY <2>3, <2>4, AnalystsAreFinite, UnionIsFinite
<1> HIDE DEF results, technical
<1>6. IsEvidence(technical)
  BY <1>2, <1>3, <1>4, <1>5 DEF IsEvidence
<1> QED
  BY <1>6 DEF technical

LEMMA TwoOrMore == ASSUME NEW S, IsFiniteSet(S) PROVE (Cardinality(S) >= 2) <=> \E x, y \in S : x # y
<1>1. Cardinality(S) \in Nat /\ (Cardinality(S) = 0 <=> S = {}) /\ (Cardinality(S) = 1 <=> \E x : S = {x})
  BY FS_CardinalityType, FS_EmptySet, FS_Singleton
<1>2. (\E x, y \in S : x # y) <=> S # {} /\ ~\E x : S = {x}
  OBVIOUS
<1> QED
  BY <1>1, <1>2

\* What the timeframes say of a dimension and a subject, as the supervisor
\* tallies it.
Tallied(results, d, s) ==
    {[timeframe |-> v[1], value |-> v[2].value] : v \in UNION {{t} \X
        {o \in Observations(results, t) : o.dimension = d /\ o.subject = s} : t \in DOMAIN results}}

LEMMA Voiced ==
    ASSUME NEW results, NEW d, NEW s
    PROVE  /\ \A v \in Voices(results, d, s) :
                /\ v.of \in DOMAIN results /\ v.said \in Observations(results, v.of)
                /\ v.said.dimension = d /\ v.said.subject = s /\ v = [of |-> v.of, said |-> v.said]
           /\ \A t \in DOMAIN results : \A o \in Observations(results, t) :
                o.dimension = d /\ o.subject = s => [of |-> t, said |-> o] \in Voices(results, d, s)
           /\ \A e \in Tallied(results, d, s) : \E v \in Voices(results, d, s) :
                e = [timeframe |-> v.of, value |-> v.said.value]
           /\ \A v \in Voices(results, d, s) : [timeframe |-> v.of, value |-> v.said.value] \in Tallied(results, d, s)
<1> DEFINE pairs == UNION {{t} \X {o \in Observations(results, t) : o.dimension = d /\ o.subject = s} :
                           t \in DOMAIN results}
<1>1. \A x \in pairs : /\ x = <<x[1], x[2]>> /\ x[1] \in DOMAIN results /\ x[2] \in Observations(results, x[1])
                       /\ x[2].dimension = d /\ x[2].subject = s
  OBVIOUS
<1>2. \A t \in DOMAIN results : \A o \in Observations(results, t) :
          o.dimension = d /\ o.subject = s => <<t, o>> \in pairs
  OBVIOUS
<1>3. /\ Voices(results, d, s) = {[of |-> v[1], said |-> v[2]] : v \in pairs}
      /\ Tallied(results, d, s) = {[timeframe |-> v[1], value |-> v[2].value] : v \in pairs}
  BY DEF Voices, Tallied
<1> HIDE DEF pairs
<1>4. ASSUME NEW v \in Voices(results, d, s)
      PROVE  /\ v.of \in DOMAIN results /\ v.said \in Observations(results, v.of)
             /\ v.said.dimension = d /\ v.said.subject = s /\ v = [of |-> v.of, said |-> v.said]
             /\ [timeframe |-> v.of, value |-> v.said.value] \in Tallied(results, d, s)
  <2>1. PICK x \in pairs : v = [of |-> x[1], said |-> x[2]]
    BY <1>3
  <2> QED
    BY <1>1, <1>3, <2>1
<1>5. ASSUME NEW t \in DOMAIN results, NEW o \in Observations(results, t), o.dimension = d, o.subject = s
      PROVE  [of |-> t, said |-> o] \in Voices(results, d, s)
  <2>1. <<t, o>> \in pairs /\ <<t, o>>[1] = t /\ <<t, o>>[2] = o
    BY <1>2, <1>5
  <2> QED
    BY <1>3, <2>1
<1>6. ASSUME NEW e \in Tallied(results, d, s)
      PROVE  \E v \in Voices(results, d, s) : e = [timeframe |-> v.of, value |-> v.said.value]
  <2>1. PICK x \in pairs : e = [timeframe |-> x[1], value |-> x[2].value]
    BY <1>3
  <2>2. [of |-> x[1], said |-> x[2]] \in Voices(results, d, s)
    BY <1>3
  <2> QED
    BY <2>1, <2>2
<1> QED
  BY <1>4, <1>5, <1>6

\* An entry of the coherence is as the voices are.
IsTally(entry, results, d, s) ==
    /\ entry.dimension = d /\ entry.subject = s
    /\ entry.verdict = IF ~Heard(results, d, s) THEN "INSUFFICIENT_DATA"
                       ELSE IF \E x : Values(results, d, s) = {x} THEN "ALL_AGREE" ELSE "MIXED"
    /\ Heard(results, d, s) => /\ entry.values = Values(results, d, s) /\ Values(results, d, s) # {}
                              /\ entry.timeframes = {v.of : v \in Voices(results, d, s)}

\* That holds where every timeframe has one voice.
LEMMA TalliedVoices ==
    ASSUME NEW technical, IsEvidence(technical), NEW d, NEW s
    PROVE  IsTally(TallyGroup(technical.results, d, s), technical.results, d, s)
<1> DEFINE results == technical.results
           entry == TallyGroup(results, d, s)
           V == Voices(results, d, s)
           E == Tallied(results, d, s)
           D == DOMAIN results
<1>1. /\ entry.dimension = d /\ entry.subject = s
      /\ entry.verdict = AgreementOf(E)
      /\ entry.values = IF entry.verdict = "INSUFFICIENT_DATA" THEN {} ELSE {e.value : e \in E}
      /\ entry.timeframes = IF entry.verdict = "INSUFFICIENT_DATA" THEN {} ELSE {e.timeframe : e \in E}
  BY DEF TallyGroup, Tallied
<1>2. IsFiniteSet(D)
  BY DEF IsEvidence
<1>3. \A v, w \in V : v.of = w.of => v = w
  BY Voiced DEF IsEvidence
<1>4. /\ \A v \in V : v.of \in D /\ [timeframe |-> v.of, value |-> v.said.value] \in E
      /\ \A e \in E : \E v \in V : e = [timeframe |-> v.of, value |-> v.said.value]
  BY Voiced
<1> HIDE DEF V, E, D, entry
<1>5. IsFiniteSet(V)
  <2> DEFINE f == [v \in V |-> v.of]
  <2>1. f \in Injection(V, D)
    BY <1>3, <1>4 DEF Injection, IsInjective
  <2> QED
    BY <1>2, <2>1, FS_Injection
<1>6. IsFiniteSet(E)
  <2> DEFINE f == [e \in E |-> e.timeframe]
  <2>1. \A e, g \in E : e.timeframe = g.timeframe => e = g
    BY <1>3, <1>4
  <2>2. \A e \in E : e.timeframe \in D
    BY <1>4
  <2>3. f \in Injection(E, D)
    BY <2>1, <2>2 DEF Injection, IsInjective
  <2> QED
    BY <1>2, <2>3, FS_Injection
<1>7. Cardinality(V) >= 2 <=> Cardinality(E) >= 2
  <2>1. ASSUME NEW x \in V, NEW y \in V, x # y
        PROVE  \E e, g \in E : e # g
    <3> DEFINE e == [timeframe |-> x.of, value |-> x.said.value]
               g == [timeframe |-> y.of, value |-> y.said.value]
    <3>1. e \in E /\ g \in E
      BY <1>4
    <3>2. e.timeframe # g.timeframe
      BY <1>3, <2>1
    <3> QED
      BY <3>1, <3>2
  <2>2. ASSUME NEW e \in E, NEW g \in E, e # g
        PROVE  \E x, y \in V : x # y
    <3>1. PICK x \in V : e = [timeframe |-> x.of, value |-> x.said.value]
      BY <1>4
    <3>2. PICK y \in V : g = [timeframe |-> y.of, value |-> y.said.value]
      BY <1>4
    <3> QED
      BY <2>2, <3>1, <3>2
  <2> QED
    BY <1>5, <1>6, <2>1, <2>2, TwoOrMore
<1>8. {e.value : e \in E} = {v.said.value : v \in V} /\ {e.timeframe : e \in E} = {v.of : v \in V}
  <2>1. \A e \in E : \E v \in V : e.value = v.said.value /\ e.timeframe = v.of
    BY <1>4
  <2>2. \A v \in V : \E e \in E : e.value = v.said.value /\ e.timeframe = v.of
    BY <1>4
  <2>3. \A x : (\E e \in E : x = e.value) <=> (\E v \in V : x = v.said.value)
    BY <2>1, <2>2
  <2>4. \A x : (\E e \in E : x = e.timeframe) <=> (\E v \in V : x = v.of)
    BY <2>1, <2>2
  <2> QED
    BY <2>3, <2>4
<1>9. IsFiniteSet({e.value : e \in E})
  <2> DEFINE f == [e \in E |-> e.value]
  <2>1. f \in Surjection(E, {e.value : e \in E})
    BY DEF Surjection
  <2> QED
    BY <1>6, <2>1, FS_Surjection
<1>11. Cardinality(E) \in Nat
  BY <1>6, FS_CardinalityType
<1>12. {l.value : l \in E} = Values(results, d, s) /\ (Heard(results, d, s) <=> Cardinality(E) >= 2)
  BY <1>7, <1>8 DEF Values, Heard, V
<1>13. entry.verdict = IF ~Heard(results, d, s) THEN "INSUFFICIENT_DATA"
                       ELSE IF \E x : Values(results, d, s) = {x} THEN "ALL_AGREE" ELSE "MIXED"
  <2>1. entry.verdict = IF Cardinality(E) < 2 THEN "INSUFFICIENT_DATA"
                        ELSE IF Cardinality(Values(results, d, s)) = 1 THEN "ALL_AGREE" ELSE "MIXED"
    BY <1>1, <1>12 DEF AgreementOf
  <2>2. Cardinality(E) < 2 <=> ~Heard(results, d, s)
    BY <1>11, <1>12
  <2>3. Cardinality(Values(results, d, s)) = 1 <=> \E x : Values(results, d, s) = {x}
    BY <1>9, <1>12, FS_Singleton
  <2> QED
    BY <2>1, <2>2, <2>3
<1>14. Heard(results, d, s) => Values(results, d, s) # {}
  <2>1. Heard(results, d, s) => V # {}
    BY <1>5, TwoOrMore DEF Heard, V
  <2> QED
    BY <2>1 DEF Values, V
<1>15. Heard(results, d, s) => entry.values = Values(results, d, s) /\ entry.timeframes = {v.of : v \in V}
  <2>1. Heard(results, d, s) => entry.verdict # "INSUFFICIENT_DATA"
    BY <1>13
  <2> QED
    BY <1>1, <1>8, <1>12, <2>1
<1>16. IsTally(entry, results, d, s)
  BY <1>1, <1>13, <1>14, <1>15 DEF IsTally, V
<1> QED
  BY <1>16 DEF entry

\* What the judge resolves of an entry.
IsResolution(r, results, d, s, role) ==
    /\ r.candidate \in {"NONE", "LONG", "SHORT"}
    /\ r.conflict <=> Heard(results, d, s) /\ ~\E x : Values(results, d, s) = {x}
    /\ \A x : Heard(results, d, s) /\ Values(results, d, s) = {x} => r.candidate = CandidateOf(x)
    /\ r.candidate # "NONE" =>
         /\ Heard(results, d, s)
         /\ \E x : Values(results, d, s) = {x} /\ CandidateOf(x) = r.candidate
         /\ r.refs # {}
         /\ \A v \in Voices(results, d, s) : [role |-> role, of |-> v.of, observation |-> v.said] \in r.refs

LEMMA Resolved ==
    ASSUME NEW technical, IsEvidence(technical), NEW d, NEW s, NEW role
    PROVE  IsResolution(ResolveEntry(technical, TallyGroup(technical.results, d, s), role),
                        technical.results, d, s, role)
<1> DEFINE results == technical.results
           entry == TallyGroup(results, d, s)
           r == ResolveEntry(technical, entry, role)
           refs == CoherenceRefs(technical, entry, role)
           candidates == {CandidateOf(v) : v \in entry.values}
           heard == Heard(results, d, s)
           values == Values(results, d, s)
<1>1. /\ entry.dimension = d /\ entry.subject = s
      /\ entry.verdict = IF ~heard THEN "INSUFFICIENT_DATA" ELSE IF \E x : values = {x} THEN "ALL_AGREE" ELSE "MIXED"
      /\ heard => entry.values = values /\ values # {} /\ entry.timeframes = {v.of : v \in Voices(results, d, s)}
  <2>1. IsTally(entry, results, d, s)
    BY TalliedVoices
  <2> HIDE DEF entry, results
  <2> QED
    BY <2>1 DEF IsTally
<1>2. r = CASE entry.verdict = "MIXED" -> [conflict |-> TRUE, candidate |-> "NONE", refs |-> refs]
            [] entry.verdict = "ALL_AGREE" /\ candidates # {"NONE"} ->
                 [conflict |-> FALSE, candidate |-> CHOOSE c \in candidates : TRUE, refs |-> refs]
            [] OTHER -> Unresolved
  BY DEF ResolveEntry
<1>3. heard => \A v \in Voices(results, d, s) : [role |-> role, of |-> v.of, observation |-> v.said] \in refs
  <2> SUFFICES ASSUME heard, NEW v \in Voices(results, d, s)
               PROVE  [role |-> role, of |-> v.of, observation |-> v.said] \in refs
    OBVIOUS
  <2>1. v.of \in entry.timeframes
    BY <1>1
  <2>2. v.said \in {o \in Observations(results, v.of) : o.dimension = d /\ o.subject = s}
    BY Voiced
  <2> HIDE DEF entry
  <2> QED
    BY <1>1, <2>1, <2>2 DEF CoherenceRefs
<1>4. heard => Voices(results, d, s) # {}
  BY <1>1 DEF Values
<1>5. \A x : CandidateOf(x) \in {"NONE", "LONG", "SHORT"}
  BY DEF CandidateOf
<1>6. \A x : heard /\ values = {x} => candidates = {CandidateOf(x)} /\ (CHOOSE c \in candidates : TRUE) = CandidateOf(x)
  <2> SUFFICES ASSUME NEW x, heard, values = {x}
               PROVE  candidates = {CandidateOf(x)}
    OBVIOUS
  <2>1. entry.values = {x}
    BY <1>1
  <2> HIDE DEF entry
  <2> QED
    BY <2>1
<1> HIDE DEF entry, refs, candidates, heard, values
<1>7. ASSUME ~heard
      PROVE  IsResolution(r, results, d, s, role)
  <2>1. r = Unresolved
    BY <1>1, <1>2, <1>7
  <2> HIDE DEF r
  <2> QED
    BY <1>7, <2>1 DEF Unresolved, IsResolution, heard, values
<1>8. ASSUME heard /\ ~\E x : values = {x}
      PROVE  IsResolution(r, results, d, s, role)
  <2>1. r.conflict /\ r.candidate = "NONE"
    BY <1>1, <1>2, <1>8
  <2> HIDE DEF r
  <2> QED
    BY <1>8, <2>1 DEF IsResolution, heard, values
<1>9. ASSUME heard /\ \E x : values = {x}
      PROVE  IsResolution(r, results, d, s, role)
  <2>1. PICK x : values = {x}
    BY <1>9
  <2>2. candidates = {CandidateOf(x)} /\ (CHOOSE c \in candidates : TRUE) = CandidateOf(x)
    BY <1>6, <1>9, <2>1
  <2>3. entry.verdict = "ALL_AGREE"
    BY <1>1, <1>9
  <2>4. /\ ~r.conflict /\ r.candidate = CandidateOf(x)
        /\ CandidateOf(x) # "NONE" => r.refs = refs
    <3>1. CASE CandidateOf(x) = "NONE"
      <4>1. r = Unresolved
        BY <1>2, <2>2, <2>3, <3>1
      <4> QED
        BY <3>1, <4>1 DEF Unresolved
    <3>2. CASE CandidateOf(x) # "NONE"
      <4>1. r = [conflict |-> FALSE, candidate |-> CandidateOf(x), refs |-> refs]
        BY <1>2, <2>2, <2>3, <3>2
      <4> QED
        BY <4>1
    <3> QED
      BY <3>1, <3>2
  <2>5. \A y : values = {y} => y = x
    BY <2>1
  <2>6. refs # {}
    BY <1>3, <1>4, <1>9
  <2> HIDE DEF r
  <2> QED
    BY <1>3, <1>5, <1>9, <2>1, <2>4, <2>5, <2>6 DEF IsResolution, heard, values
<1> QED
  BY <1>7, <1>8, <1>9 DEF r, entry

\* The entries of the dimensions that have one, and of what is heard.
LEMMA EntriesFound ==
    ASSUME NEW technical, IsEvidence(technical)
    PROVE  /\ \A d \in FixedCoherenceDimensions :
                /\ EntriesOf(technical, d) = {TallyGroup(technical.results, d, <<>>)}
                /\ \A s : Heard(technical.results, d, s) => s = <<>>
           /\ \A d \in MovingAverageDimensions : \A s : Heard(technical.results, d, s) =>
                TallyGroup(technical.results, d, s) \in EntriesOf(technical, d)
           /\ \A e \in technical.coherence : \E s : e = TallyGroup(technical.results, e.dimension, s)
<1> DEFINE results == technical.results
<1>1. technical.coherence = {TallyGroup(results, d, <<>>) : d \in FixedCoherenceDimensions}
                              \cup {TallyGroup(results, g[1], g[2]) : g \in MovingAverageGroups(results)}
  BY DEF IsEvidence, BuildCoherence
<1>2. \A d, s : TallyGroup(results, d, s).dimension = d
  BY DEF TallyGroup
<1>3. \A g \in MovingAverageGroups(results) : g[1] \in MovingAverageDimensions
  BY DEF MovingAverageGroups
<1>4. FixedCoherenceDimensions \cap MovingAverageDimensions = {}
  BY DEF FixedCoherenceDimensions, MovingAverageDimensions
<1>5. \A d, s : Heard(results, d, s) =>
          \E t \in DOMAIN results : \E o \in Observations(results, t) : o.dimension = d /\ o.subject = s
  <2> SUFFICES ASSUME NEW d, NEW s, Heard(results, d, s)
               PROVE  \E v \in Voices(results, d, s) : TRUE
    BY Voiced
  <2>1. IsTally(TallyGroup(results, d, s), results, d, s)
    BY TalliedVoices
  <2> HIDE DEF results
  <2>2. Values(results, d, s) # {}
    BY <2>1, Zenon DEF IsTally
  <2> QED
    BY <2>2 DEF Values
<1>6. \A d \in FixedCoherenceDimensions : \A s : Heard(results, d, s) => s = <<>>
  BY <1>4, <1>5 DEF IsEvidence
<1>7. \A d \in MovingAverageDimensions : \A s : Heard(results, d, s) => <<d, s>> \in MovingAverageGroups(results)
  BY <1>5 DEF MovingAverageGroups
<1> HIDE DEF results
<1>8. \A d \in FixedCoherenceDimensions : EntriesOf(technical, d) = {TallyGroup(results, d, <<>>)}
  BY <1>1, <1>2, <1>3, <1>4 DEF EntriesOf
<1>9. \A d \in MovingAverageDimensions : \A s :
          Heard(results, d, s) => TallyGroup(results, d, s) \in EntriesOf(technical, d)
  <2> SUFFICES ASSUME NEW d \in MovingAverageDimensions, NEW s, Heard(results, d, s)
               PROVE  TallyGroup(results, d, s) \in technical.coherence
    BY <1>2 DEF EntriesOf
  <2>1. <<d, s>> \in MovingAverageGroups(results) /\ <<d, s>>[1] = d /\ <<d, s>>[2] = s
    BY <1>7
  <2> QED
    BY <1>1, <2>1
<1>10. \A e \in technical.coherence : \E s : e = TallyGroup(results, e.dimension, s)
  BY <1>1, <1>2
<1> QED
  BY <1>8, <1>9, <1>10, <1>6 DEF results

\* The judge's view of a dimension that has one entry.
LEMMA ResolvedDimension ==
    ASSUME NEW technical, IsEvidence(technical), NEW d \in FixedCoherenceDimensions, NEW role
    PROVE  ResolveDimension(technical, d, role) = ResolveEntry(technical, TallyGroup(technical.results, d, <<>>), role)
<1>1. EntriesOf(technical, d) = {TallyGroup(technical.results, d, <<>>)}
  BY EntriesFound
<1>2. (CHOOSE e \in EntriesOf(technical, d) : TRUE) = TallyGroup(technical.results, d, <<>>)
  BY <1>1
<1> QED
  BY <1>2 DEF ResolveDimension

\* Up is long and down is short.
LEMMA Ways ==
    ASSUME NEW direction \in {"LONG", "SHORT"}
    PROVE  /\ \A x : CandidateOf(x) = direction <=> x = WayOf(direction)
           /\ CandidateOf(Opposite(WayOf(direction))) \notin {"NONE", direction}
           /\ Opposite(WayOf(direction)) \notin {WayOf(direction), "LEVEL"}
           /\ \A x \in Signs : CandidateOf(x) = "NONE" => x = "LEVEL"
BY DEF CandidateOf, WayOf, Opposite, Signs

LEMMA TrendDirection ==
    ASSUME NEW technical, IsEvidence(technical), PassesPolicy(JudgeTrendFollowing(technical))
    PROVE  LET way == WayOf(JudgeTrendFollowing(technical).direction)
           IN  /\ StandsOn(technical.results, way, PrimaryOf("TREND_FOLLOWING"))
               /\ Unopposed(technical.results, way, VetoOf("TREND_FOLLOWING"))
<1> DEFINE results == technical.results
           j == JudgeTrendFollowing(technical)
           return == ResolveDimension(technical, "RETURN_DIRECTION", "PRIMARY")
           slope == ResolveDimension(technical, "SLOPE_DIRECTION", "PRIMARY")
           candidates == {return.candidate, slope.candidate} \ {"NONE"}
           direction == CHOOSE c \in candidates : TRUE
           primary == return.refs \cup slope.refs
           vetoes == VetoRefs(technical, direction)
           way == WayOf(j.direction)
           R(d) == ResolveEntry(technical, TallyGroup(results, d, <<>>), "PRIMARY")
<1>1. /\ j.outcome = "DIRECTIONAL" /\ \A r \in j.refs : r.observation.quality \in {"VALID", "PARTIAL"}
      /\ ~return.conflict /\ ~slope.conflict /\ candidates # {} /\ ~(Cardinality(candidates) > 1)
      /\ ~(Cardinality(candidates) = 1 /\ vetoes # {})
      /\ j = Directed(direction, primary)
  BY DEF PassesPolicy, JudgeTrendFollowing, Mixed, Insufficient, Directed, Judged
<1>2. {"RETURN_DIRECTION", "SLOPE_DIRECTION"} \subseteq FixedCoherenceDimensions
  BY DEF FixedCoherenceDimensions
<1>3. return = R("RETURN_DIRECTION") /\ slope = R("SLOPE_DIRECTION")
  BY <1>2, ResolvedDimension
<1>4. \A d \in {"RETURN_DIRECTION", "SLOPE_DIRECTION"} :
          IsResolution(R(d), results, d, <<>>, "PRIMARY")
  BY Resolved
<1> HIDE DEF return, slope, R, results
<1>5. Cardinality(candidates) = 1 /\ candidates = {direction} /\ direction \in {"LONG", "SHORT"}
  <2>1. candidates \subseteq {"LONG", "SHORT"}
    BY <1>3, <1>4 DEF IsResolution
  <2>2. IsFiniteSet({"LONG", "SHORT"})
    <3>1. {"LONG", "SHORT"} = {"LONG"} \cup {"SHORT"}
      OBVIOUS
    <3>2. IsFiniteSet({"LONG"}) /\ IsFiniteSet({"SHORT"})
      BY FS_Singleton
    <3> QED
      BY <3>1, <3>2, FS_Union
  <2> HIDE DEF candidates
  <2>3. IsFiniteSet(candidates) /\ Cardinality(candidates) \in Nat /\ Cardinality(candidates) # 0
    BY <1>1, <2>1, <2>2, FS_Subset, FS_CardinalityType, FS_EmptySet
  <2>4. Cardinality(candidates) = 1
    BY <1>1, <2>3
  <2>5. PICK c : candidates = {c}
    BY <2>3, <2>4, FS_Singleton
  <2>6. direction = c
    BY <2>5
  <2> QED
    BY <2>1, <2>4, <2>5, <2>6
<1> HIDE DEF j, vetoes
<1>6. vetoes = {} /\ j.direction = direction /\ j.refs = primary /\ way = WayOf(direction)
  BY <1>1, <1>5 DEF Directed, Judged
<1>7. \A d \in {"RETURN_DIRECTION", "SLOPE_DIRECTION"} : ~R(d).conflict /\ R(d).candidate \in {"NONE", direction}
                                                      /\ R(d).refs \subseteq primary
  <2>1. return.candidate \in {"NONE", direction} /\ slope.candidate \in {"NONE", direction}
    BY <1>5
  <2> QED
    BY <1>1, <1>3, <2>1
<1>8. PICK d \in {"RETURN_DIRECTION", "SLOPE_DIRECTION"} : R(d).candidate = direction
  <2>1. return.candidate = direction \/ slope.candidate = direction
    BY <1>5
  <2> QED
    BY <1>3, <2>1
<1> HIDE DEF candidates, direction, primary, way
<1>9. /\ \A x : CandidateOf(x) = direction <=> x = way
      /\ CandidateOf(Opposite(way)) \notin {"NONE", direction}
      /\ Opposite(way) \notin {way, "LEVEL"}
      /\ \A x \in Signs : CandidateOf(x) = "NONE" => x = "LEVEL"
  BY <1>5, <1>6, Ways
<1>10. /\ Heard(results, d, <<>>) /\ Values(results, d, <<>>) = {way}
       /\ \A v \in Voices(results, d, <<>>) : v.said.quality \in {"VALID", "PARTIAL"}
  <2>1. direction # "NONE"
    BY <1>5
  <2>2. /\ Heard(results, d, <<>>) /\ \E x : Values(results, d, <<>>) = {x} /\ CandidateOf(x) = direction
        /\ \A v \in Voices(results, d, <<>>) :
             [role |-> "PRIMARY", of |-> v.of, observation |-> v.said] \in R(d).refs
    BY <1>4, <1>8, <2>1 DEF IsResolution
  <2>3. ASSUME NEW v \in Voices(results, d, <<>>)
        PROVE  v.said.quality \in {"VALID", "PARTIAL"}
    <3> DEFINE r == [role |-> "PRIMARY", of |-> v.of, observation |-> v.said]
    <3>1. r \in j.refs
      BY <1>6, <1>7, <2>2
    <3>2. r.observation.quality \in {"VALID", "PARTIAL"}
      BY <1>1, <3>1
    <3> QED
      BY <3>2
  <2> QED
    BY <1>9, <2>2, <2>3
<1>11. ASSUME NEW e \in {"RETURN_DIRECTION", "SLOPE_DIRECTION"}, Heard(results, e, <<>>)
       PROVE  Values(results, e, <<>>) \in {{way}, {"LEVEL"}}
  <2>1. PICK x : Values(results, e, <<>>) = {x}
    BY <1>4, <1>7, <1>11 DEF IsResolution
  <2>2. CandidateOf(x) \in {"NONE", direction}
    BY <1>4, <1>7, <1>11, <2>1 DEF IsResolution
  <2>3. x \in Signs
    <3>1. PICK v \in Voices(results, e, <<>>) : v.said.value = x
      BY <2>1 DEF Values
    <3>2. v.of \in DOMAIN results /\ v.said \in Observations(results, v.of) /\ v.said.dimension = e
      BY Voiced
    <3> QED
      BY <3>1, <3>2 DEF IsEvidence, results
  <2> QED
    BY <1>9, <2>1, <2>2, <2>3
<1>12. ASSUME NEW e \in {"RETURN_DIRECTION"} \cup TrendCorroborators, NEW s,
              Heard(results, e, s), Values(results, e, s) = {Opposite(way)}
       PROVE  FALSE
  <2>1. CASE e = "RETURN_DIRECTION"
    <3>1. s = <<>>
      BY <1>2, <1>12, <2>1, EntriesFound DEF results
    <3> QED
      BY <1>9, <1>11, <1>12, <2>1, <3>1
  <2>2. CASE e \in TrendCorroborators
    <3> DEFINE entry == TallyGroup(results, e, s)
               r == ResolveEntry(technical, entry, "CORROBORATING")
    <3>1. e \in FixedCoherenceDimensions \cup MovingAverageDimensions
      BY <2>2 DEF TrendCorroborators, FixedCoherenceDimensions, MovingAverageDimensions
    <3>2. entry \in EntriesOf(technical, e)
      BY <1>12, <3>1, EntriesFound DEF results
    <3>3. IsResolution(r, results, e, s, "CORROBORATING")
      BY Resolved DEF results
    <3> HIDE DEF r
    <3>4. r.candidate = CandidateOf(Opposite(way)) /\ (r.candidate # "NONE" => r.refs # {})
      BY <1>12, <3>3 DEF IsResolution
    <3>5. r.candidate \notin {"NONE", direction} /\ r.refs # {}
      BY <1>9, <3>4
    <3>6. entry \in UNION {EntriesOf(technical, g) : g \in TrendCorroborators}
      BY <2>2, <3>2
    <3>7. r.refs \subseteq vetoes
      BY <3>5, <3>6 DEF VetoRefs, vetoes, r
    <3> QED
      BY <1>6, <3>5, <3>7
  <2> QED
    BY <2>1, <2>2
<1> QED
  BY <1>10, <1>11, <1>12 DEF StandsOn, Unopposed, PrimaryOf, VetoOf, way, results, j

LEMMA BreakoutDirection ==
    ASSUME NEW technical, IsEvidence(technical), PassesPolicy(JudgeBreakout(technical))
    PROVE  LET way == WayOf(JudgeBreakout(technical).direction)
           IN  /\ StandsOn(technical.results, way, PrimaryOf("BREAKOUT"))
               /\ Unopposed(technical.results, way, VetoOf("BREAKOUT"))
<1> DEFINE results == technical.results
           j == JudgeBreakout(technical)
           latest == ResolveDimension(technical, "LATEST_BREAK_DIRECTION", "PRIMARY")
           return == ResolveDimension(technical, "RETURN_DIRECTION", "CORROBORATING")
           breaks == BreakRefs(technical)
           way == WayOf(j.direction)
<1>1. /\ j.outcome = "DIRECTIONAL" /\ \A r \in j.refs : r.observation.quality \in {"VALID", "PARTIAL"}
      /\ ~latest.conflict /\ latest.candidate # "NONE" /\ return.candidate \in {"NONE", latest.candidate}
      /\ j = Directed(latest.candidate, breaks \cup latest.refs)
  BY DEF PassesPolicy, JudgeBreakout, Mixed, Insufficient, Directed, Judged
<1>2. {"RETURN_DIRECTION", "LATEST_BREAK_DIRECTION"} \subseteq FixedCoherenceDimensions
  BY DEF FixedCoherenceDimensions
<1>3. /\ latest = ResolveEntry(technical, TallyGroup(results, "LATEST_BREAK_DIRECTION", <<>>), "PRIMARY")
      /\ return = ResolveEntry(technical, TallyGroup(results, "RETURN_DIRECTION", <<>>), "CORROBORATING")
  BY <1>2, ResolvedDimension
<1>4. IsResolution(latest, results, "LATEST_BREAK_DIRECTION", <<>>, "PRIMARY")
  <2>1. IsResolution(ResolveEntry(technical, TallyGroup(results, "LATEST_BREAK_DIRECTION", <<>>), "PRIMARY"),
                     results, "LATEST_BREAK_DIRECTION", <<>>, "PRIMARY")
    BY Resolved
  <2> HIDE DEF latest, results
  <2> QED
    BY <1>3, <2>1
<1>5. IsResolution(return, results, "RETURN_DIRECTION", <<>>, "CORROBORATING")
  <2>1. IsResolution(ResolveEntry(technical, TallyGroup(results, "RETURN_DIRECTION", <<>>), "CORROBORATING"),
                     results, "RETURN_DIRECTION", <<>>, "CORROBORATING")
    BY Resolved
  <2> HIDE DEF return, results
  <2> QED
    BY <1>3, <2>1
<1>6. j.direction = latest.candidate /\ latest.refs \subseteq j.refs /\ latest.candidate \in {"LONG", "SHORT"}
  <2> HIDE DEF j, latest, results, breaks
  <2> QED
    BY <1>1, <1>4 DEF Directed, Judged, IsResolution
<1> HIDE DEF j, latest, return, breaks, results, way
<1>7. /\ \A x : CandidateOf(x) = latest.candidate <=> x = way
      /\ CandidateOf(Opposite(way)) \notin {"NONE", latest.candidate}
  BY <1>6, Ways DEF way
<1>8. /\ Heard(results, "LATEST_BREAK_DIRECTION", <<>>) /\ Values(results, "LATEST_BREAK_DIRECTION", <<>>) = {way}
  BY <1>1, <1>4, <1>7 DEF IsResolution
<1>9. ASSUME NEW v \in Voices(results, "LATEST_BREAK_DIRECTION", <<>>)
      PROVE  v.said.quality \in {"VALID", "PARTIAL"}
  <2> DEFINE r == [role |-> "PRIMARY", of |-> v.of, observation |-> v.said]
  <2>1. r \in j.refs
    BY <1>1, <1>4, <1>6 DEF IsResolution
  <2>2. r.observation.quality \in {"VALID", "PARTIAL"}
    BY <1>1, <2>1
  <2> QED
    BY <2>2
<1>10. ASSUME NEW s, Heard(results, "RETURN_DIRECTION", s)
       PROVE  Values(results, "RETURN_DIRECTION", s) # {Opposite(way)}
  <2>1. s = <<>>
    BY <1>2, <1>10, EntriesFound DEF results
  <2> QED
    BY <1>1, <1>5, <1>7, <1>10, <2>1 DEF IsResolution
<1> QED
  BY <1>8, <1>9, <1>10 DEF StandsOn, Unopposed, PrimaryOf, VetoOf, way, results, j

-----------------------------------------------------------------------------
(* The validators of the results on the way.                                *)

\* A timeframe has one voice, and there are finitely many of them.
LEMMA VoicesAreFew ==
    ASSUME NEW technical, IsEvidence(technical), NEW d, NEW s
    PROVE  /\ IsFiniteSet(Voices(technical.results, d, s))
           /\ \A v, w \in Voices(technical.results, d, s) : v.of = w.of => v = w
           /\ Heard(technical.results, d, s) => \E v, w \in Voices(technical.results, d, s) : v.of # w.of
<1> DEFINE results == technical.results
           V == Voices(results, d, s)
           D == DOMAIN results
           f == [v \in V |-> v.of]
<1>1. \A v, w \in V : v.of = w.of => v = w
  BY Voiced DEF IsEvidence
<1>2. \A v \in V : v.of \in D
  BY Voiced
<1>3. f \in Injection(V, D)
  <2> HIDE DEF V, D
  <2> QED
    BY <1>1, <1>2 DEF Injection, IsInjective
<1>4. IsFiniteSet(V)
  BY <1>3, FS_Injection DEF IsEvidence
<1> HIDE DEF V
<1>5. Cardinality(V) >= 2 => \E v, w \in V : v.of # w.of
  BY <1>1, <1>4, TwoOrMore
<1> QED
  BY <1>1, <1>4, <1>5 DEF Heard, V

\* Everything a judgement may cite in a role.
Citable(results, role) ==
    UNION {{[role |-> role, of |-> t, observation |-> o] : o \in Observations(results, t)} : t \in DOMAIN results}

LEMMA CitableIsFinite ==
    ASSUME NEW technical, IsEvidence(technical), NEW role
    PROVE  /\ IsFiniteSet(Citable(technical.results, role))
           /\ \A x \in Citable(technical.results, role) : x.role = role
<1> DEFINE results == technical.results
           D == DOMAIN results
           f == [t \in D |-> {[role |-> role, of |-> t, observation |-> o] : o \in Observations(results, t)}]
<1>1. ASSUME NEW t \in D
      PROVE  IsFiniteSet(f[t])
  <2> DEFINE O == Observations(results, t)
             g == [o \in O |-> [role |-> role, of |-> t, observation |-> o]]
  <2>1. IsFiniteSet(O)
    BY DEF IsEvidence
  <2>2. g \in Surjection(O, f[t])
    BY DEF Surjection
  <2> QED
    BY <2>1, <2>2, FS_Surjection
<1>2. IsFiniteSet(D)
  BY DEF IsEvidence
<1>3. Citable(results, role) = UNION {f[t] : t \in D}
  <2>1. \A t \in D : f[t] = {[role |-> role, of |-> t, observation |-> o] : o \in Observations(results, t)}
    OBVIOUS
  <2> HIDE DEF f
  <2>2. {f[t] : t \in D} = {{[role |-> role, of |-> t, observation |-> o] : o \in Observations(results, t)} : t \in D}
    BY <2>1
  <2> QED
    BY <2>2, Zenon DEF Citable
<1>4. \A x \in Citable(results, role) : x.role = role
  BY DEF Citable
<1> HIDE DEF f, D, results
<1>5. IsFiniteSet(Citable(results, role))
  BY <1>1, <1>2, <1>3, UnionIsFinite
<1> QED
  BY <1>4, <1>5 DEF results

\* What is resolved cites two timeframes at least.
LEMMA CitedRefs ==
    ASSUME NEW technical, IsEvidence(technical), NEW d, NEW s, NEW role
    PROVE  LET r == ResolveEntry(technical, TallyGroup(technical.results, d, s), role)
           IN  /\ r.refs \subseteq Citable(technical.results, role)
               /\ r.conflict \/ r.candidate # "NONE" => \E x, y \in r.refs : x # y
<1> DEFINE results == technical.results
           entry == TallyGroup(results, d, s)
           r == ResolveEntry(technical, entry, role)
           refs == CoherenceRefs(technical, entry, role)
           candidates == {CandidateOf(v) : v \in entry.values}
           heard == Heard(results, d, s)
           V == Voices(results, d, s)
<1>1. /\ entry.dimension = d /\ entry.subject = s
      /\ entry.verdict \in {"MIXED", "ALL_AGREE"} => heard
      /\ heard => entry.timeframes = {v.of : v \in V}
  <2>1. IsTally(entry, results, d, s)
    BY TalliedVoices
  <2> HIDE DEF entry, results
  <2> QED
    BY <2>1 DEF IsTally
<1>2. \/ r = [conflict |-> TRUE, candidate |-> "NONE", refs |-> refs] /\ entry.verdict = "MIXED"
      \/ r = [conflict |-> FALSE, candidate |-> CHOOSE c \in candidates : TRUE, refs |-> refs]
           /\ entry.verdict = "ALL_AGREE"
      \/ r = Unresolved
  BY DEF ResolveEntry
<1>3. candidates # {} => (CHOOSE c \in candidates : TRUE) \in candidates
  OBVIOUS
<1>4. refs = UNION {{[role |-> role, of |-> t, observation |-> o] :
                       o \in {o \in Observations(results, t) : o.dimension = d /\ o.subject = s}} :
                    t \in entry.timeframes}
  <2> HIDE DEF entry
  <2> QED
    BY <1>1 DEF CoherenceRefs
<1>5. \A v \in V : /\ v.of \in DOMAIN results /\ v.said \in Observations(results, v.of)
                   /\ v.said.dimension = d /\ v.said.subject = s
  BY Voiced
<1>6. heard => refs \subseteq Citable(results, role)
  <2> SUFFICES ASSUME heard, NEW x \in refs
               PROVE  x \in Citable(results, role)
    OBVIOUS
  <2> HIDE DEF entry, refs, heard, V
  <2>1. PICK t \in entry.timeframes : \E o \in Observations(results, t) :
            x = [role |-> role, of |-> t, observation |-> o]
    BY <1>4
  <2>2. t \in DOMAIN results
    BY <1>1, <1>5, <2>1
  <2> QED
    BY <2>1, <2>2 DEF Citable
<1>7. heard => \E x, y \in refs : x # y
  <2> SUFFICES ASSUME heard
               PROVE  \E x, y \in refs : x # y
    OBVIOUS
  <2>1. PICK v \in V, w \in V : v.of # w.of
    BY VoicesAreFew
  <2> DEFINE x == [role |-> role, of |-> v.of, observation |-> v.said]
             y == [role |-> role, of |-> w.of, observation |-> w.said]
  <2>2. x # y
    <3>1. x.of # y.of
      BY <2>1
    <3> HIDE DEF x, y
    <3> QED
      BY <3>1
  <2> HIDE DEF entry, refs, heard, V
  <2>3. v.of \in entry.timeframes /\ w.of \in entry.timeframes
    BY <1>1
  <2>4. \A u \in V : u.of \in entry.timeframes => [role |-> role, of |-> u.of, observation |-> u.said] \in refs
    <3> SUFFICES ASSUME NEW u \in V, u.of \in entry.timeframes
                 PROVE  [role |-> role, of |-> u.of, observation |-> u.said] \in refs
      OBVIOUS
    <3>1. u.said \in {o \in Observations(results, u.of) : o.dimension = d /\ o.subject = s}
      BY <1>5
    <3> QED
      BY <1>4, <3>1
  <2>5. x \in refs /\ y \in refs
    BY <2>3, <2>4
  <2> QED
    BY <2>2, <2>5
<1> HIDE DEF r, entry, refs, heard
<1>8. /\ r.refs \subseteq Citable(results, role)
      /\ r.conflict \/ r.candidate # "NONE" => \E x, y \in r.refs : x # y
  BY <1>1, <1>2, <1>6, <1>7 DEF Unresolved
<1> QED
  BY <1>8 DEF r, entry

\* The judgements that are accepted.
LEMMA ValidJudgements ==
    /\ JudgementIsValid(Insufficient)
    /\ \A refs : IsFiniteSet(refs) /\ (\E x, y \in refs : x # y) => JudgementIsValid(Mixed(refs))
    /\ \A direction, refs : direction # "NONE" /\ (\E r \in refs : r.role = "PRIMARY") =>
         JudgementIsValid(Directed(direction, refs))
<1>1. JudgementIsValid(Insufficient)
  BY DEF JudgementIsValid, Insufficient, Judged
<1>2. ASSUME NEW refs, IsFiniteSet(refs), \E x, y \in refs : x # y
      PROVE  JudgementIsValid(Mixed(refs))
  <2>1. Cardinality(refs) >= 2
    BY <1>2, TwoOrMore
  <2> QED
    BY <2>1 DEF JudgementIsValid, Mixed, Judged
<1>3. ASSUME NEW direction, NEW refs, direction # "NONE", \E r \in refs : r.role = "PRIMARY"
      PROVE  JudgementIsValid(Directed(direction, refs))
  BY <1>3 DEF JudgementIsValid, Directed, Judged
<1> QED
  BY <1>1, <1>2, <1>3

\* The references of a dimension that has one entry.
LEMMA DimensionRefs ==
    ASSUME NEW technical, IsEvidence(technical), NEW d \in FixedCoherenceDimensions, NEW role
    PROVE  LET r == ResolveDimension(technical, d, role)
           IN  /\ IsFiniteSet(r.refs)
               /\ \A x \in r.refs : x.role = role
               /\ r.conflict \/ r.candidate # "NONE" => \E x, y \in r.refs : x # y
<1> DEFINE r == ResolveDimension(technical, d, role)
<1>1. r = ResolveEntry(technical, TallyGroup(technical.results, d, <<>>), role)
  BY ResolvedDimension
<1> HIDE DEF r
<1>2. /\ r.refs \in SUBSET Citable(technical.results, role)
      /\ r.conflict \/ r.candidate # "NONE" => \E x, y \in r.refs : x # y
  <2> DEFINE q == ResolveEntry(technical, TallyGroup(technical.results, d, <<>>), role)
  <2>1. /\ q.refs \subseteq Citable(technical.results, role)
        /\ q.conflict \/ q.candidate # "NONE" => \E x, y \in q.refs : x # y
    BY CitedRefs
  <2>2. r = q
    BY <1>1
  <2> HIDE DEF q
  <2> QED
    BY <2>1, <2>2
<1>3. IsFiniteSet(r.refs) /\ \A x \in r.refs : x.role = role
  BY <1>2, CitableIsFinite, FS_Subset
<1> QED
  BY <1>2, <1>3 DEF r

LEMMA VetoesAreFinite ==
    ASSUME NEW technical, IsEvidence(technical), NEW direction
    PROVE  IsFiniteSet(VetoRefs(technical, direction))
<1> DEFINE all == Citable(technical.results, "CORROBORATING")
<1>1. ASSUME NEW e \in technical.coherence
      PROVE  ResolveEntry(technical, e, "CORROBORATING").refs \subseteq all
  <2>1. PICK s : e = TallyGroup(technical.results, e.dimension, s)
    BY EntriesFound
  <2> QED
    BY <2>1, CitedRefs
<1> HIDE DEF all
<1>2. VetoRefs(technical, direction) \in SUBSET all
  BY <1>1 DEF VetoRefs, EntriesOf
<1> QED
  BY <1>2, CitableIsFinite, FS_Subset DEF all

LEMMA BreaksAreFinite ==
    ASSUME NEW technical, IsEvidence(technical)
    PROVE  IsFiniteSet(BreakRefs(technical)) /\ \A x \in BreakRefs(technical) : x.role = "PRIMARY"
<1>1. BreakRefs(technical) \in SUBSET Citable(technical.results, "PRIMARY")
  BY DEF BreakRefs, Citable
<1> QED
  BY <1>1, CitableIsFinite, FS_Subset

LEMMA TrendJudgement ==
    ASSUME NEW technical, IsEvidence(technical)
    PROVE  JudgementIsValid(JudgeTrendFollowing(technical))
<1> DEFINE return == ResolveDimension(technical, "RETURN_DIRECTION", "PRIMARY")
           slope == ResolveDimension(technical, "SLOPE_DIRECTION", "PRIMARY")
           candidates == {return.candidate, slope.candidate} \ {"NONE"}
           direction == CHOOSE c \in candidates : TRUE
           primary == return.refs \cup slope.refs
           vetoes == VetoRefs(technical, direction)
           j == JudgeTrendFollowing(technical)
<1>1. \A d \in {"RETURN_DIRECTION", "SLOPE_DIRECTION"} :
          LET r == ResolveDimension(technical, d, "PRIMARY")
          IN  /\ IsFiniteSet(r.refs)
              /\ \A x \in r.refs : x.role = "PRIMARY"
              /\ r.conflict \/ r.candidate # "NONE" => \E x, y \in r.refs : x # y
  BY DimensionRefs DEF FixedCoherenceDimensions
<1>2. /\ IsFiniteSet(return.refs) /\ IsFiniteSet(slope.refs)
      /\ \A x \in primary : x.role = "PRIMARY"
      /\ return.conflict \/ return.candidate # "NONE" => \E x, y \in return.refs : x # y
      /\ slope.conflict \/ slope.candidate # "NONE" => \E x, y \in slope.refs : x # y
  BY <1>1
<1>3. \/ return.conflict /\ j = Mixed(return.refs)
      \/ slope.conflict /\ j = Mixed(slope.refs)
      \/ j = Insufficient
      \/ candidates # {} /\ (j = Mixed(primary) \/ j = Mixed(primary \cup vetoes) \/ j = Directed(direction, primary))
  BY DEF JudgeTrendFollowing
<1>4. IsFiniteSet(vetoes)
  BY VetoesAreFinite
<1>5. candidates # {} => direction # "NONE" /\ (return.candidate # "NONE" \/ slope.candidate # "NONE")
  OBVIOUS
<1> HIDE DEF return, slope, vetoes, direction, candidates, j
<1>6. candidates # {} => \E x, y \in primary : x # y
  BY <1>2, <1>5
<1>7. IsFiniteSet(primary) /\ IsFiniteSet(primary \cup vetoes)
  BY <1>2, <1>4, FS_Union
<1>8. candidates # {} => /\ \E x, y \in primary \cup vetoes : x # y
                         /\ \E x \in primary : x.role = "PRIMARY"
  BY <1>2, <1>6
<1> HIDE DEF primary
<1>9. JudgementIsValid(j)
  BY <1>2, <1>3, <1>5, <1>6, <1>7, <1>8, ValidJudgements
<1> QED
  BY <1>9 DEF j

LEMMA BreakoutJudgement ==
    ASSUME NEW technical, IsEvidence(technical)
    PROVE  JudgementIsValid(JudgeBreakout(technical))
<1> DEFINE latest == ResolveDimension(technical, "LATEST_BREAK_DIRECTION", "PRIMARY")
           return == ResolveDimension(technical, "RETURN_DIRECTION", "CORROBORATING")
           breaks == BreakRefs(technical)
           primary == breaks \cup latest.refs
           j == JudgeBreakout(technical)
<1>1. /\ IsFiniteSet(latest.refs)
      /\ \A x \in latest.refs : x.role = "PRIMARY"
      /\ latest.conflict \/ latest.candidate # "NONE" => \E x, y \in latest.refs : x # y
      /\ IsFiniteSet(return.refs)
  BY DimensionRefs DEF FixedCoherenceDimensions
<1>2. IsFiniteSet(breaks) /\ \A x \in breaks : x.role = "PRIMARY"
  BY BreaksAreFinite
<1>3. \/ latest.conflict /\ j = Mixed(latest.refs)
      \/ j = Insufficient
      \/ /\ latest.candidate # "NONE"
         /\ j = Directed(latest.candidate, primary) \/ j = Mixed(primary \cup return.refs)
  BY DEF JudgeBreakout
<1> HIDE DEF latest, return, breaks, j
<1>4. IsFiniteSet(primary \cup return.refs)
  BY <1>1, <1>2, FS_Union
<1>5. latest.candidate # "NONE" => /\ \E x, y \in primary \cup return.refs : x # y
                                   /\ \E x \in primary : x.role = "PRIMARY"
  BY <1>1, <1>2
<1> HIDE DEF primary
<1>6. JudgementIsValid(j)
  BY <1>1, <1>3, <1>4, <1>5, ValidJudgements
<1> QED
  BY <1>6 DEF j

\* A provider of news that has a direction is cited.
LEMMA NewsRefs ==
    ASSUME NEW r, IsFiniteSet(r.result.observations)
    PROVE  LET n == ResolveNews(r)
           IN  /\ IsFiniteSet(n.refs)
               /\ \A x \in n.refs : x.role = "PRIMARY"
               /\ n.candidate \in {"NONE", "LONG", "SHORT"}
               /\ n.candidate # "NONE" => \E x \in n.refs : CandidateOf(x.observation.value) = n.candidate
<1> DEFINE n == ResolveNews(r)
           agreement == {o.value : o \in {o \in r.result.observations : o.dimension = "SENTIMENT_PROVIDER_AGREEMENT"}}
           signed == {o \in {o \in r.result.observations : o.dimension = "PER_PROVIDER_SENTIMENT_SIGN"} :
                        CandidateOf(o.value) # "NONE"}
           refs == {[role |-> "PRIMARY", of |-> r.analyst, observation |-> o] : o \in signed}
           first == CHOOSE o \in signed : TRUE
<1>1. \/ n = [conflict |-> TRUE, candidate |-> "NONE", refs |-> refs]
      \/ signed # {} /\ n = [conflict |-> FALSE, candidate |-> CandidateOf(first.value), refs |-> refs]
      \/ n = Unresolved
  BY DEF ResolveNews
<1>2. IsFiniteSet(refs)
  <2> DEFINE g == [o \in signed |-> [role |-> "PRIMARY", of |-> r.analyst, observation |-> o]]
  <2>1. signed \in SUBSET r.result.observations
    OBVIOUS
  <2>2. IsFiniteSet(signed)
    BY <2>1, FS_Subset
  <2> HIDE DEF signed
  <2>3. g \in Surjection(signed, refs)
    BY DEF Surjection
  <2> QED
    BY <2>2, <2>3, FS_Surjection
<1>3. signed # {} => first \in signed
  OBVIOUS
<1>4. \A o \in signed : [role |-> "PRIMARY", of |-> r.analyst, observation |-> o] \in refs
  OBVIOUS
<1>5. \A x \in refs : x.role = "PRIMARY"
  OBVIOUS
<1>6. \A x : CandidateOf(x) \in {"NONE", "LONG", "SHORT"}
  BY DEF CandidateOf
<1> HIDE DEF n, signed, refs, first
<1>7. CASE n = Unresolved
  BY <1>7, FS_EmptySet DEF Unresolved, n
<1>8. CASE n = [conflict |-> TRUE, candidate |-> "NONE", refs |-> refs]
  BY <1>2, <1>5, <1>8 DEF n
<1>9. CASE signed # {} /\ n = [conflict |-> FALSE, candidate |-> CandidateOf(first.value), refs |-> refs]
  <2> DEFINE x == [role |-> "PRIMARY", of |-> r.analyst, observation |-> first]
  <2>1. x \in refs
    BY <1>3, <1>4, <1>9
  <2>2. x.observation = first
    OBVIOUS
  <2> HIDE DEF x
  <2>3. \E y \in refs : CandidateOf(y.observation.value) = CandidateOf(first.value)
    BY <2>1, <2>2
  <2> QED
    BY <1>2, <1>5, <1>6, <1>9, <2>3 DEF n
<1> QED
  BY <1>1, <1>7, <1>8, <1>9

LEMMA EventJudgement ==
    ASSUME NEW m, m.external # NoContour => IsExternal(m.external)
    PROVE  \/ JudgementIsValid(JudgeEventDriven(m))
           \/ \E r \in AlignedScopes(m) : ResolveNews(r).conflict /\ Cardinality(ResolveNews(r).refs) < 2
<1> DEFINE scopes == {r \in AlignedScopes(m) : r.analyst = "NEWS_SENTIMENT"}
           resolved == {ResolveNews(r) : r \in scopes}
           conflicts == {r \in resolved : r.conflict}
           candidates == {r.candidate : r \in resolved} \ {"NONE"}
           refs == UNION {r.refs : r \in resolved}
           direction == CHOOSE c \in candidates : TRUE
           first == CHOOSE r \in conflicts : TRUE
           j == JudgeEventDriven(m)
<1>1. IsFiniteSet(AlignedScopes(m)) /\ \A r \in AlignedScopes(m) : IsFiniteSet(r.result.observations)
  <2>1. CASE m.external = NoContour
    BY <2>1, FS_EmptySet DEF AlignedScopes
  <2>2. CASE m.external # NoContour
    <3>1. AlignedScopes(m) \in SUBSET m.external.results
      BY <2>2 DEF AlignedScopes
    <3> QED
      BY <2>2, <3>1, FS_Subset DEF IsExternal
  <2> QED
    BY <2>1, <2>2
<1>2. \/ conflicts # {} /\ j = Mixed(first.refs)
      \/ j = Insufficient
      \/ conflicts = {} /\ Cardinality(candidates) > 1 /\ j = Mixed(refs)
      \/ candidates # {} /\ j = Directed(direction, refs)
  <2>1. j = CASE conflicts # {} -> Mixed(first.refs)
              [] conflicts = {} /\ candidates = {} -> Insufficient
              [] conflicts = {} /\ Cardinality(candidates) > 1 -> Mixed(refs)
              [] OTHER -> Directed(direction, refs)
    BY Zenon DEF JudgeEventDriven
  <2> HIDE DEF j, conflicts, candidates, refs, direction, first
  <2> QED
    BY <2>1
<1>3. \A n \in resolved : /\ IsFiniteSet(n.refs)
                          /\ \A x \in n.refs : x.role = "PRIMARY"
                          /\ n.candidate \in {"NONE", "LONG", "SHORT"}
                          /\ n.candidate # "NONE" => \E x \in n.refs : CandidateOf(x.observation.value) = n.candidate
  BY <1>1, NewsRefs
<1>4. IsFiniteSet(refs)
  <2> DEFINE f == [r \in scopes |-> ResolveNews(r).refs]
  <2>1. scopes \in SUBSET AlignedScopes(m)
    OBVIOUS
  <2>2. IsFiniteSet(scopes)
    BY <1>1, <2>1, FS_Subset
  <2>3. refs = UNION {f[r] : r \in scopes}
    OBVIOUS
  <2>4. \A r \in scopes : IsFiniteSet(f[r])
    BY <1>3
  <2> HIDE DEF f, refs, scopes
  <2> QED
    BY <2>2, <2>3, <2>4, UnionIsFinite
<1>5. conflicts # {} => \E r \in AlignedScopes(m) : first = ResolveNews(r) /\ first.conflict /\ first \in resolved
  <2> SUFFICES ASSUME conflicts # {}
               PROVE  \E r \in AlignedScopes(m) : first = ResolveNews(r) /\ first.conflict /\ first \in resolved
    OBVIOUS
  <2>1. first \in conflicts
    OBVIOUS
  <2> HIDE DEF first
  <2> QED
    BY <2>1
<1>6. \A c \in candidates : \E n \in resolved : n.candidate = c /\ c # "NONE"
  OBVIOUS
<1>7. \A n \in resolved : n.refs \subseteq refs
  OBVIOUS
<1>8. candidates # {} => direction \in candidates
  OBVIOUS
<1> HIDE DEF resolved, conflicts, candidates, refs, direction, first, j
<1>9. CASE conflicts # {} /\ j = Mixed(first.refs)
  <2>1. PICK r \in AlignedScopes(m) : first = ResolveNews(r) /\ first.conflict /\ first \in resolved
    BY <1>5, <1>9
  <2>2. IsFiniteSet(first.refs) /\ Cardinality(first.refs) \in Nat
    BY <1>3, <2>1, FS_CardinalityType
  <2>3. CASE Cardinality(first.refs) < 2
    BY <2>1, <2>3
  <2>4. CASE Cardinality(first.refs) >= 2
    <3>1. \E x, y \in first.refs : x # y
      BY <2>2, <2>4, TwoOrMore
    <3> QED
      BY <1>9, <2>2, <3>1, ValidJudgements DEF j
  <2> QED
    BY <2>2, <2>3, <2>4
<1>10. CASE j = Insufficient
  BY <1>10, ValidJudgements DEF j
<1>11. \A c \in candidates : \E x \in refs : CandidateOf(x.observation.value) = c /\ x.role = "PRIMARY"
  BY <1>3, <1>6, <1>7
<1>12. CASE Cardinality(candidates) > 1 /\ j = Mixed(refs)
  <2>1. candidates \in SUBSET {"LONG", "SHORT"}
    BY <1>3, <1>6
  <2>2. IsFiniteSet({"LONG"} \cup {"SHORT"})
    BY FS_Singleton, FS_Union
  <2>3. {"LONG", "SHORT"} = {"LONG"} \cup {"SHORT"}
    OBVIOUS
  <2>4. IsFiniteSet(candidates) /\ Cardinality(candidates) \in Nat
    BY <2>1, <2>2, <2>3, FS_Subset, FS_CardinalityType
  <2>5. \E c, e \in candidates : c # e
    BY <1>12, <2>4, TwoOrMore
  <2>6. \E x, y \in refs : x # y
    BY <1>11, <2>5
  <2> QED
    BY <1>4, <1>12, <2>6, ValidJudgements DEF j
<1>13. CASE candidates # {} /\ j = Directed(direction, refs)
  <2>1. direction \in candidates /\ direction # "NONE"
    BY <1>6, <1>8, <1>13
  <2>2. \E x \in refs : x.role = "PRIMARY"
    BY <1>11, <2>1
  <2> QED
    BY <1>13, <2>1, <2>2, ValidJudgements DEF j
<1> QED
  BY <1>2, <1>9, <1>10, <1>12, <1>13

\* The supervisor's result is accepted.
LEMMA AggregateIsValid ==
    ASSUME NEW m, IsMarket(m)
    PROVE  TechnicalAggregateIsValid(WithEvidence(m).technical, Timeframes)
<1> DEFINE results == [t \in DOMAIN m.snapshots |-> AnalyzeSnapshot(m.snapshots[t])]
           technical == WithEvidence(m).technical
<1>1. technical = AggregateTechnical(results, Timeframes)
  BY DEF WithEvidence, IsMarket
<1>2. /\ technical.results = results
      /\ technical.analyzed = TechnicalCells(results, "ANALYZED")
      /\ technical.abstained = TechnicalCells(results, "ABSTAINED")
  BY <1>1 DEF AggregateTechnical
<1>3. IsEvidence(technical)
  BY EvidenceOfMarket
<1>4. DOMAIN results \subseteq Timeframes
  BY DEF IsMarket
<1>5. \A t \in DOMAIN results : \A a \in DOMAIN results[t] :
          a \in TechnicalAnalysts /\ (results[t][a] = Abstained \/ results[t][a].status = "ANALYZED")
  <2>1. \A f, O : TechnicalResult(f, O) = Abstained \/ TechnicalResult(f, O).status = "ANALYZED"
    BY DEF TechnicalResult, Analyzed
  <2>2. ASSUME NEW s, NEW a \in TechnicalAnalysts
        PROVE  \E f, O : AnalyzeSnapshot(s)[a] = TechnicalResult(f, O)
    <3>1. \A f : \E O : TrendAnalyst(f) = TechnicalResult(f, O)
      BY Zenon DEF TrendAnalyst
    <3>2. \A f : \E O : MarketStructureAnalyst(f) = TechnicalResult(f, O)
      BY Zenon DEF MarketStructureAnalyst
    <3>3. \A f : \E O : VolatilityAnalyst(f) = TechnicalResult(f, O)
      BY Zenon DEF VolatilityAnalyst
    <3>4. \A f : \E O : MomentumAnalyst(f) = TechnicalResult(f, O)
      BY Zenon DEF MomentumAnalyst
    <3>5. \A f : \E O : MovingAverageAnalyst(f) = TechnicalResult(f, O)
      BY Zenon DEF MovingAverageAnalyst
    <3>6. \A f : \E O : CandleStructureAnalyst(f) = TechnicalResult(f, O)
      BY Zenon DEF CandleStructureAnalyst
    <3>7. \A f : \E O : RangeStateAnalyst(f) = TechnicalResult(f, O)
      BY Zenon DEF RangeStateAnalyst
    <3> QED
      BY <3>1, <3>2, <3>3, <3>4, <3>5, <3>6, <3>7 DEF AnalyzeSnapshot, TechnicalAnalysts
  <2>3. \A t \in DOMAIN results : results[t] = AnalyzeSnapshot(m.snapshots[t]) /\ DOMAIN results[t] = TechnicalAnalysts
    BY DEF AnalyzeSnapshot
  <2> HIDE DEF results
  <2> QED
    BY <2>1, <2>2, <2>3
<1> HIDE DEF results, technical
<1>6. ASSUME NEW t \in DOMAIN results, NEW a \in DOMAIN results[t]
      PROVE  /\ ResultIsConsistent(results[t][a])
             /\ <<a, t>> \in IF results[t][a].status = "ANALYZED" THEN technical.analyzed ELSE technical.abstained
  <2> DEFINE c == <<a, t>>
  <2>1. c \in TechnicalAnalysts \X DOMAIN results /\ c[1] = a /\ c[2] = t
    BY <1>5
  <2>2. Abstained.status = "ABSTAINED" /\ Abstained.observations = {} /\ Abstained.quality = "UNAVAILABLE"
    BY DEF Abstained
  <2>3. CASE results[t][a] = Abstained
    <3>1. c \in TechnicalCells(results, "ABSTAINED")
      BY <2>1, <2>2, <2>3 DEF TechnicalCells
    <3> QED
      BY <1>2, <2>2, <2>3, <3>1 DEF ResultIsConsistent
  <2>4. CASE results[t][a].status = "ANALYZED"
    <3>1. c \in TechnicalCells(results, "ANALYZED")
      BY <2>1, <2>4 DEF TechnicalCells
    <3> QED
      BY <1>2, <2>4, <3>1 DEF ResultIsConsistent
  <2> QED
    BY <1>5, <2>3, <2>4
<1>7. technical.analyzed \cap technical.abstained = {}
  BY <1>2 DEF TechnicalCells
<1>8. ASSUME NEW c \in technical.coherence
      PROVE  c = TallyGroup(results, c.dimension, c.subject)
  <2>1. PICK s : c = TallyGroup(results, c.dimension, s)
    BY <1>2, <1>3, EntriesFound
  <2>2. TallyGroup(results, c.dimension, s).subject = s
    BY DEF TallyGroup
  <2> QED
    BY <2>1, <2>2
<1>9. \A c, d \in technical.coherence : c.dimension = d.dimension /\ c.subject = d.subject => c = d
  BY <1>8
<1>10. ASSUME NEW c \in technical.coherence
       PROVE  IF c.verdict = "INSUFFICIENT_DATA" THEN c.timeframes = {}
              ELSE /\ Cardinality(c.timeframes) >= 2
                   /\ \A t \in c.timeframes :
                        Cardinality({o \in Observations(results, t) :
                                       o.dimension = c.dimension /\ o.subject = c.subject}) = 1
  <2> DEFINE d == c.dimension
             s == c.subject
             V == Voices(results, d, s)
             T == {v.of : v \in V}
  <2>1. CASE c.verdict = "INSUFFICIENT_DATA"
    <3>1. \A e, u : TallyGroup(results, e, u).verdict = "INSUFFICIENT_DATA" => TallyGroup(results, e, u).timeframes = {}
      BY DEF TallyGroup
    <3> QED
      BY <1>8, <2>1, <3>1
  <2>2. CASE c.verdict # "INSUFFICIENT_DATA"
    <3>1. IsTally(c, results, d, s)
      <4>1. IsTally(TallyGroup(results, d, s), results, d, s)
        BY <1>2, <1>3, TalliedVoices
      <4> QED
        BY <1>8, <4>1
    <3>2. Heard(results, d, s) /\ c.timeframes = T
      BY <2>2, <3>1 DEF IsTally
    <3>3. IsFiniteSet(V) /\ \E v, w \in V : v.of # w.of
      BY <1>2, <1>3, <3>2, VoicesAreFew
    <3>4. IsFiniteSet(T)
      <4> DEFINE f == [v \in V |-> v.of]
      <4> HIDE DEF V
      <4>1. f \in Surjection(V, T)
        BY DEF Surjection
      <4> QED
        BY <3>3, <4>1, FS_Surjection
    <3>5. Cardinality(T) >= 2
      <4>1. \E x, y \in T : x # y
        BY <3>3
      <4> HIDE DEF T
      <4> QED
        BY <3>4, <4>1, TwoOrMore
    <3>6. ASSUME NEW t \in T
          PROVE  Cardinality({o \in Observations(results, t) : o.dimension = d /\ o.subject = s}) = 1
      <4> DEFINE O == {o \in Observations(results, t) : o.dimension = d /\ o.subject = s}
      <4>1. PICK v \in V : v.of = t
        BY <3>6
      <4>2. t \in DOMAIN results /\ v.said \in O
        BY <4>1, Voiced
      <4>3. \A o, p \in O : o = p
        BY <1>2, <1>3, <4>2 DEF IsEvidence
      <4> HIDE DEF O
      <4>4. O = {v.said}
        BY <4>2, <4>3
      <4> HIDE DEF V, T
      <4>5. Cardinality(O) = 1
        BY <4>4, FS_Singleton
      <4> QED
        BY <4>5 DEF O
    <3> QED
      BY <2>2, <3>2, <3>5, <3>6
  <2> QED
    BY <2>1, <2>2
<1>11. TechnicalAggregateIsValid(technical, Timeframes)
  BY <1>2, <1>4, <1>6, <1>7, <1>9, <1>10 DEF TechnicalAggregateIsValid
<1> QED
  BY <1>11 DEF technical

\* The evidence and the judgements of a market, stage by stage.
DirectionInv ==
    /\ pipeline.stage = "FACTS" => IsMarket(market)
    /\ pipeline.stage \in {"EVIDENCE", "JUDGED", "SETUP", "SHARED", "DONE"} => IsEvidence(market.technical)
    /\ pipeline.stage \in {"JUDGED", "SETUP", "SHARED", "DONE"} => pipeline.judged = Judgements(market)
    /\ pipeline.stage \in {"SETUP", "SHARED", "DONE"} => pipeline.setups = Construct(market, pipeline.judged)

LEMMA DirectionStep == DirectionInv /\ [TradeNext]_tradeVars => DirectionInv'
<1> SUFFICES ASSUME DirectionInv, [TradeNext]_tradeVars
             PROVE  DirectionInv'
  OBVIOUS
<1>1. CASE AnalyzeTechnical
  <2>1. IsMarket(market) /\ market' = WithEvidence(market)
    BY <1>1 DEF AnalyzeTechnical, DirectionInv
  <2>2. IsEvidence(market'.technical)
    BY <2>1, EvidenceOfMarket
  <2> QED
    BY <1>1, <2>2 DEF AnalyzeTechnical, DirectionInv, Raised
<1>2. CASE JudgeMarket
  BY <1>2 DEF JudgeMarket, DirectionInv, Raised, Judgements
<1>3. CASE ConstructSetups
  BY <1>3 DEF ConstructSetups, DirectionInv, Raised, Judgements
<1>4. CASE BlockBeforeRisk
  BY <1>4 DEF BlockBeforeRisk, DirectionInv, Judgements
<1>5. CASE ShareRisk
  BY <1>5 DEF ShareRisk, DirectionInv, Raised, Judgements
<1>6. CASE Recommend
  BY <1>6 DEF Recommend, DirectionInv, Judgements
<1>7. CASE UNCHANGED tradeVars
  BY <1>7 DEF tradeVars, DirectionInv, Judgements
<1> QED
  BY <1>1, <1>2, <1>3, <1>4, <1>5, <1>6, <1>7 DEF TradeNext

LEMMA Direction == TradeInv /\ DirectionInv => DirectionIsUncontested
<1> SUFFICES ASSUME TradeInv, DirectionInv, Done, NEW f \in DOMAIN pipeline.advice
             PROVE  /\ StandsOn(market.technical.results, WayOf(pipeline.advice[f].direction), PrimaryOf(f))
                    /\ Unopposed(market.technical.results, WayOf(pipeline.advice[f].direction), VetoOf(f))
  BY Zenon DEF DirectionIsUncontested
<1> DEFINE j == pipeline.judged[f]
<1>1. /\ f \in StrategyFamilies /\ f \in DOMAIN pipeline.judged /\ PassesPolicy(j)
      /\ pipeline.setups[f].outcome = "CONSTRUCTED" /\ market.account # NoAccount
  BY AdvisedTrade DEF PassesGates
<1>2. /\ IsEvidence(market.technical) /\ j = Judge(market, f)
      /\ pipeline.setups = Construct(market, pipeline.judged)
  BY <1>1 DEF DirectionInv, Done, Judgements
<1>3. pipeline.advice = Recommendations(market, pipeline.setups, pipeline.shares)
  BY <1>1 DEF TradeInv, Done
<1>4. pipeline.advice[f].direction = pipeline.setups[f].direction
  BY <1>3 DEF Recommendations, Recommendation
<1>5. /\ f \notin {"MEAN_REVERSION", "EVENT_DRIVEN"}
      /\ pipeline.setups[f] = ConstructStructural(market, f, j.direction)
  BY <1>1, <1>2 DEF Construct, SetupBlocked
<1>6. pipeline.setups[f].direction = j.direction
  BY <1>1, <1>5 DEF ConstructStructural, SetupBlocked
<1>7. CASE f = "TREND_FOLLOWING"
  <2>1. j = JudgeTrendFollowing(market.technical)
    BY <1>2, <1>7 DEF Judge
  <2> QED
    BY <1>1, <1>2, <1>4, <1>6, <1>7, <2>1, TrendDirection
<1>8. CASE f = "BREAKOUT"
  <2>1. j = JudgeBreakout(market.technical)
    BY <1>2, <1>8 DEF Judge
  <2> QED
    BY <1>1, <1>2, <1>4, <1>6, <1>8, <2>1, BreakoutDirection
<1> QED
  BY <1>1, <1>5, <1>7, <1>8 DEF StrategyFamilies

\* No recommendation goes against timeframes that agree, nor on evidence that is
\* stale or contradicts itself (judge.py, gate.py): for every market and every
\* finite set of timeframes, in the pipeline alone and in the cycle that reports it.
THEOREM TradeDirection == TradeSpec => []DirectionIsUncontested
<1>1. TradeInit => TradeInv /\ DirectionInv
  BY MarketsAssumption DEF TradeInit, TradeInv, DirectionInv
<1> QED
  BY <1>1, TradeStep, DirectionStep, Direction, PTL DEF TradeSpec

THEOREM CycleDirection == ReportSpec => []DirectionIsUncontested
<1>1. ReportInit => TradeInv /\ DirectionInv
  BY CyclesAssumption DEF ReportInit, TradeInv, DirectionInv
<1> QED
  BY <1>1, TradeStep, DirectionStep, ReportStepsTrade, Direction, PTL DEF ReportSpec

\* A judgement that its model refuses is the one of news providers that disagree.
LEMMA JudgementsAreValid ==
    ASSUME NEW m, IsEvidence(m.technical), m.external # NoContour => IsExternal(m.external),
           NEW f \in EligibleFamilies(m)
    PROVE  \/ JudgementIsValid(Judge(m, f))
           \/ \E r \in AlignedScopes(m) : ResolveNews(r).conflict /\ Cardinality(ResolveNews(r).refs) < 2
<1>1. f \in StrategyFamilies
  BY DEF EligibleFamilies
<1>2. CASE f = "TREND_FOLLOWING"
  BY <1>2, TrendJudgement DEF Judge
<1>3. CASE f = "BREAKOUT"
  BY <1>3, BreakoutJudgement DEF Judge
<1>4. CASE f = "EVENT_DRIVEN"
  BY <1>4, EventJudgement DEF Judge
<1>5. CASE f = "MEAN_REVERSION"
  BY <1>5, ValidJudgements DEF Judge
<1> QED
  BY <1>1, <1>2, <1>3, <1>4, <1>5 DEF StrategyFamilies

LEMMA AnswersStep == TradeInv /\ DirectionInv /\ PipelineAnswers /\ [TradeNext]_tradeVars => PipelineAnswers'
<1> SUFFICES ASSUME TradeInv, DirectionInv, PipelineAnswers, [TradeNext]_tradeVars, pipeline'.stage = "RAISED"
             PROVE  \E r \in AlignedScopes(market)' : (ResolveNews(r).conflict /\ Cardinality(ResolveNews(r).refs) < 2)'
  BY DEF PipelineAnswers
<1>1. CASE AnalyzeTechnical
  <2>1. IsMarket(market) /\ market' = WithEvidence(market)
    BY <1>1 DEF AnalyzeTechnical, DirectionInv
  <2>2. TechnicalAggregateIsValid(market'.technical, Timeframes)
    BY <2>1, AggregateIsValid
  <2> QED
    BY <1>1, <2>2 DEF AnalyzeTechnical, Raised
<1>2. CASE JudgeMarket
  <2>1. /\ IsEvidence(market.technical) /\ (market.external # NoContour => IsExternal(market.external))
        /\ market' = market
    BY <1>2 DEF JudgeMarket, DirectionInv, TradeInv, IsPrepared
  <2>2. PICK f \in EligibleFamilies(market) : ~JudgementIsValid(Judge(market, f))
    <3>1. ~\A f \in DOMAIN Judgements(market) : JudgementIsValid(Judgements(market)[f])
      BY <1>2 DEF JudgeMarket
    <3> QED
      BY <3>1 DEF Judgements
  <2>3. \E r \in AlignedScopes(market) : ResolveNews(r).conflict /\ Cardinality(ResolveNews(r).refs) < 2
    BY <2>1, <2>2, JudgementsAreValid
  <2> QED
    BY <2>1, <2>3 DEF AlignedScopes, ResolveNews
<1>3. CASE ConstructSetups
  <2>1. AreSetups(market, pipeline.judged, Construct(market, pipeline.judged))
    BY <1>3, Setups DEF ConstructSetups, TradeInv
  <2>2. \A f \in DOMAIN Construct(market, pipeline.judged) : SetupIsValid(Construct(market, pipeline.judged)[f])
    BY <2>1 DEF AreSetups, IsSetup
  <2> QED
    BY <1>3, <2>2 DEF ConstructSetups
<1>4. CASE BlockBeforeRisk
  BY <1>4 DEF BlockBeforeRisk
<1>5. CASE ShareRisk
  <2> DEFINE risks == RiskShares(market, pipeline.judged, pipeline.setups)
             portfolios == PortfolioShares(market, risks)
             shares == SessionShares(market, portfolios)
             p == [stage |-> "SHARED", judged |-> pipeline.judged, setups |-> pipeline.setups,
                   risks |-> risks, portfolios |-> portfolios, shares |-> shares]
  <2>1. /\ IsPrepared(market) /\ DOMAIN p.judged \subseteq StrategyFamilies
        /\ AreSetups(market, p.judged, p.setups) /\ market.account # NoAccount
    BY <1>5 DEF ShareRisk, TradeInv
  <2>2. IsShared(market, p)
    BY <2>1 DEF IsShared
  <2>3. pipeline' = IF SharesAreValid(market, shares) THEN p ELSE Raised
    BY <1>5 DEF ShareRisk
  <2>4. p.shares = shares /\ p.stage = "SHARED"
    OBVIOUS
  <2> HIDE DEF p, shares
  <2>5. SharesAreValid(market, shares)
    BY <2>1, <2>2, <2>4, SharesFit
  <2> QED
    BY <2>3, <2>4, <2>5
<1>6. CASE Recommend
  BY <1>6 DEF Recommend
<1>7. CASE UNCHANGED tradeVars
  BY <1>7 DEF tradeVars, PipelineAnswers, AlignedScopes, ResolveNews
<1> QED
  BY <1>1, <1>2, <1>3, <1>4, <1>5, <1>6, <1>7 DEF TradeNext

\* No result on the way is refused by its own validators, but a MIXED judgement of
\* news that cites one provider (the validators of app/technical_supervisor, app/judge,
\* app/decision, app/risk and app/diversification): for every market and configuration,
\* in the pipeline alone and in the cycle that reports it.
THEOREM TradeAnswers == TradeSpec => []PipelineAnswers
<1>1. TradeInit => TradeInv /\ DirectionInv /\ PipelineAnswers
  BY MarketsAssumption DEF TradeInit, TradeInv, DirectionInv, PipelineAnswers
<1> QED
  BY <1>1, TradeStep, DirectionStep, AnswersStep, PTL DEF TradeSpec

THEOREM CycleAnswers == ReportSpec => []PipelineAnswers
<1>1. ReportInit => TradeInv /\ DirectionInv /\ PipelineAnswers
  BY CyclesAssumption DEF ReportInit, TradeInv, DirectionInv, PipelineAnswers
<1> QED
  BY <1>1, TradeStep, DirectionStep, AnswersStep, ReportStepsTrade, PTL DEF ReportSpec

===============================================================================
