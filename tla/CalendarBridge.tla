---------------------------- MODULE CalendarBridge ----------------------------
(***************************************************************************)
(* The way of a high-impact event from the broker's calendar to the        *)
(* verdict of a cycle: the expert HighImpactCalendarBridge.mq5 exports the *)
(* calendar to a file, read_high_impact_event_context                      *)
(* (app/high_impact_event_bridge/file_reader.py) reads it, and             *)
(* HighImpactEventGate (app/decision/high_impact_event_gate.py) holds the  *)
(* setups of the cycle against it.                                         *)
(*                                                                         *)
(* The two processes share the file and nothing else.  Time is counted in  *)
(* slots of five minutes, so that every window of the code is a number.    *)
(***************************************************************************)
EXTENDS Integers, FiniteSets, FiniteSetsExt

CONSTANTS
    Horizon,     \* bound: the clock
    Events,      \* entries of the broker's calendar
    EventTimes,  \* bound: when they may be scheduled
    Kinds,       \* code and importance an entry may have
    OffsetAt,    \* when the trade server's time zone changes its offset
    Offsets,     \* by how much: none, forward, back
    Exposures,   \* currency_exposures of the instrument
    BaseAsset,   \* and its base_asset
    Overrides,   \* event codes configured for its symbol
    NoCalendar   \* no file

ASSUME CalendarAssumption ==
    /\ {Horizon, OffsetAt} \subseteq Nat
    /\ EventTimes \cup Offsets \subseteq Int
    /\ Kinds \subseteq [code : STRING, importance : 0 .. 3]

\* InpPastMinutes, InpFutureHours, CALENDAR_STALENESS_THRESHOLD_DEFAULT,
\* SIGNAL_EXECUTION_WINDOW and the windows of the gate, in slots.
LookBack == 6
LookAhead == 576
CalendarStaleness == 3
ExecutionWindow == 1
BlockPre == 1
BlockPost == 1
WarnPre == 3
WarnPost == 2

VARIABLES
    clock,     \* UTC
    offset,    \* the change of the server's offset in this run
    calendar,  \* kind and instant of each entry
    expert,    \* the expert advisor
    bridge,    \* the published file
    verdict    \* the cycle that reads it, and what it found

calendarVars == <<clock, offset, calendar, expert, bridge, verdict>>

----------------------------------------------------------------------------
\* The event map of the expert and the tables of the gate.

UsdCodes ==
    {"FOMC", "US_CPI", "US_CORE_CPI", "US_PCE", "US_CORE_PCE", "US_NFP",
     "US_UNEMPLOYMENT", "US_GDP", "US_ISM", "US_MAJOR_PMI"}
EurCodes == {"ECB_RATE_DECISION", "EUROZONE_CPI"}
GbpCodes == {"BOE_RATE_DECISION", "UK_CPI"}
JpyCodes == {"BOJ_RATE_DECISION"}
SymbolCodes == {"EIA_CRUDE_INVENTORIES"}
WarnOnlyCodes == {"US_GDP", "US_ISM", "US_MAJOR_PMI"}
AllowlistedCodes == UsdCodes \cup EurCodes \cup GbpCodes \cup JpyCodes \cup SymbolCodes
HardBlockCodes == AllowlistedCodes \ WarnOnlyCodes

Low == 1
Moderate == 2
High == 3

InstrumentScopeTags ==
    (Exposures \cap {"USD", "EUR", "GBP", "JPY"})
        \cup (IF BaseAsset \in {"BTC", "ETH"} THEN {"USD"} ELSE {})

InScope(code) ==
    \/ code \in UsdCodes /\ "USD" \in InstrumentScopeTags
    \/ code \in EurCodes /\ "EUR" \in InstrumentScopeTags
    \/ code \in GbpCodes /\ "GBP" \in InstrumentScopeTags
    \/ code \in JpyCodes /\ "JPY" \in InstrumentScopeTags

IsRelevant(kind) ==
    /\ kind.importance > Low
    /\ kind.code \in AllowlistedCodes
    /\ IF kind.code \in SymbolCodes THEN kind.code \in Overrides ELSE InScope(kind.code)

IsHardBlockEligible(kind) ==
    /\ kind.code \in HardBlockCodes
    /\ kind.importance >= (IF kind.code = "FOMC" THEN Moderate ELSE High)

Overlaps(from, until, start, end) == from < end /\ until > start

Blocks(kind, at, from, until) ==
    IsHardBlockEligible(kind) /\ Overlaps(from, until, at - BlockPre, at + BlockPost)

Warns(at, from, until) == Overlaps(from, until, at - WarnPre, at + WarnPost)

----------------------------------------------------------------------------
\* Trade server time and back.

ServerTime(t) == t + (IF t >= OffsetAt THEN offset ELSE 0)

\* The instants a naive server time stands for.
Instants(w) == {t \in {w, w - offset} : ServerTime(t) = w}

\* resolve_unambiguous_utc raises unless there is exactly one.
CanResolve(w) == Cardinality(Instants(w)) = 1

Resolve(w) == CHOOSE t \in Instants(w) : TRUE

----------------------------------------------------------------------------
\* The expert: PublishHighImpactCalendarSnapshot.

\* Its records: the entries of the window that the event map knows.
Exported(cal) ==
    {[kind |-> cal[e].kind, server |-> ServerTime(cal[e].at)] :
        e \in {e \in Events :
                 /\ cal[e].kind.code \in AllowlistedCodes
                 /\ ServerTime(clock) - LookBack <= ServerTime(cal[e].at)
                 /\ ServerTime(cal[e].at) <= ServerTime(clock) + LookAhead}}

\* CalendarValueHistory answers, and the events are put together; one that
\* the terminal cannot look up is left out like one that the map does not
\* know.  A query that fails leaves everything as it is.  queried is not in
\* the file: it is what the file is to be held against.
QueryCalendar ==
    /\ expert.stage = "IDLE"
    /\ expert' = [stage |-> "QUERIED", records |-> Exported(calendar), queried |-> clock]
    /\ UNCHANGED <<clock, offset, calendar, bridge, verdict>>

\* generated_at is taken, and the text written to the temporary file: to the
\* end, or not, for the result of FileWriteArray is not looked at.
WriteTemporary ==
    /\ expert.stage = "QUERIED"
    /\ \E whole \in BOOLEAN :
         expert' = [stage |-> "WRITTEN",
                    text |-> [whole |-> whole, generated |-> clock,
                              records |-> IF whole THEN expert.records ELSE {},
                              queried |-> expert.queried]]
    /\ UNCHANGED <<clock, offset, calendar, bridge, verdict>>

\* FileMove is no atomic replacement: the target may be gone for a moment.
RemoveTarget ==
    /\ expert.stage = "WRITTEN"
    /\ bridge # NoCalendar
    /\ bridge' = NoCalendar
    /\ UNCHANGED <<clock, offset, calendar, expert, verdict>>

MoveIntoPlace ==
    /\ expert.stage = "WRITTEN"
    /\ bridge' = expert.text
    /\ expert' = [stage |-> "IDLE"]
    /\ UNCHANGED <<clock, offset, calendar, verdict>>

\* FileOpen or FileMove fails, or the terminal stops: until the next timer or
\* the next start nothing is published.
AbandonPublication ==
    /\ expert.stage # "IDLE"
    /\ expert' = [stage |-> "IDLE"]
    /\ UNCHANGED <<clock, offset, calendar, bridge, verdict>>

----------------------------------------------------------------------------
\* The cycle.

\* Wrong: a file that cannot be parsed is taken for one without events.
FileQualityOfTorn(asOf) ==
    CASE \E r \in bridge.records : ~CanResolve(r.server) -> "MALFORMED"
      [] asOf - bridge.generated > CalendarStaleness -> "STALE"
      [] OTHER -> "FRESH"

\* A file that is not whole is no JSON, and one event that cannot be
\* converted makes the whole file malformed.
FileQuality(asOf) ==
    CASE ~bridge.whole \/ \E r \in bridge.records : ~CanResolve(r.server) -> "MALFORMED"
      [] asOf - bridge.generated > CalendarStaleness -> "STALE"
      [] OTHER -> "FRESH"

\* read_high_impact_event_context: a file that is not FRESH gives no events.
ContextQuality(asOf) == IF bridge = NoCalendar THEN "UNAVAILABLE" ELSE FileQuality(asOf)

ContextEvents(asOf) ==
    IF ContextQuality(asOf) = "FRESH"
    THEN {[kind |-> r.kind, at |-> Resolve(r.server)] : r \in bridge.records}
    ELSE {}

\* _evaluate_family: the worst verdict of the relevant events.
EvaluateFamily(events, from, until) ==
    LET relevant == {e \in events : IsRelevant(e.kind)}
        blocking == {e \in relevant : Blocks(e.kind, e.at, from, until)}
    IN  IF blocking # {}
        THEN [verdict |-> "BLOCKED", safe |-> Max({e.at + BlockPost : e \in blocking})]
        ELSE [verdict |-> IF \E e \in relevant : Warns(e.at, from, until) THEN "WARNED" ELSE "ALLOWED",
              safe |-> from]

\* as_of is the moment of the request, which then waits for the cycle lock.
\* One cycle, for a cycle leaves nothing behind here.
RequestVerdict ==
    /\ verdict.stage = "NONE"
    /\ verdict' = [stage |-> "ASKED", asOf |-> clock]
    /\ UNCHANGED <<clock, offset, calendar, expert, bridge>>

\* Every setup of the cycle is good from as_of for the execution window.
ReachVerdict ==
    /\ verdict.stage = "ASKED"
    /\ LET asOf == verdict.asOf
           family == EvaluateFamily(ContextEvents(asOf), asOf, asOf + ExecutionWindow)
       IN  verdict' = [stage |-> "REACHED", asOf |-> asOf, quality |-> ContextQuality(asOf),
                       verdict |-> family.verdict, safe |-> family.safe]
    /\ UNCHANGED <<clock, offset, calendar, expert, bridge>>

----------------------------------------------------------------------------

TimePasses ==
    /\ clock < Horizon
    /\ clock' = clock + 1
    /\ UNCHANGED <<offset, calendar, expert, bridge, verdict>>

CalendarInit ==
    /\ clock = 0
    /\ offset \in Offsets
    /\ calendar \in [Events -> [kind : Kinds, at : EventTimes]]
    /\ expert = [stage |-> "IDLE"]
    /\ bridge = NoCalendar
    /\ verdict = [stage |-> "NONE"]

\* Bound: a run ends with its verdict.
CalendarNext ==
    /\ verdict.stage # "REACHED"
    /\ \/ QueryCalendar \/ WriteTemporary \/ RemoveTarget \/ MoveIntoPlace \/ AbandonPublication
       \/ RequestVerdict \/ ReachVerdict \/ TimePasses

CalendarSpec == CalendarInit /\ [][CalendarNext]_calendarVars

----------------------------------------------------------------------------

\* The entries of the calendar the file was made from that stop a setup of
\* this cycle, by the rules of the gate.
BlackoutEvents ==
    {e \in Events :
        LET ev == calendar[e]
        IN  /\ IsRelevant(ev.kind)
            /\ ev.kind.code \in HardBlockCodes
            /\ ev.kind.importance = High \/ (ev.kind.code = "FOMC" /\ ev.kind.importance = Moderate)
            /\ ev.at - BlockPre < verdict.asOf + ExecutionWindow
            /\ verdict.asOf < ev.at + BlockPost}

\* The export window is counted in server time: it misses what a change of
\* the server's offset between the query and the event moves out of it.
SameSideOfChange(e) ==
    offset = 0 \/ ((calendar[e].at >= OffsetAt) <=> (bridge.queried >= OffsetAt))

\* The moment of the cycle lies in the window the file was exported for.  A
\* cycle that waits for more than the half hour the expert looks back finds a
\* file without the events of its own moment, and an age that is negative is
\* FRESH (file_reader.py:195); nothing in the code bounds the wait.
ExportCoversCycle ==
    /\ bridge.queried - LookBack <= verdict.asOf
    /\ verdict.asOf + ExecutionWindow <= bridge.queried + LookAhead

\* A calendar that counts as FRESH is complete and true to the instant: the
\* gate blocks a setup exactly when an event of the calendar it was exported
\* from is near, and next_safe_time lies behind every event that blocks, so
\* that the trader who waits for it is not caught by a second one.  This
\* holds whatever happens between the query, the two files, the reader and
\* the clock, as long as the export covers the cycle, and across a change of
\* the server's offset; a file that is torn, missing or old never passes for a
\* calendar without events.
FreshVerdictIsTrue ==
    verdict.stage = "REACHED" /\ verdict.quality = "FRESH" =>
        LET blackouts == {e \in BlackoutEvents : ExportCoversCycle /\ SameSideOfChange(e)}
        IN  /\ blackouts # {} => verdict.verdict = "BLOCKED"
            /\ verdict.verdict = "BLOCKED" =>
                 /\ BlackoutEvents # {}
                 /\ verdict.safe > verdict.asOf
                 /\ \A e \in blackouts : calendar[e].at + BlockPost <= verdict.safe

==============================================================================
