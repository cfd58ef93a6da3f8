------------------------------- MODULE MCCycle ------------------------------
(***************************************************************************)
(* The parts of an advisory cycle for TLC: the calendar, the account       *)
(* facts, the technical, flow and external evidence, and the pipeline with *)
(* its report.  They are side by side: one of them is at work in a         *)
(* behaviour, the others rest in their first state.  All that they share   *)
(* is the result of one handed to the next, and each part takes what it is *)
(* handed from all that it may be.                                         *)
(***************************************************************************)
EXTENDS MCReport, MCFacts, MCCalendar, MCSeries, MCHistory, MCFlow

VARIABLE part  \* the part at work

CalendarRests ==
    /\ clock = 0 /\ offset = 1
    /\ calendar = [e \in Events |-> [kind |-> CHOOSE k \in Kinds : TRUE, at |-> 1]]
    /\ expert = [stage |-> "IDLE"] /\ bridge = NoCalendar /\ verdict = [stage |-> "NONE"]

FactsRest ==
    /\ now = 0 /\ shift = 1 /\ rolloverHour = 0
    /\ file = NoFile /\ held = {} /\ dealt = {}
    /\ facts = Idle /\ watched = [hour |-> 0, key |-> 0] /\ reported = NoState

SeriesRest ==
    /\ hour = FirstHour /\ bars = [h \in {0} |-> [at |-> 0] @@ FirstShape]
    /\ asOf = FirstHour /\ reading = 0
    /\ store = [f \in {"H1", "H4"} |-> <<>>]
    /\ snapshots = [f \in {"H1", "H4"} |-> NoSnapshot]

HistoryRests ==
    /\ eventLog = <<>> /\ rateLog = <<>> /\ itemLog = <<>> /\ opinionLog = <<>> /\ chainLog = <<>>
    /\ liveFeed = "macro" /\ external = NoAggregate

FlowRests ==
    /\ ticks = 1 /\ feed = [k \in FlowKinds |-> <<>>] /\ alive = {}
    /\ wanted = NoFlow /\ paired = <<>> /\ flow = NoFlow

ReportRests ==
    /\ cycle = CycleOf("UNKNOWN")
    /\ market = MarketOf(<<>>, NoContour, NoSymbol, NoAccount, FALSE, FALSE, NoContour)
    /\ pipeline = [stage |-> "FACTS"] /\ report = [stage |-> "FOUND"]

PartsInit ==
    /\ part \in {"calendar", "facts", "series", "history", "flow", "report"}
    /\ IF part = "calendar" THEN CalendarInit ELSE CalendarRests
    /\ IF part = "facts" THEN FactsInit ELSE FactsRest
    /\ IF part = "series" THEN SeriesInit ELSE SeriesRest
    /\ IF part = "history" THEN HistoryInit ELSE HistoryRests
    /\ IF part = "flow" THEN FlowInit ELSE FlowRests
    /\ IF part = "report" THEN ReportInit ELSE ReportRests

CalendarPart ==
    part = "calendar" /\ CalendarNext /\ UNCHANGED <<part, factsVars, seriesVars, historyVars, flowVars, reportVars>>

FactsPart ==
    part = "facts" /\ FactsNext /\ UNCHANGED <<part, calendarVars, seriesVars, historyVars, flowVars, reportVars>>

SeriesPart ==
    part = "series" /\ SeriesNext /\ UNCHANGED <<part, calendarVars, factsVars, historyVars, flowVars, reportVars>>

HistoryPart ==
    part = "history" /\ HistoryNext /\ UNCHANGED <<part, calendarVars, factsVars, seriesVars, flowVars, reportVars>>

FlowPart ==
    part = "flow" /\ FlowNext /\ UNCHANGED <<part, calendarVars, factsVars, seriesVars, historyVars, reportVars>>

ReportPart ==
    part = "report" /\ ReportNext /\ UNCHANGED <<part, calendarVars, factsVars, seriesVars, historyVars, flowVars>>

PartsNext ==
    CalendarPart \/ FactsPart \/ SeriesPart \/ HistoryPart \/ FlowPart \/ ReportPart

partsVars ==
    <<part, calendarVars, factsVars, seriesVars, historyVars, flowVars, reportVars>>

PartsSpec == PartsInit /\ [][PartsNext]_partsVars

==============================================================================
