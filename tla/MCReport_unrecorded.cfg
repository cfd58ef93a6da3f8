SPECIFICATION ReportSpec
CONSTANTS
    NoContour = NoContour
    NoStructure = NoStructure
    NoSymbol = NoSymbol
    NoAccount = NoAccount
    DecisionSymbol = "BTC"
    DecisionExposures = {"USD"}
    Markets <- TheMarkets
    Timeframes = {"M15", "H1"}
    SetupTimeframe = "M15"
    MirrorSum = 10
    DailyPct = 3
    PerTradePct = 2
    PortfolioPct = 4
    TargetPct = 6
    Cycles <- TheCycles
    FamilyOrder <- TheFamilies
    TradeOrder <- TheTrades
INVARIANTS
    UnrecordedIsNotExposed
CHECK_DEADLOCK FALSE
