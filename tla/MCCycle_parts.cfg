SPECIFICATION PartsSpec
CONSTANTS
    v1 = v1
    v2 = v2
    Horizon = 8
    Events <- TwoEvents
    EventTimes <- FirstSlots
    Kinds <- CpiOrFomc
    OffsetAt = 2
    Offsets <- BackOrForward
    Exposures <- Dollar
    BaseAsset = "BTC"
    Overrides <- NoCodes
    NoCalendar = NoCalendar

    k1 = k1
    MaxTime = 3
    DayLength = 2
    ShiftAt = 2
    Shifts <- ForwardAndBack
    Hours <- TwoHours
    Lags <- OnTimeOrBehind
    Equities <- UpToTwoUnits
    Tickets <- OneTicket
    PositionShapes <- OneLong
    Prices <- OnePrice
    NoState = NoState
    NoFile = NoFile
    BadFile = BadFile

    LeftBars = 1
    RightBars = 1
    TrendLookback = 2
    RangeLookback = 2
    AtrPeriod = 2
    RocPeriod = 2
    RsiPeriod = 2
    AveragePeriods = {2, 3}
    Frames <- TheFrames
    Bucket = 2
    FetchLimit = 6
    RawLookback = 5
    CandleCapacity = 5
    AmbiguousHours = {6}
    Shapes <- LiveShapes
    LastHour = 6
    FirstHour = 5
    Histories <- TheHistories
    NoSnapshot = NoSnapshot

    Staleness = 1
    Proximity = 1
    Recency = 1
    EventFeed <- TheEvents
    RateFeed <- TheRates
    ItemFeed <- TheItems
    SentimentFeed <- TheOpinions
    ChainFeed <- TheChain
    NewsSymbol = "BTC"
    LogCapacity = 2
    LastMoment = 2

    Windows = {2, 4}
    Bands <- TopTwoAndWide
    BookStaleness = 1
    SlowStaleness = 2
    FlowCapacity <- TwoEach
    SnapshotCapacity = 2
    FlowEvents <- FlowKindEvents
    FeedGroups <- OneFeed
    MaxEvents = 3
    LastTick = 4
    NoFlow = NoFlow

    NoContour = NoContour
    NoStructure = NoStructure
    NoSymbol = NoSymbol
    NoAccount = NoAccount
    DecisionSymbol = "BTC"
    DecisionExposures = {"USD"}
    Markets <- TheMarkets
    Timeframes = {"M15", "H1"}
    SetupTimeframe = "M15"
    MirrorSum = 10
    DailyPct = 3
    PerTradePct = 2
    PortfolioPct = 4
    TargetPct = 6
    Cycles <- TheCycles
    FamilyOrder <- TheFamilies
    TradeOrder <- TheTrades
SYMMETRY EventSymmetry
INVARIANTS
    FreshVerdictIsTrue
    FactsAreOfOneDay
    BaselineIsKept
    OnlyEmptyAccountsRaise
    StoredCandlesAreFinal
    MirroredSeriesIsMirrored
    RevisionsAreCompared
    FlowIsTrue
    MirroredMarketIsMirrored
    RiskStaysInBudget
    DirectionIsUncontested
    PipelineAnswers
    EveryFamilyIsAnswered
    IssuedCyclesAreAnswered
PROPERTIES
    StructureIsNotRepainted
CHECK_DEADLOCK FALSE
