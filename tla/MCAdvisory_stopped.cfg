SPECIFICATION Spec
CONSTANTS
    p1 = p1
    p2 = p2
    r1 = r1
    r2 = r2
    r3 = r3
    a = a
    b = b
    c = c
    trend = trend
    breakout = breakout
    Procs <- OneProc
    Requests <- ThreeRequests
    Ids <- TwoIds
    Families <- OneFamily
    NoFamily = NoFamily
    Drains = FALSE
    Crashes = FALSE
    DiskFaults = TRUE
    ReceiptsVanish = FALSE
PROPERTIES
    BeginsOnlyWhenStarted
CHECK_DEADLOCK FALSE
