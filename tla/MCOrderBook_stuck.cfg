SPECIFICATION Spec
CONSTANTS
    bid = bid
    ask = ask
    t1 = t1
    t2 = t2
    t3 = t3
    Levels <- BothSides
    Quantities <- UpToTwoLots
    BookAt <- BookHistory
    Tasks <- TwoTasks
    FirstTask = t1
    MaxAttempts = 3
    BufferMax = 2
    StreamMax = 3
    MaxId = 4
    Disconnects = FALSE
    FetchFaults = FALSE
PROPERTIES
    NextEventRetries
CHECK_DEADLOCK FALSE
