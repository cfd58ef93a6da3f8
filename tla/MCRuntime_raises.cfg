SPECIFICATION RuntimeSpec
CONSTANTS
    market = market
    trades = trades
    depth = depth
    poller = poller
    Carriers <- OneCarrier
    StreamsOf <- TwoStreams
    OtherTasks = {poller}
    Poller = poller
    Book = depth
    NoConnection = NoConnection
    MaxResyncs = 1
    MaxDrops = 0
    MaxRefusals = 0
    MaxFaults = 1
INVARIANTS
    FailedDispatchIsNotRaised
CHECK_DEADLOCK FALSE
