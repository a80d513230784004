SPECIFICATION FairSpec
CONSTANTS
    Node = {"A", "B", "C"}
    Links <- Everywhere
    InitialLinks <- Chain
    Traffic <- BothWays
    rreqRetries = 1
    ttlStart = 2
    ttlIncrement = 1
    ttlThreshold = 2
    netDiameter = 2
    rreqRatelimit = 10
    rerrRatelimit = 10
    askGratuitousRREP = FALSE
    MaxRreq = 4
    MaxInFlight = 0
    MaxFaults = 1
INVARIANTS LoopFree NumbersNotAhead
PROPERTIES DataDelivered DiscoveriesEnd
CHECK_DEADLOCK FALSE
