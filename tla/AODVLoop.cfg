SPECIFICATION Spec
CONSTANTS
    Node = {"A", "B", "C"}
    Links <- Everywhere
    InitialLinks <- Chain
    Traffic <- Crossing
    rreqRetries = 2
    ttlStart = 2
    ttlIncrement = 2
    ttlThreshold = 2
    netDiameter = 2
    rreqRatelimit = 10
    rerrRatelimit = 10
    askGratuitousRREP = FALSE
    MaxRreq = 3
    MaxInFlight = 0
    MaxFaults = 1
INVARIANT LoopFree
CHECK_DEADLOCK FALSE
