SPECIFICATION FairSpec
CONSTANTS
    h1 = h1
    h2 = h2
    r = r
    bc = bc
    Host = {h1, h2}
    Remote = {r}
    ProxyFor <- ProxyForDef
    Group = {bc}
    Unspecified = unspecified
    retryCount = 2
    MaxDatagram <- MaxDatagramDef
INVARIANTS
    OneTimerPerResolution
    QuietWhenDown
    MacIsRight
    RequestsBounded
    WaitingMeansPending
    PerNextHopFifo
PROPERTIES
    ImplementsNextHopQueue
    WaitingEnds
CHECK_DEADLOCK FALSE
