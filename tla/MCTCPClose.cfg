SPECIFICATION Spec
CONSTANTS
    Half = 32
    RcvWnd = 3
    MAX_REXMIT_COUNT = 1
    MAX_SYN_REXMIT_COUNT = 12
    DUPTHRESH = 1
    MSL2 = 1
    IssStep = 10
    InitialIss <- InitialIssDef
    Opens <- OpensDef
    SendIn <- SendInDef
    CloseIn <- CloseInDef
    AbortIn <- AbortInDef
    MaxSend <- MaxSendDef
    Windows = {1}
    MaxLoss = 1
    MaxSynRexmit = 0
    Patient = {"SETUP", "REXMIT", "2MSL"}
INVARIANTS
    NoAssertionFails
    RexmitTimerExact
    TimersMatchState
    IndicationsWellFormed
CHECK_DEADLOCK FALSE
