SPECIFICATION FairSpec
CONSTANTS
    Half = 32
    RcvWnd = 3
    MAX_REXMIT_COUNT = 2
    MAX_SYN_REXMIT_COUNT = 12
    DUPTHRESH = 1
    MSL2 = 1
    IssStep = 10
    InitialIss <- InitialIssDef
    Opens <- OpensDef
    SendIn <- SendInDef
    CloseIn <- CloseInDef
    AbortIn <- AbortInDef
    MaxSend <- MaxSendDef
    Windows = {1}
    MaxLoss = 2
    MaxSynRexmit = 1
    Patient = {"SETUP", "REXMIT", "2MSL"}
PROPERTIES
    EventuallyClosed
CHECK_DEADLOCK FALSE
