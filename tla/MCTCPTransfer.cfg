SPECIFICATION Spec
CONSTANTS
    Half = 32
    RcvWnd = 3
    MAX_REXMIT_COUNT = 1
    MAX_SYN_REXMIT_COUNT = 12
    DUPTHRESH = 1
    MSL2 = 1
    IssStep = 10
    InitialIss <- InitialIssDef
    Opens <- OpensDef
    SendIn <- SendInDef
    CloseIn <- CloseInDef
    AbortIn <- AbortInDef
    MaxSend <- MaxSendDef
    Windows = {2}
    MaxLoss = 1
    MaxSynRexmit = 0
    Patient = {"SETUP", "2MSL"}
INVARIANTS
    TypeOK
    NothingLost
    FinAfterAllData
    SequenceOrder
PROPERTIES
    ImplementsReliableStream
CHECK_DEADLOCK FALSE
