CONSTANTS
    Requests <- MCRequests
    Results <- MCResults
    SendMax = 1
    AnswerMax = 1
    ReplyMax = 2
    Watchdog = TRUE
    XbdMayHang = TRUE
    MaxCmds = 3
    MaxFaults = 2
SPECIFICATION FairSpec
INVARIANTS
    TypeOK
    DownloadArrived
    UploadExact
    ExecutedOnce
    ModeReached
    AnswerFresh
PROPERTIES
    AlwaysReady
    ResetEarned
CHECK_DEADLOCK FALSE
