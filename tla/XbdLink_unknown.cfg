CONSTANTS
    Requests <- MCUnknown
    Results <- MCResults
    SendMax = 1
    AnswerMax = 1
    ReplyMax = 2
    Watchdog = TRUE
    XbdMayHang = FALSE
    MaxCmds = 2
    MaxFaults = 0
SPECIFICATION FairSpec
PROPERTIES
    HandleReturns
CHECK_DEADLOCK FALSE
