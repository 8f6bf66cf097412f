CONSTANTS
    Requests <- MCUploads
    Results <- MCResults
    SendMax = 1
    AnswerMax = 1
    ReplyMax = 2
    Watchdog = FALSE
    XbdMayHang = FALSE
    MaxCmds = 4
    MaxFaults = 3
SPECIFICATION Spec
INVARIANTS
    UploadComplete
CHECK_DEADLOCK FALSE
