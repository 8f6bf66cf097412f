CONSTANTS
    MaxConn = 2
    MaxReq = 2
    ReplyQLen = 1
    KeepAlive = 1
    ProbeSeesPeer = FALSE
    AcceptMayFail = TRUE
SPECIFICATION FairSpec
INVARIANTS
    TypeOK
    RepliesMatch
    BuffersStable
    OneDescriptor
    CleanHandover
PROPERTIES
    ServiceRefined
    CommandAnswered
    DescriptorReleased
CHECK_DEADLOCK FALSE
