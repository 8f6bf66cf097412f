CONSTANTS
    PacketMax = 5
    Messages <- MCMessages
    MaxMsgs = 2
    MaxReply = 3
SPECIFICATION FairSpec
INVARIANTS
    TypeOK
    CommandIntact
PROPERTIES
    AllTaken
CHECK_DEADLOCK FALSE
