CONSTANTS
    PacketMax = 5
    Messages <- MCMessages
    MaxMsgs = 2
    MaxReply = 3
SPECIFICATION Spec
INVARIANTS
    EntireBufferSent
CHECK_DEADLOCK FALSE
