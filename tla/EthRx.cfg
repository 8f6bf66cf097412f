CONSTANTS
    NumDescs = 3
    PoolSize = 5
    MaxSegs = 2
    FrameErrors = TRUE
    MaxFrames = 4
SPECIFICATION Spec
INVARIANTS
    TypeOK
    DeliveredWhole
    RingExclusive
    NoPbufLost
PROPERTIES
    DeliveredInOrder
CHECK_DEADLOCK FALSE
