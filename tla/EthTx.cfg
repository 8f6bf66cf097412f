CONSTANTS
    NumDescs = 3
    MaxChain = 2
    MaxFrames = 4
    EthPrio = 2
    LwipPrio = 1
SPECIFICATION FairSpec
INVARIANTS
    TypeOK
    SegmentsInOrder
    HeldWhileSent
    HeldOnlyInRing
    NoStatusLost
PROPERTIES
    FramesReleased
CHECK_DEADLOCK FALSE
