CONSTANTS
    NumDescs = 3
    PoolSize = 5
    MaxSegs = 1
    FrameErrors = TRUE
    MaxFrames = 4
SPECIFICATION Spec
INVARIANTS
    BadFrameDiscarded
CHECK_DEADLOCK FALSE
