CONSTANTS
    MboxSize = 1
    MaxChanges = 3
    MaxFrames = 1
    MaxCalls = 1
SPECIFICATION FairSpec
INVARIANTS
    TypeOK
    IsrReady
PROPERTIES
    LinkKnown
    MacFollowsPhy
    CallsReturn
CHECK_DEADLOCK FALSE
