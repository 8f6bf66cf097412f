CONSTANTS
    Period = 3
    MaxNow = 8
    MaxEdges = 2
    MaxRuns = 2
    MaxSamples = 2
SPECIFICATION Spec
PROPERTIES
    WrapBeforeCapture
CHECK_DEADLOCK FALSE
