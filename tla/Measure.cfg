CONSTANTS
    Period = 3
    MaxNow = 7
    MaxEdges = 3
    MaxRuns = 2
    MaxSamples = 2
SPECIFICATION Spec
INVARIANTS
    TypeOK
    WithinOneWrap
    ExactUnlessOwed
    SamplesInRun
    ReportExact
CHECK_DEADLOCK FALSE
