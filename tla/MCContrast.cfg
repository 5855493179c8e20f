CONSTANTS
    FaultSets <- MCFaultSets
    MaxLive = 2
SPECIFICATION Spec
\* A contrast ends.
CHECK_DEADLOCK FALSE
INVARIANTS
    TypeOK
    CapturedMeansSent
    EmptySinkMeansNoneToSink
    DenialsShownExactly
PROPERTY ContrastEnds
