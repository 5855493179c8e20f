CONSTANTS
    Event <- MCEvent
    Timestamp = {1, 2}
    MaxLen = 3
    MaxEdits = 2
SPECIFICATION Spec
\* The log is bounded and the copy edited a bounded number of times.
CHECK_DEADLOCK FALSE
INVARIANTS
    ChainIntact
    AcceptedCopyIsSuffix
