CONSTANTS
    Id = {"a", "b"}
    MaxCallsPerTurn = 2
    ScriptLengths = {0, 1, 2}
    DEFAULT_MAX_TURNS = 2
    MAX_UNPARSEABLE_RETRIES = 2
SPECIFICATION Spec
CHECK_DEADLOCK FALSE
INVARIANT OkMeansFinished
