CONSTANTS
    Id = {"a"}
    MaxCallsPerTurn = 2
    ScriptLengths = {0, 1, 2}
    DEFAULT_MAX_TURNS = 2
    MAX_UNPARSEABLE_RETRIES = 2
    Unset = Unset
    EnvValue <- MCEnvValue
    Lowercase <- MCLowercase
SPECIFICATION ProcessSpec
\* The process ends.
CHECK_DEADLOCK FALSE
INVARIANTS
    NothingServedUnreported
    ExitStatusTells
    CallsFileWins
    FailsClosed
