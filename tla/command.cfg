SPECIFICATION FairSpec
CONSTANTS
    Kinds = {"collect", "bounded"}
    QueueSize = 1
    Limit <- MCLimit
    PipeSize = 1
    MaxBlocks = 2
    MaxFaults = 1
    Forks = TRUE
INVARIANTS ResultIsComplete OutcomeIsTruthful NothingLeftBehind
PROPERTIES EndsInTime ReadersEnd
CHECK_DEADLOCK FALSE
