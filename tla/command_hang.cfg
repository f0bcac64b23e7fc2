SPECIFICATION FairSpec
CONSTANTS
    Kinds = {"collect"}
    QueueSize = 1
    Limit <- MCLimit
    PipeSize = 1
    MaxBlocks = 1
    MaxFaults = 0
    Forks = TRUE
PROPERTIES TimeoutEnds
CHECK_DEADLOCK FALSE
