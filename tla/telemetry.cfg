SPECIFICATION FairSpec
CONSTANTS
    None = None
    Sources <- MCSources
    Reported <- MCReported
    Length <- MCLength
    MaxSkew = 1
    MaxRecords = 2
    MaxTime = 1
    MaxChanges = 1
    MaxErrors = 1
INVARIANTS NothingSkipped DiagnosticIsTruthful
PROPERTIES EventuallyRetained
