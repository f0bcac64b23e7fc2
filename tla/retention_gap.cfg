SPECIFICATION Spec
CONSTANTS
    a1 = a1  a2 = a2  a3 = a3
    NoArtifact = NoArtifact  NoDeadline = NoDeadline
    Artifacts = {a1}
    Sizes = {1}
    Deadlines = {1}
    MaxBytes = 2
    MaxItems = 2
    MaxPending = 1
    MaxRecords = 2
    MaxAge = 1
    GapLimit = 2
    MaxTime = 1
    MaxFaults = 0
    MaxDamage = 0
SYMMETRY Symmetry
INVARIANTS LossesCounted
