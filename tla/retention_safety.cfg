SPECIFICATION Spec
CONSTANTS
    a1 = a1  a2 = a2  a3 = a3
    NoArtifact = NoArtifact  NoDeadline = NoDeadline
    Artifacts = {a1, a2}
    Sizes = {1, 2}
    Deadlines = {1}
    MaxBytes = 2
    MaxItems = 2
    MaxPending = 1
    MaxRecords = 2
    MaxAge = 1
    GapLimit = 1
    MaxTime = 1
    MaxFaults = 1
    MaxDamage = 1
SYMMETRY Symmetry
INVARIANTS TypeOK FilesMatchCatalog ProtectedStays WithinBudget IdleIsSettled
PROPERTIES TombstoneFinal ResumeIsReviewed
