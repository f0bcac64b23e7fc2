\* One observation, of a worktree or of an object on GitHub.
SPECIFICATION Spec
CONSTANTS
    Paths = {p1, p2}
    Revisions = {1, 2}
    NoPolicy = NoPolicy
    MaxChanges = 2
INVARIANTS SnapshotIsConsistent RepositoryIsTheOne PermittedThroughout
CHECK_DEADLOCK FALSE
