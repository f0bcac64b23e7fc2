SPECIFICATION FairSpec
CONSTANTS
    f1 = f1  f2 = f2  v1 = v1  v2 = v2
    NoContent = NoContent
    Paths = {f1, f2}
    Contents = {v1, v2}
    PageSize = 1
    MaxPages = 3
    MaxCommits = 3
    MaxRewrites = 1
    MaxErrors = 1
INVARIANT CursorCovers
PROPERTIES NoVersionSkipped EventuallyDelivered
