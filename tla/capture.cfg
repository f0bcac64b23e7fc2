\* The capture provider, Greenshot and the desktop.
SPECIFICATION Spec
CONSTANTS
    h1 = h1
    a = a
    b = b
    Handles = {h1}
    NoHandle = NoHandle
    Pids = {a, b}
    NoPid = NoPid
    AllowedPids = {a}
    Ids = {i1}
    Calls = {c1}
    Strays = {x}
    Names = {n1, n2}
    NoName = NoName
    FirstWindows <- OneWindow
    MaxMoves = 2
INVARIANTS ShowsTheLease ArtifactIsWhole
PROPERTY OutputIsTaken
CHECK_DEADLOCK FALSE
