\* The broker: the journal, its dispatcher and its processes, with fairness.
SPECIFICATION FairSpec
CONSTANTS
    r1 = r1  r2 = r2  w1 = w1  w2 = w2  d1 = d1  d2 = d2
    p1 = p1  p2 = p2  c1 = c1  c2 = c2
    NoRequest = NoRequest  NoDigest = NoDigest  NoRef = NoRef
    Requests = {r1, r2}
    Digests = {d1}
    Capabilities = {c1, c2}
    Capability <- MCCapability
    Expiry <- MCExpiry
    Registries <- MCRegistries
    Refs = {p1, p2}
    Workers = {w1, w2}
    QueueLimit = 1
    MaxTime = 2
    MaxLag = 1
    MaxAttempts = 2
INVARIANTS PendingBound EffectAtMostOnce SingleWriter CancelIsHeard
PROPERTIES DurableFixed LifecycleSpec WaitingDrains RestartsResolveRuns

