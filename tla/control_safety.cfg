SPECIFICATION ControlSpec
CONSTANTS
    r1 = r1  w1 = w1  w2 = w2  d1 = d1  d2 = d2  c1 = c1
    e1 = e1  e2 = e2  e3 = e3  t1 = t1  t2 = t2  m1 = m1  m2 = m2
    o1 = o1  o2 = o2  p1 = p1
    NoRequest = NoRequest  NoDigest = NoDigest  NoRef = NoRef
    Requests = {r1}
    Digests = {d1, d2}
    Capabilities = {c1}
    Capability <- MCCapability
    Expiry <- MCExpiry
    Registries <- MCRegistries
    Refs = {p1}
    Workers = {w1, w2}
    QueueLimit = 1
    MaxTime = 2
    MaxLag = 1
    MaxAttempts = 2
    Enrollments = {e1, e2, e3}
    Targets = {t1, t2}
    Mailboxes = {m1, m2}
    Mailbox <- MCMailbox
    MailboxOf <- MCMailboxOf
    Grant <- MCGrant
    Operators = {o1}
    Lifetime = 1
SYMMETRY Symmetry
INVARIANT ApprovalMatchesState
PROPERTIES TerminalFinal StartsAreAuthorised
