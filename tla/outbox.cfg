SPECIFICATION FairSpec
CONSTANTS
    q1 = q1  q2 = q2  q3 = q3
    g1 = g1  g2 = g2  g3 = g3  g4 = g4
    m1 = m1  m2 = m2  m3 = m3
    NoGroup = NoGroup
    Publishers = {q1, q2}
    Groups = {g1, g2, g3, g4}
    Paths = {m1, m2, m3}
    Manifest <- MCManifest
    Retries = 3
    MaxErrors = 1
INVARIANTS BranchIsLedger AnswersHold ConflictIsProgress
PROPERTIES CallsEnd LedgerSpec
