SPECIFICATION BothSpec
CONSTANTS
    i1 = i1
    i2 = i2
    p1 = p1
    c1 = c1
    c2 = c2
    t1 = t1
    k1 = k1
    h1 = h1
    h2 = h2
    r1 = r1
    r2 = r2
    NULL = NULL
    None = None
    Instances = {i1, i2}
    People = {p1}
    Conns = {c1, c2}
    Tasks = {t1}
    MaxMessages = 2
    Keys = {k1}
    Hashes = {h1, h2}
    Requests = {r1, r2}
    Outcomes = {"done", "refused", "failed", "broken"}
    Retention = 1
    MaxRuns = 3
INVARIANTS
    EventsFindTheSocket
    DeactivatedHearNothing
    OnlyADropRepeats
    AnswersAreTheirOwn
    OpenClaimsAreAttended
