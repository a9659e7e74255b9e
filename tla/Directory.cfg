SPECIFICATION Spec
CONSTANTS
    root = root
    ann = ann
    bob = bob
    new = new
    new2 = new2
    lab = lab
    iss = iss
    kid = kid
    grp = grp
    NULL = NULL
    Ids = {root, ann, bob, new, new2}
    Emails = {"e1", "e2", "e3", "e4"}
    Units = {lab}
    Issuers = {iss}
    Kids = {kid}
    Groups = {grp}
    Notes <- MCNotes
    r1 = r1
    r2 = r2
    Requests = {r1, r2}
    Root = root
    First <- MCFirst
    Ops = {"create", "update", "out", "host", "issuer", "key", "map", "link", "note"}
    Creates <- MCCreates
    Updates <- MCUpdates
    Asserts <- MCAsserts
    Cap = 1
    Skew = 1
    MaxEdits = 2
    MaxNow = 4
INVARIANTS
    NotesAreSpentOnce
    SignInsReachTheirOwn
    OnceIsEnough
SYMMETRY Alike
CHECK_DEADLOCK FALSE
