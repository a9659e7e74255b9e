SPECIFICATION Spec
CONSTANTS
    root = root
    ann = ann
    lab = lab
    NULL = NULL
    Users = {root, ann}
    Role <- MCRole
    Unit <- MCUnit
    Requests = {r1, r2, r3}
    Ops = {"login", "refresh", "logout", "change", "reset", "deactivate", "reactivate", "key", "revoke", "purge"}
    Followed = {ann}
    Lifetime = 1
    Grace = 0
    Slack = 1
    MaxTokens = 3
    MaxKeys = 1
    MaxFeeds = 2
    MaxNow = 3
SYMMETRY Symmetry
INVARIANTS
    FamilyNeverForks
    RevokedStaysRevoked
    OnlyChangesMeetInACircle
PROPERTIES
    SignedInUntilExpiry
CHECK_DEADLOCK FALSE
