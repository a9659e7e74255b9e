SPECIFICATION Spec
CONSTANTS
    Day = 6
    Txns <- WalkTxns
    Resources <- WalkResources
    CodeRank <- WalkRank
    Kinds <- WalkKinds
    KindOf <- WalkKindOf
    Reqs <- WalkReqs
    Default = "REQUIRED"
    MaxDepth = 2
    Res0 <- WalkRes
    Ask <- WalkAsk
    Callers = {"ann", "bob", "root"}
    Admins = {"root"}
    Keys = {"k1", "k2", "k3"}
    Refs = {"x", "y"}
    Serial = FALSE
    Crashes = {"t2"}
INVARIANTS
    NothingHalfHeld
    EveryChangeIsMarked
    ChecksHoldToTheEnd
PROPERTIES
    KeepsTheLedger
    EveryRequestIsAnswered
