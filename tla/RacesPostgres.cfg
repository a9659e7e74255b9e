SPECIFICATION Spec
CONSTANTS
    Day = 4
    Txns <- RaceTxns
    Resources <- RaceResources
    CodeRank <- RaceRank
    Kinds = {"ROOM"}
    KindOf <- RaceKindOf
    Reqs <- RaceReqs
    Default = "REQUIRED"
    MaxDepth = 4
    Res0 <- RaceRes
    Ask <- RaceAsk
    Callers = {"ann", "bob", "root"}
    Admins = {"root"}
    Keys = {"k1", "k2", "k3"}
    Refs = {"x", "y"}
    Serial = FALSE
    Crashes = {"t1"}
INVARIANTS
    TypeOK
    NoDoubleBooking
    ModeIsTheResources
    OneBookingPerKey
PROPERTIES
    KeepsTheLedger
