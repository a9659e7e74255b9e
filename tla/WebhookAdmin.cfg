SPECIFICATION Spec
CONSTANTS
    w1 = w1
    r1 = r1
    Workers = {w1}
    Rows = {r1}
    Kinds = {"created", "updated"}
    Wanted = {"updated"}
    Grace = 2
    CommitWithin = 1
    Lease = 3
    Margin = 1
    Deadline = 1
    Waits = {0}
    MaxAttempts = 1
    PauseAfter = 1
    FanOutBatch = 1
    SendBatch = 2
    MaxMarkers = 2
    MaxRedeliveries = 1
    MaxSwitches = 2
    MaxCrashes = 1
    MaxNow = 4
SYMMETRY Alike
INVARIANTS
    NothingSkipped
CHECK_DEADLOCK FALSE
