SPECIFICATION Spec
CONSTANTS
    w1 = w1
    w2 = w2
    r1 = r1
    r2 = r2
    Workers = {w1, w2}
    Rows = {r1, r2}
    Kinds = {"updated"}
    Wanted = {"updated"}
    Grace = 1
    CommitWithin = 0
    Lease = 3
    Margin = 1
    Deadline = 1
    Waits = {0, 1}
    MaxAttempts = 2
    PauseAfter = 2
    FanOutBatch = 2
    SendBatch = 2
    MaxMarkers = 2
    MaxRedeliveries = 0
    MaxSwitches = 0
    MaxCrashes = 0
    MaxNow = 4
INVARIANTS
    EldersFirst
    CountedOnce
    OneSenderAtATime
    GoneIsPaused
SYMMETRY Alike
CHECK_DEADLOCK FALSE
