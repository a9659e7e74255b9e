SPECIFICATION Spec
CONSTANTS
    p = p
    q = q
    ann = ann
    bob = bob
    r1 = r1
    r2 = r2
    NULL = NULL
    Slots = {1, 2}
    Places = {p, q}
    Leads = {ann, bob}
    LastDate = 2
    Shapes <- OneChange
    Slots0 <- OneClass
    Horizon = 2
    Absences = {1}
    AbsenceOf <- LeaveToTheEnd
    Requests = {r1, r2}
    Ops = {"fill", "day", "create", "update", "delete", "retire", "end", "close", "open", "mark", "cover", "absent"}
    MaxOps = 4
    MaxLaid = 2
INVARIANTS
    PlansAreOfTheTimetable
    LeaveShows
PROPERTIES
    RecordsSurvive
SYMMETRY Alike
CHECK_DEADLOCK FALSE
