---------------------------- MODULE CalendarCheck ----------------------------
(***************************************************************************)
(* Checks the operators of Calendar, with those of Windows, against        *)
(* reference definitions that look at every date and every instant.  A     *)
(* behaviour picks one case; a case is a record of what is asked.          *)
(***************************************************************************)
EXTENDS WindowsCheck, Calendar

CONSTANTS
    LastRuleDate,   \* rules and cycles have dates 0..LastRuleDate
    Wins,           \* the windows of classes and rows: start and end
    LastInstant,    \* clocks move within 0..LastInstant
    Zones,          \* how far an organization is ahead of UTC
    MaxEntries,     \* how many entries a report sweeps at most
    Person, Other   \* two people

ASSUME CalendarAssumption ==
    /\ LastRuleDate \in Nat /\ LastInstant \in Nat /\ MaxEntries \in Nat
    /\ Wins \subseteq Times \X Times /\ Zones \subseteq Int /\ Person # Other /\ 0 \notin {Person, Other}

VARIABLE case

allVars == <<row, other, pad, holds, case>>

Dates == 0..LastRuleDate
NoCase == [kind |-> "none"]

Classes(ids) ==
    {[id |-> i, rule |-> r, start |-> w[1], end |-> w[2], first |-> f, last |-> l, lead |-> Person] :
        i \in ids, r \in SUBSET Dates, w \in Wins, f \in Dates, l \in Dates}

\* ck_planning_cycles: a cycle ends no earlier than it starts.
Class1 == {c \in Classes({1}) : c.first <= c.last}
Class2 == {c \in Classes({2}) : c.first <= c.last}

DatedRows(dates) == {[date |-> d, start |-> w[1], end |-> w[2]] : d \in dates, w \in Wins}

\* A generated day of class 1, of another class or of none.
DayRows ==
    {[class |-> c, date |-> x.date, start |-> x.start, end |-> x.end] : c \in {0, 1, 2}, x \in DatedRows(Dates)}

AtMostOne(S) == {{}} \cup {{x} : x \in S}

Cases(kind) ==
    CASE kind = "against" -> [kind : {kind}, class : Class1, today : {0, 1}, rows : AtMostOne(DatedRows(0..(LastRuleDate + 1)))]
      [] kind = "meet" -> [kind : {kind}, class : Class1, today : {-1, 0}, other : Class2]
      [] kind = "busy" -> [kind : {kind}, class : Class1, days : AtMostOne(DayRows),
                           held : AtMostOne(DatedRows({1})), asked : DatedRows(Dates)]
      [] kind = "person" ->
            [kind : {kind}, class : {c \in Class1 : c.rule \subseteq {0, 1}},
             days : AtMostOne({[class |-> x.class, date |-> x.date, start |-> x.start, end |-> x.end,
                                state |-> s, lead |-> w[1], cover |-> w[2]] :
                       x \in {y \in DayRows : y.date \in {0, 1}},
                       s \in {"SCHEDULED", "ON_LEAVE", "PROXY_SUBSTITUTE", "LUNCH"},
                       w \in {<<Person, 0>>, <<Person, Other>>, <<Other, Person>>}}),
             leave : SUBSET {0, 1}, instant : Day..(2 * Day - 1)]
      [] kind = "clock" -> {c \in [kind : {kind}, zone : Zones, from : 0..LastInstant, via : 0..LastInstant,
                                   to : 0..LastInstant] : c.from <= c.via /\ c.via <= c.to}

\* What an entry is: a booking, or a class or a day of an activity.
Whats == {[type |-> "reservation", activity |-> 0], [type |-> "slot", activity |-> 1],
          [type |-> "ledger_day", activity |-> 2]}

CalendarInit == Init /\ case = NoCase

PickCase ==
    \E kind \in {"against", "meet", "busy", "person", "clock"} : case' \in Cases(kind)

PickReport ==
    \E n \in 0..MaxEntries, mode \in {"EXCLUSIVE", "SHARED", "POOLED"} :
    \E f \in [1..n -> {s \in (0..3) \X (0..3) : s[1] < s[2]} \X Whats] :
        case' = [kind |-> "report", mode |-> mode,
                 entries |-> {[id |-> i, win |-> f[i][1], type |-> f[i][2].type,
                               activity |-> f[i][2].activity] : i \in 1..n}]

CalendarNext ==
    /\ case = NoCase
    /\ \/ Next /\ UNCHANGED case
       \/ vars = <<<<0, 0, 1>>, <<0, 0, 1>>, <<0, 0>>, {}>> /\ (PickCase \/ PickReport) /\ UNCHANGED vars

CalendarSpec == CalendarInit /\ [][CalendarNext]_allVars
-----------------------------------------------------------------------------
(* Reference definitions. *)

\* Every date a class runs on.
RunsOn(class) == {d \in class.rule : Within(class, d)}

Meets(class, d, win) == Overlaps(SpanOn(class, d), win)

\* What the nightly job writes of a class on a date (ledger_generator.py).
Written(class, d, leave) ==
    [class |-> class.id, date |-> d, start |-> class.start, end |-> class.end, lead |-> class.lead,
     cover |-> 0, state |-> IF d \in leave THEN "ON_LEAVE" ELSE "SCHEDULED"]

\* How many rows and unwritten dates of the class run at the case's instant.
RunningNow ==
    Cardinality({x \in case.days : Covers(Span(x), case.instant)})
    + Cardinality({d \in RunsOn(case.class) : ~Settled(case.class, d, case.days)
                                             /\ Covers(SpanOn(case.class, d), case.instant)})

ClockJobs == <<[at |-> 1, every |-> 0], [at |-> 3, every |-> 0], [at |-> 0, every |-> 3], [at |-> 0, every |-> 2]>>

Daily(due) == SelectSeq(due, LAMBDA p : ClockJobs[p[2]].every = 0)
LastRun(due, n) == {p[1] : p \in {q \in Range(due) : q[2] = n /\ \A r \in Range(due) : r[2] = n => r[1] <= q[1]}}
-----------------------------------------------------------------------------
(* Properties. *)

\* held_against_slot and days_against_slot (services/availability.py) look at
\* three dates around a booking or a day only, and drop what is dated before
\* today.  Nothing is missed by it: every row that a date of the class from
\* tomorrow on would overlap is named, windows past midnight included, and what
\* is named is overlapped by some date of the class.
NeighboursSuffice ==
    case.kind = "against" =>
        LET named == AgainstSlot(case.class, case.today, case.rows)
            sat(dates) == {x \in case.rows : \E d \in dates : Meets(case.class, d, Span(x))}
        IN  /\ sat({d \in RunsOn(case.class) : d > case.today}) \subseteq named
            /\ named \subseteq sat(RunsOn(case.class))

\* slots_against_slot (services/availability.py) narrows both rules to the
\* dates that can touch.  It reports another class exactly when a date of the
\* new one from tomorrow on overlaps a date of the other, each inside its own
\* cycle, and then names the first of theirs met by the first of ours.
MeetingsAreFound ==
    case.kind = "meet" =>
        LET met == {p \in RunsOn(case.class) \X RunsOn(case.other) :
                      p[1] > case.today /\ Meets(case.class, p[1], SpanOn(case.other, p[2]))}
            first == {p \in met : \A q \in met : p[1] < q[1] \/ (p[1] = q[1] /\ p[2] <= q[2])}
        IN  SlotAgainstSlot(case.class, case.today, case.other) = {p[2] : p \in first}

\* window_conflicts (services/availability.py) asks only about the window's own
\* dates.  What it answers is what the whole calendar holds against the window:
\* every day and every booking that overlaps it, and every date of a class that
\* does and that no day has replaced.
ConflictsAreTheWholeCalendar ==
    case.kind = "busy" =>
        LET dated == {[by |-> x, date |-> x.date, win |-> Span(x)] : x \in case.days \cup case.held}
            classes == {[by |-> case.class, date |-> d, win |-> SpanOn(case.class, d)] :
                          d \in {e \in RunsOn(case.class) :
                                   ~\E x \in case.days : x.class = case.class.id /\ x.date = e}}
        IN  WindowConflicts({case.class}, case.days, case.held, case.asked) =
                {b \in dated \cup classes : Overlaps(b.win, Span(case.asked))}

\* The three calculations of services/availability.py that narrow the dates they
\* look at overlook nothing by it: what a new class sits on, which class it
\* meets, and what stands against a window.
NarrowingOverlooksNothing == NeighboursSuffice /\ MeetingsAreFound /\ ConflictsAreTheWholeCalendar

\* The sweep of services/conflicts.py drops an entry once a later one starts at
\* its end.  It still reports every pair that shares an instant, each once, and
\* by the rules of find_conflicts leaves out only a booking of a shared
\* resource, two bookings of a pool, and for a person two rows of one activity.
EveryClashIsReportedOnce ==
    case.kind = "report" =>
        LET clash == {p \in SUBSET case.entries : Cardinality(p) = 2 /\
                        \A a, b \in p : Covered(a.win) \cap Covered(b.win) # {}}
            booked(p) == {e \in p : e.type = "reservation"}
            wanted == {p \in clash : CASE case.mode = "SHARED" -> booked(p) = {}
                                       [] case.mode = "POOLED" -> booked(p) # p
                                       [] OTHER -> TRUE}
            attended == {e \in case.entries : e.activity # 0}
            found == ResourceConflicts(case.entries, case.mode)
            own == PersonConflicts(attended)
        IN  /\ Range(found) = wanted /\ Len(found) = Cardinality(wanted)
            /\ Range(own) = {p \in clash : p \subseteq attended /\ \E a, b \in p : a.activity # b.activity}
            /\ Len(own) = Cardinality(Range(own))

\* determine_staff_current_states (services/location_resolver.py) answers from
\* the days written and, where none is, from the timetable and the leave.  Where
\* one thing runs, the answer is what it will be once the nightly job has
\* written every missing day: writing a day moves nobody, across midnight and
\* at either end of a leave.
WritingADayMovesNobody ==
    (case.kind = "person" /\ RunningNow <= 1) =>
        LET missing == {d \in RunsOn(case.class) : ~Settled(case.class, d, case.days)}
            after == case.days \cup {Written(case.class, d, case.leave) : d \in missing}
            ask(days) == Located(Person, days, {case.class}, case.leave, case.instant)
        IN  ask(case.days) = ask(after)

\* due_jobs (cron/scheduled.py): moving the clock in one hop or in two runs the
\* same daily jobs in the same order, each at its own time of the
\* organization's day and none left out, and the last run of an interval job
\* falls on the same mark, so a test that advances the clock sees what an
\* uninterrupted scheduler does.
AHopRunsWhatTwoRun ==
    case.kind = "clock" =>
        LET hop(a, b) == DueJobs(ClockJobs, case.zone, a, b)
            one == hop(case.from, case.to)
            two == hop(case.from, case.via) \o hop(case.via, case.to)
            intervals == {n \in DOMAIN ClockJobs : ClockJobs[n].every > 0}
        IN  /\ Daily(one) = Daily(two)
            /\ Range(Daily(one)) = {p \in ((case.from + 1)..case.to) \X (DOMAIN ClockJobs \ intervals) :
                                      (p[1] + case.zone) % Day = ClockJobs[p[2]].at}
            /\ \A n \in intervals :
                 LastRun(one, n) = LastRun(two, n)
                 /\ (LastRun(one, n) = {} <=> ~\E m \in (case.from + 1)..case.to : m % ClockJobs[n].every = 0)
=============================================================================
