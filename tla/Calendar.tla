------------------------------ MODULE Calendar -------------------------------
(***************************************************************************)
(* The questions the schedule is asked: what a new class would sit on and  *)
(* when a resource is busy (services/availability.py), where rows clash    *)
(* (services/conflicts.py), where somebody is now                          *)
(* (services/location_resolver.py), and which jobs a move of the clock     *)
(* brings due (cron/scheduled.py).  Each reads rows and changes nothing.   *)
(*                                                                         *)
(* A rule is the set of dates it lands on, as core/recurrence.py expands   *)
(* it.  A class has an id, a rule, a window and its cycle's dates; a day   *)
(* is a generated row, of a class or of none (0); a hold is a booking.     *)
(***************************************************************************)
EXTENDS Windows, Sequences, SequencesExt

Span(x) == WindowSpan(x.date, x.start, x.end)
SpanOn(class, date) == WindowSpan(date, class.start, class.end)

\* _within: the dates of its cycle.
Within(class, date) == class.first <= date /\ date <= class.last
-----------------------------------------------------------------------------
(* What a new class would sit on. *)

\* Mutant: its own date and the one before.
NeighboursBefore == {-1, 0}

\* The dates a class can have and still touch a window of one date.
Neighbours == {-1, 0, 1}

\* held_against_slot and days_against_slot: the bookings or days from today on.
AgainstSlot(class, today, rows) ==
    {x \in rows : x.date >= today /\ \E o \in Neighbours :
        /\ Within(class, x.date + o) /\ x.date + o \in class.rule
        /\ Overlaps(SpanOn(class, x.date + o), Span(x))}

\* _first_meeting: the first date of theirs that one of ours sits on, or none.
FirstMeeting(class, ours, other, theirs) ==
    LET met(d) == {e \in theirs : e - d \in Neighbours /\ Overlaps(SpanOn(class, d), SpanOn(other, e))}
        days == {d \in ours : met(d) # {}}
    IN  IF days = {} THEN {} ELSE {Min(met(Min(days)))}

\* The new class's dates that can touch one of the other's.
Reach(class, tomorrow, other) ==
    <<Max({tomorrow, other.first - 1, class.first}), Min({other.last + 1, class.last})>>

\* slots_against_slot, for one other class of an open cycle: where they meet.
SlotAgainstSlot(class, today, other) ==
    LET r == Reach(class, today + 1, other)
        theirs == {d \in other.rule : Max({r[1] - 1, other.first}) <= d /\ d <= Min({r[2] + 1, other.last})}
    IN  IF r[1] > r[2] THEN {}
        ELSE FirstMeeting(class, {d \in class.rule : r[1] <= d /\ d <= r[2]}, other, theirs)
-----------------------------------------------------------------------------
(* When a resource is busy. *)

\* A day stands in for the class that produced it, on its date.
Settled(class, date, days) == \E x \in days : x.class = class.id /\ x.date = date

\* occupied, over the rows booked_slots, booked_days and held_reservations
\* fetch: from a day early, and then whatever reaches into the range.
Occupied(classes, days, holds, from, to) ==
    LET fetched == {x \in days : from - 1 <= x.date /\ x.date <= to}
        kept == {x \in holds : from - 1 <= x.date /\ x.date <= to}
        asked == <<Day * from, Day * (to + 1)>>
        busy == {[by |-> c, date |-> d, win |-> SpanOn(c, d)] : c \in classes, d \in (from - 1)..to}
        runs == {b \in busy : b.date \in b.by.rule /\ Within(b.by, b.date) /\ ~Settled(b.by, b.date, fetched)}
    IN  {b \in runs \cup {[by |-> x, date |-> x.date, win |-> Span(x)] : x \in fetched \cup kept} :
            Overlaps(b.win, asked)}

\* window_conflicts: occupied over the window's own dates, and clashing.
WindowConflicts(classes, days, holds, x) ==
    {b \in Occupied(classes, days, holds, x.date, LastDate(x.date, x.start, x.end)) :
        Overlaps(b.win, Span(x))}
-----------------------------------------------------------------------------
(* The conflict report. *)

\* _sort_key
Earlier(a, b) ==
    \/ a.win[1] < b.win[1]
    \/ a.win[1] = b.win[1] /\ (a.win[2] < b.win[2] \/ (a.win[2] = b.win[2] /\ a.id < b.id))

\* Mutant: an entry that ends where another starts is still open.
StillOpenClosed(open, entry) == SelectSeq(open, LAMBDA o : o.win[2] >= entry.win[1])

StillOpen(open, entry) == SelectSeq(open, LAMBDA o : o.win[2] > entry.win[1])

\* _sweep: the pairs as they are found.
Sweep(entries) ==
    LET step(st, e) == LET open == StillOpen(st.open, e)
                       IN  [open |-> Append(open, e),
                            pairs |-> st.pairs \o [i \in DOMAIN open |-> {open[i], e}]]
    IN  FoldLeft(step, [open |-> <<>>, pairs |-> <<>>], SetToSortSeq(entries, Earlier)).pairs

\* What find_conflicts reports of one resource, by its mode: on a shared one
\* bookings clash with nothing, on a pooled one not with each other.
ResourceConflicts(entries, mode) ==
    LET held == IF mode = "SHARED" THEN {e \in entries : e.type # "reservation"} ELSE entries
    IN  SelectSeq(Sweep(held), LAMBDA p :
            ~(mode = "POOLED" /\ \A e \in p : e.type = "reservation"))

\* And of one member or lead: two activities, not one.
PersonConflicts(entries) ==
    SelectSeq(Sweep(entries), LAMBDA p : \E a, b \in p : a.activity # b.activity)
-----------------------------------------------------------------------------
(* Where somebody is. *)

\* _covers
Covers(win, instant) == win[1] <= instant /\ instant < win[2]

\* Tier 2: what a running day says of a person, if it says anything.
DaySays(x, person) ==
    IF x.cover = person /\ x.state \in {"SCHEDULED", "PROXY_SUBSTITUTE", "ON_LEAVE"} THEN "covers"
    ELSE IF x.lead # person THEN "nothing"
    ELSE IF x.state = "ON_LEAVE" THEN "away"
    ELSE IF x.state = "SCHEDULED" /\ x.cover = 0 THEN "leads" ELSE "nothing"

\* Mutant: leave is asked about for today.
ClassSaysToday(class, date, today, leave) ==
    IF today \in leave THEN "away" ELSE "leads"

\* Tier 3: what a running class says of its lead.
ClassSays(class, date, today, leave) ==
    IF date \in leave THEN "away" ELSE "leads"

\* The first in the order of date and start; none where there is none.
First(found) ==
    {f \in found : \A g \in found : f.date < g.date \/ (f.date = g.date /\ f.start <= g.start)}

\* determine_staff_current_states for one person with no override: what answers
\* and what it says.  Days of two dates, then classes with no day yet, then
\* the rest of a day of leave, then the base station.
Located(person, days, classes, leave, instant) ==
    LET today == instant \div Day
        dates == {today - 1, today}
        second == {[date |-> x.date, start |-> x.start, says |-> DaySays(x, person)] :
                     x \in {y \in days : y.date \in dates /\ Covers(Span(y), instant)}}
        spoken == {f \in second : f.says # "nothing"}
        third == {r \in classes \X dates :
                     /\ r[1].lead = person /\ r[2] \in r[1].rule /\ Within(r[1], r[2])
                     /\ ~Settled(r[1], r[2], days) /\ Covers(SpanOn(r[1], r[2]), instant)}
        running == {[date |-> r[2], start |-> r[1].start, says |-> ClassSays(r[1], r[2], today, leave)] :
                      r \in third}
    IN  IF spoken # {} THEN First(spoken)
        ELSE IF running # {} THEN First(running)
        ELSE {[date |-> today, start |-> 0, says |-> IF today \in leave THEN "away" ELSE "based"]}
-----------------------------------------------------------------------------
(* The jobs a move of the clock brings due.  Instants are UTC; the zone is  *)
(* how far the organization is ahead.                                       *)

\* The date it is there.
LocalDate(instant, zone) == (instant + zone) \div Day

\* daily_at
DailyAt(at, zone, previous, current) ==
    {m \in {Day * d + at - zone : d \in LocalDate(previous, zone)..LocalDate(current, zone)} :
        previous < m /\ m <= current}

\* Mutant: the first mark of the grid.
MarkFirst(step, previous, current) == ((previous \div step) + 1) * step

\* The last mark of the grid.
Mark(step, previous, current) == (current \div step) * step

\* every
Every(step, previous, current) ==
    {m \in {Mark(step, previous, current)} : previous < m /\ m <= current}

\* due_jobs: by moment, then in the order of JOBS.
DueJobs(jobs, zone, previous, current) ==
    LET due(n) == IF jobs[n].every > 0 THEN Every(jobs[n].every, previous, current)
                  ELSE DailyAt(jobs[n].at, zone, previous, current)
    IN  SetToSortSeq(UNION {due(n) \X {n} : n \in DOMAIN jobs},
                     LAMBDA a, b : a[1] < b[1] \/ (a[1] = b[1] /\ a[2] < b[2]))
=============================================================================
