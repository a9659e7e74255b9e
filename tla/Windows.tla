------------------------------- MODULE Windows -------------------------------
(***************************************************************************)
(* The arithmetic every clash check of Chronos Ledger rests on: when a     *)
(* dated window really runs, when two windows meet, how many units of a    *)
(* pool a set of holds takes, and how a requirement widens a window.       *)
(*                                                                         *)
(* A row stores a date and two naive wall-clock times.  Here a date is a   *)
(* number, a time of day a number below Day, and an instant the number     *)
(* Day * date + time, so datetime.combine and date arithmetic become       *)
(* arithmetic.  Day is a parameter: the code's day has 1440 minutes, and   *)
(* nothing below depends on how many.                                      *)
(***************************************************************************)
EXTENDS Integers, FiniteSets, FiniteSetsExt

CONSTANT Day    \* the instants in one day

ASSUME DayAssumption == Day \in Nat \ {0}

NoWindow == <<>>

(***************************************************************************)
(* app.core.time.window_span: a window whose end is earlier than its start *)
(* finishes on the following date.                                         *)
(***************************************************************************)
LastDate(day, start, end) == IF end < start THEN day + 1 ELSE day

\* Mutant: a window never leaves its date.
WindowSpanSameDay(day, start, end) == <<Day * day + start, Day * day + end>>

WindowSpan(day, start, end) ==
    <<Day * day + start, Day * LastDate(day, start, end) + end>>

\* The tsrange of ex_reservations_no_overlap and ex_daily_ledger_no_overlap:
\* the same rule written in SQL, where an end at or before the start moves.
ConstraintSpan(day, start, end) ==
    <<Day * day + start, Day * day + end + (IF end <= start THEN Day ELSE 0)>>

\* Half open: a window ending at ten and one starting at ten do not meet.
Overlaps(a, b) == a[1] < b[2] /\ b[1] < a[2]

(***************************************************************************)
(* A pool is a sum.  _levels applies the change at an instant whole before *)
(* it reads the total; pool_peak is the largest total, inside a window;    *)
(* pool_stretches are the longest stretches at or above a level.  A hold   *)
(* is a record with a span win and a number of units qty.                  *)
(***************************************************************************)
Units(holds) == MapThenSumSet(LAMBDA h : h.qty, holds)

Instants(holds) == {h.win[1] : h \in holds} \cup {h.win[2] : h \in holds}

Delta(holds, i) == Units({h \in holds : h.win[1] = i}) - Units({h \in holds : h.win[2] = i})

Level(holds, i) == MapThenSumSet(LAMBDA j : Delta(holds, j), {j \in Instants(holds) : j <= i})

Clip(win, window) == <<Max({win[1], window[1]}), Min({win[2], window[2]})>>

PoolPeak(holds, window) ==
    LET clipped == {[h EXCEPT !.win = Clip(h.win, window)] : h \in holds}
        spans   == {h \in clipped : h.win[1] < h.win[2]}
    IN  IF spans = {} THEN 0 ELSE Max({Level(spans, i) : i \in Instants(spans)})

\* Mutant: a stretch ends at the next change, full or not.
PoolStretchesByChange(holds, atLeast) ==
    LET at   == Instants(holds)
        full == {i \in at : Level(holds, i) >= atLeast}
    IN  {<<i, Min({k \in at : i < k})>> : i \in full}

PoolStretches(holds, atLeast) ==
    LET at     == Instants(holds)
        full   == {i \in at : Level(holds, i) >= atLeast}
        opens  == {i \in full : \A j \in at : j < i /\ j \in full =>
                                    \E k \in at \ full : j < k /\ k < i}
        closes(i) == Min({k \in at \ full : i < k})
    IN  {<<i, closes(i)>> : i \in opens}

(***************************************************************************)
(* app.services.requirements._padded: the window widened by a              *)
(* requirement's before and after, as the date and the two times the hold  *)
(* is stored under, or NoWindow when it would leave its day.               *)
(***************************************************************************)

PaddedRow(win, before, after) ==
    LET starts == win[1] - before
        ends   == win[2] + after
        day    == win[1] \div Day
        closes == Day * (((win[2] - 1) \div Day) + 1)
    IN  IF before = 0 /\ after = 0 THEN <<day, win[1] % Day, win[2] % Day>>
        ELSE IF starts < Day * day \/ ends > closes \/ starts % Day = ends % Day THEN NoWindow
        ELSE <<day, starts % Day, ends % Day>>

\* The span such a row stands for when it is read back.
Padded(win, before, after) ==
    LET row == PaddedRow(win, before, after)
    IN  IF row = NoWindow THEN NoWindow ELSE WindowSpan(row[1], row[2], row[3])
=============================================================================
