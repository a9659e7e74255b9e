---------------------------- MODULE WindowsCheck ----------------------------
(***************************************************************************)
(* Checks the operators of Windows against reference definitions that      *)
(* count instants one by one.  A behaviour picks one case after another:   *)
(* two stored windows and a padding, or a handful of holds on one pool.    *)
(***************************************************************************)
EXTENDS Windows

CONSTANTS
    MaxDate,    \* dates are 0..MaxDate
    MaxHolds,   \* how many holds a pool case has at most
    MaxUnits    \* the largest quantity of one hold

\* A day has room for a window.
ASSUME BoundsAssumption ==
    MaxDate \in Nat /\ MaxHolds \in Nat /\ MaxUnits \in Nat \ {0} /\ Day > 1

VARIABLES
    row,      \* the stored window asked about: date, start, end
    other,    \* another stored window
    pad,      \* before and after of a requirement
    holds     \* the holds of a pool

vars == <<row, other, pad, holds>>

Times == 0..(Day - 1)

\* ck_reservations_window: equal times are refused.
Rows == {r \in (0..MaxDate) \X Times \X Times : r[2] # r[3]}

RowSpan(r) == WindowSpan(r[1], r[2], r[3])

HoldSpans == {s \in (0..Day) \X (0..Day) : s[1] < s[2]}

Units1 == 1..MaxUnits

Init ==
    /\ row = <<0, 0, 1>> /\ other = <<0, 0, 1>> /\ pad = <<0, 0>>
    /\ holds = {}

\* Two windows and no padding, or one window and any padding the schema takes.
PickWindows ==
    /\ \E r \in Rows, o \in Rows : row' = r /\ other' = o
    /\ pad' = <<0, 0>>
    /\ UNCHANGED holds

PickPadding ==
    /\ \E r \in Rows, p \in (0..Day) \X (0..Day) : row' = r /\ pad' = p
    /\ other' = <<0, 0, 1>>
    /\ UNCHANGED holds

PickHolds ==
    /\ \E n \in 0..MaxHolds : \E f \in [1..n -> HoldSpans \X Units1] :
         holds' = {[id |-> i, win |-> f[i][1], qty |-> f[i][2]] : i \in 1..n}
    /\ row' = <<0, 0, 1>> /\ other' = <<0, 0, 1>> /\ pad' = <<0, 0>>

\* Every case is picked from the empty one.
Next == /\ vars = <<<<0, 0, 1>>, <<0, 0, 1>>, <<0, 0>>, {}>>
        /\ PickWindows \/ PickPadding \/ PickHolds

Spec == Init /\ [][Next]_vars
-----------------------------------------------------------------------------
(* Reference definitions. *)
Covered(win) == win[1]..(win[2] - 1)

Horizon == 0..(Day * (MaxDate + 2))

TakenAt(i) == Units({h \in holds : i \in Covered(h.win)})

\* The window rule in Python (core/time.py window_span) and the one in the
\* exclusion constraints (models/db.py _no_overlap) give every stored window
\* the same span, under a day and not empty.
SpanAgreesWithConstraint ==
    /\ RowSpan(row) = ConstraintSpan(row[1], row[2], row[3])
    /\ RowSpan(row)[1] < RowSpan(row)[2] /\ RowSpan(row)[2] < RowSpan(row)[1] + Day

\* Two stored windows overlap (availability.py _overlaps) exactly when some
\* instant belongs to both, across midnight as well.
OverlapIsSharedInstant ==
    Overlaps(RowSpan(row), RowSpan(other)) <=> Covered(RowSpan(row)) \cap Covered(RowSpan(other)) # {}

\* pool_peak, computed by sweeping the changes, is the most units held at any
\* instant of the window.
PeakIsTheMost ==
    \A w \in HoldSpans : PoolPeak(holds, w) = Max({TakenAt(i) : i \in Covered(w)})

\* pool_stretches covers exactly the instants at or above the level, and no
\* two of its stretches touch, so each is as long as it can be.
StretchesAreMaximal ==
    \A n \in 1..(MaxHolds * MaxUnits) :
        LET found == PoolStretches(holds, n)
        IN  /\ UNION {Covered(s) : s \in found} = {i \in Horizon : TakenAt(i) >= n}
            /\ \A s, u \in found : s # u => s[2] < u[1] \/ u[2] < s[1]

\* _padded refuses a padding that leaves the window's own days; a padded
\* window shorter than a day is held exactly as widened.
PaddingBelowADayIsExact ==
    LET win  == RowSpan(row)
        wide == <<win[1] - pad[1], win[2] + pad[2]>>
    IN  wide[2] - wide[1] < Day =>
            Padded(win, pad[1], pad[2]) =
                IF /\ wide[1] >= Day * row[1]
                   /\ wide[2] <= Day * (((win[2] - 1) \div Day) + 1)
                THEN wide ELSE NoWindow

\* A window means the same wherever it is read: to the constraint that guards
\* the table, to the checks that compare two of them, and to whoever reads back
\* what a requirement held.
WindowsAreReadAlike == SpanAgreesWithConstraint /\ OverlapIsSharedInstant /\ PaddingBelowADayIsExact

\* The sums over a pool, by sweep, are what counting units instant by instant
\* gives: the most that is held, and the stretches at or above a level.
PoolsAreCounted == PeakIsTheMost /\ StretchesAreMaximal
=============================================================================
