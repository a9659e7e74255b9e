--------------------------- MODULE MCDailyLedger ----------------------------
(* DailyLedger for TLC: three dates, and an absence of the lead over two. *)
EXTENDS DailyLedger, TLC

CONSTANTS p, q, ann, bob, r1, r2

LeaveToTheEnd == [a \in Absences |-> [lead |-> ann, first |-> a, last |-> 2]]
Class == [at |-> "live", place |-> p, lead |-> ann, rule |-> {1, 2}]
OneChange == {Class, [Class EXCEPT !.place = q], [Class EXCEPT !.lead = bob],
              [Class EXCEPT !.rule = {2}]}

\* One class on the timetable, and room for another.
OneClass == [s \in {1, 2} |-> IF s = 1 THEN Class ELSE NoSlot]

Alike == Permutations({r1, r2})
=============================================================================
