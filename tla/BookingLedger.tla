--------------------------- MODULE BookingLedger ----------------------------
(***************************************************************************)
(* What the booking routes promise, without transactions, locks or walks:  *)
(* a table of reservations that changes in whole steps.  A booking appears *)
(* with everything held for it or not at all, and only where it fits; a    *)
(* cancellation takes the family along; a mode or capacity changes only to *)
(* one the standing bookings fit.  Classes come and go on their own: the   *)
(* timetable is promised to nobody here, except that a booking is never    *)
(* put on a class.                                                         *)
(***************************************************************************)
EXTENDS Windows

CONSTANTS Resources, NoRow, NoRef

VARIABLES res, rows, classes

ledger == <<res, rows, classes>>

Standing(table, rid) == {b \in table : b.rid = rid /\ b.status = "HELD"}

\* The bookings of a resource respect its mode.
Fits(rid, mode, cap, holds) ==
    CASE mode = "EXCLUSIVE" -> \A a, b \in holds : a # b => ~Overlaps(a.win, b.win)
      [] mode = "POOLED" -> \A b \in holds : PoolPeak(holds, b.win) <= cap
      [] mode = "SHARED" -> TRUE

ClassFree(rid, win) == \A c \in classes : c.rid = rid => ~Overlaps(c.win, win)

LedgerInit == rows = {} /\ classes = {}

\* One parent and its children, all new, all standing, all fitting.
Book ==
    /\ rows \subseteq rows' /\ rows' # rows
    /\ LET new == rows' \ rows
       IN  /\ \E p \in new :
                /\ p.parent = NoRow
                /\ \A c \in new \ {p} : c.parent = p.id /\ c.by = p.by /\ c.rid # p.rid
           /\ \A b \in new :
                /\ b.status = "HELD" /\ b.mode = res[b.rid].mode
                /\ b.mode = "SHARED" \/ ClassFree(b.rid, b.win)
                /\ \A a \in rows' \ {b} :
                     a.id # b.id /\ (a.by = b.by => a.key # b.key /\ (a.ref # b.ref \/ a.ref = NoRef))
    /\ \A rid \in Resources : Fits(rid, res[rid].mode, res[rid].cap, Standing(rows', rid))
    /\ UNCHANGED <<res, classes>>

\* One reservation and whatever is still held for it; nothing outside its
\* family is touched.
Cancel ==
    \E b \in rows : \E at \in {c.at : c \in rows'} :
        /\ \E going \in SUBSET {c \in rows : c.parent = b.id} :
             /\ \A c \in rows : c.parent = b.id /\ c.status = "HELD" => c \in going
             /\ rows' = {IF c = b \/ c \in going
                         THEN [c EXCEPT !.status = "CANCELLED", !.at = at] ELSE c : c \in rows}
        /\ UNCHANGED <<res, classes>>

\* The reference of one reservation, to one its caller has on no other.
Refer ==
    \E b \in rows : \E ref \in {c.ref : c \in rows'} :
        /\ ref = NoRef \/ \A c \in rows \ {b} : c.by = b.by => c.ref # ref
        /\ rows' = {IF c = b THEN [c EXCEPT !.ref = ref] ELSE c : c \in rows}
        /\ UNCHANGED <<res, classes>>

\* One resource, to a mode and capacity its standing bookings fit; leaving
\* shared also means meeting the timetable.
Change ==
    \E rid \in Resources :
        /\ \A other \in Resources \ {rid} : res'[other] = res[other]
        /\ rows' = {IF b.rid = rid /\ b.status = "HELD" THEN [b EXCEPT !.mode = res'[rid].mode] ELSE b :
                        b \in rows}
        /\ Fits(rid, res'[rid].mode, res'[rid].cap, Standing(rows, rid))
        /\ res[rid].mode = "SHARED" /\ res'[rid].mode # "SHARED" =>
             \A b \in Standing(rows, rid) : ClassFree(rid, b.win)
        /\ UNCHANGED classes

\* The timetable gains or loses one class.
Timetable ==
    /\ \E c \in classes \cup classes' : classes' \in {classes \cup {c}, classes \ {c}}
    /\ UNCHANGED <<res, rows>>

LedgerNext == Book \/ Cancel \/ Refer \/ Change \/ Timetable

LedgerSpec == LedgerInit /\ [][LedgerNext]_ledger
=============================================================================
