--------------------------- MODULE MCReservations ---------------------------
(***************************************************************************)
(* Instances of Reservations for TLC.  "Races": three resources without    *)
(* requirements and every kind of request on them.  "Walks": five          *)
(* resources with requirements, named, by kind, padded and nested.         *)
(***************************************************************************)
EXTENDS Reservations, TLC

None == [k \in Kinds |-> <<>>]

\* The requests.
BookFor(by, key, rid, win, ref, qty) ==
    [op |-> "book", by |-> by, key |-> key, rid |-> rid, win |-> win, ref |-> ref, qty |-> qty, assign |-> None]
Cancel(by, row) == [op |-> "cancel", by |-> by, row |-> row]
Refer(by, row, ref) == [op |-> "refer", by |-> by, row |-> row, ref |-> ref]
ChangeTo(rid, mode, cap, active) ==
    [op |-> "change", rid |-> rid, mode |-> mode, cap |-> cap, active |-> active]
Slot(rid, win) == [op |-> "slot", rid |-> rid, win |-> win]
Unslot(slot) == [op |-> "unslot", slot |-> slot]
-----------------------------------------------------------------------------
(* Races: 1 is exclusive, 2 a pool of two units, 3 shared. *)
RaceTxns == {"t1", "t2", "t3", "t4"}
RaceResources == {1, 2, 3}
RaceRank == [r \in RaceResources |-> r]
RaceKindOf == [r \in RaceResources |-> "ROOM"]
RaceReqs == [r \in RaceResources |-> <<>>]
RaceRes ==
    (1 :> [mode |-> "EXCLUSIVE", cap |-> 0, active |-> TRUE]) @@
    (2 :> [mode |-> "POOLED", cap |-> 2, active |-> TRUE]) @@
    (3 :> [mode |-> "SHARED", cap |-> 2, active |-> TRUE])

RaceAsk ==
    LET first == {BookFor("ann", "k1", 1, <<0, 2>>, "x", 1), BookFor("ann", "k1", 2, <<0, 2>>, "x", 2),
                  BookFor("ann", "k1", 3, <<0, 2>>, NoRef, 1)}
    IN  [t \in RaceTxns |->
          CASE t = "t1" -> first
            [] t = "t2" -> first \cup
                 {BookFor("ann", "k2", 1, <<1, 3>>, "x", 1), BookFor("bob", "k1", 2, <<1, 3>>, "x", 1),
                  BookFor("bob", "k1", 3, <<2, 4>>, NoRef, 2)}
            [] t = "t3" ->
                 {BookFor("bob", "k3", 1, <<1, 4>>, NoRef, 1), BookFor("bob", "k3", 2, <<0, 1>>, NoRef, 1),
                  BookFor("bob", "k3", 3, <<1, 4>>, NoRef, 1), Cancel("ann", <<"t1", 1>>),
                  Cancel("bob", <<"t2", 2>>), Refer("ann", <<"t2", 1>>, "y"), Refer("bob", <<"t2", 2>>, NoRef),
                  Slot(1, <<1, 2>>), Slot(2, <<1, 2>>)}
            [] t = "t4" ->
                 {Cancel("bob", <<"t1", 1>>), Cancel("root", <<"t1", 1>>), Refer("ann", <<"t1", 1>>, "y"),
                  Refer("ann", <<"t1", 1>>, "x"), Refer("ann", <<"t1", 3>>, "x"), Refer("ann", <<"t1", 3>>, "y"),
                  ChangeTo(1, "POOLED", 1, TRUE), ChangeTo(2, "POOLED", 1, TRUE), ChangeTo(2, "EXCLUSIVE", 2, TRUE),
                  ChangeTo(3, "EXCLUSIVE", 2, TRUE), ChangeTo(3, "POOLED", 0, TRUE), ChangeTo(1, "SHARED", 0, TRUE),
                  Slot(1, <<0, 1>>), Unslot("t3")}]
-----------------------------------------------------------------------------
(* Walks: room 1 needs two units of the pool 3 an hour early, room 2 if it *)
(* can be had, and a nurse; the pool needs room 2, the nurses another      *)
(* nurse.  Nurse 5 comes before nurse 4 by code.                           *)
WalkTxns == {"t1", "t2", "t3"}
WalkResources == 1..5
WalkRank == [r \in WalkResources |-> 6 - r]
WalkKinds == {"ROOM", "NURSE"}
WalkKindOf == [r \in WalkResources |-> IF r < 4 THEN "ROOM" ELSE "NURSE"]

Need(target, qty, enforcement, before, after) ==
    [target |-> target, kind |-> "NURSE", qty |-> qty, enforcement |-> enforcement,
     before |-> before, after |-> after]

WalkReqs ==
    (1 :> <<Need(3, 2, "REQUIRED", 1, 0), Need(2, 1, "ADVISORY", 0, 0), Need(NoTarget, 1, "DEFAULT", 0, 0)>>) @@
    (2 :> <<>>) @@
    (3 :> <<Need(2, 1, "ADVISORY", 0, 1)>>) @@
    (4 :> <<Need(NoTarget, 1, "ADVISORY", 0, 0)>>) @@
    (5 :> <<Need(NoTarget, 1, "ADVISORY", 0, 0)>>)

WalkRes ==
    [r \in WalkResources |-> [mode |-> IF r = 3 THEN "POOLED" ELSE "EXCLUSIVE",
                              cap |-> IF r = 3 THEN 3 ELSE 0, active |-> TRUE]]

Assigning(request, assign) == [request EXCEPT !.assign = assign @@ None]

WalkAsk ==
    LET ask == BookFor("ann", "k1", 1, <<1, 3>>, NoRef, 1)
    IN  [t \in WalkTxns |->
          CASE t = "t1" ->
                 {ask, BookFor("ann", "k1", 1, <<0, 2>>, NoRef, 1),
                  Assigning(ask, "NURSE" :> <<4>>), Assigning(ask, "NURSE" :> <<4, 5>>),
                  Assigning(ask, "ROOM" :> <<2>>), Assigning(ask, "NURSE" :> <<2>>)}
            [] t = "t2" ->
                 {ask, BookFor("bob", "k2", 3, <<1, 3>>, NoRef, 1), BookFor("bob", "k2", 3, <<0, 1>>, NoRef, 2),
                  BookFor("bob", "k2", 2, <<2, 4>>, NoRef, 1), BookFor("bob", "k2", 5, <<2, 3>>, NoRef, 1),
                  BookFor("bob", "k2", 4, <<2, 3>>, NoRef, 1)}
            [] t = "t3" ->
                 {Cancel("ann", <<"t1", 1>>), Cancel("ann", <<"t1", 3>>), ChangeTo(5, "EXCLUSIVE", 0, FALSE),
                  ChangeTo(3, "POOLED", 1, TRUE), Slot(4, <<2, 3>>), BookFor("bob", "k3", 4, <<1, 2>>, NoRef, 1)}]
=============================================================================
