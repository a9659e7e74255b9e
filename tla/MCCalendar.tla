------------------------------ MODULE MCCalendar ------------------------------
(***************************************************************************)
(* Values for CalendarCheck: a window of the day, one that starts at       *)
(* midnight and one that runs past it; an organization on UTC and one on   *)
(* either side.                                                            *)
(***************************************************************************)
EXTENDS CalendarCheck

SomeWins == {<<1, 3>>, <<0, 2>>, <<3, 1>>}
SomeZones == {-2, 0, 1}
=============================================================================
