----------------------------- MODULE GuestVisits -----------------------------
(***************************************************************************)
(* Visits at the door: check-in, decision and extension                    *)
(* (api/v1/endpoints/guest.py), the notice of visits that run over         *)
(* (cron/guest_overstay.py) and the purge (cron/guest_retention.py).       *)
(*                                                                         *)
(* A decision and an extension read the row and commit later, and write    *)
(* the columns that differ from what they read.  The notice reads the      *)
(* overdue visits, waits for every message it sends, and stamps them all   *)
(* in one commit.  Every replica runs it.                                  *)
(*                                                                         *)
(* An end is how far off it is, so that time needs no clock.  A visit may  *)
(* be purged whenever it is old enough, and no length of a visit keeps it  *)
(* from that.  Who may decide, and whom a notice reaches, is left out.     *)
(***************************************************************************)
EXTENDS Integers, FiniteSets

CONSTANTS
    Visits,      \* guest_gate_registry, by id
    Desks,       \* decisions and extensions in flight at once
    Replicas,    \* the processes that run the notice
    Length,      \* GUEST_VISIT_LENGTH_MINUTES; 0 gives a visit no end
    Grants,      \* what an extension may give
    MaxFailed,   \* bound: how many passes of the notice die
    MaxEnd,      \* bound: how far off an end may be
    NULL

ASSUME VisitsAssumption == {Length, MaxFailed, MaxEnd} \subseteq Nat /\ Grants \subseteq Nat \ {0}

VARIABLES
    visits,    \* the row of each visit
    desk,      \* what each decision or extension will write
    pass,      \* what each pass has read, and whom it has still to tell of
    told,      \* history: how often the present end of each was announced
    crossed,   \* history: the row holds what two writers wrote past each other
    failed     \* how many passes told and did not stamp

door == <<visits, desk, pass, told, crossed, failed>>

\* Pending and denied are alike to everything here.
NoVisit == [at |-> "none", approved |-> FALSE, end |-> NULL, stamped |-> FALSE]
NoDesk == [visit |-> NULL, write |-> <<>>, stale |-> FALSE]
NoPass == [due |-> {}, todo |-> {}, stale |-> {}]

VisitInit ==
    /\ visits = [v \in Visits |-> NoVisit]
    /\ desk = [d \in Desks |-> NoDesk]
    /\ pass = [p \in Replicas |-> NoPass]
    /\ told = [v \in Visits |-> 0]
    /\ crossed = [v \in Visits |-> FALSE]
    /\ failed = 0

Here(v) == visits[v].at = "here"
-----------------------------------------------------------------------------
(* The desk. *)

\* process_guest_entry, past its budget (RateLimit).
CheckIn(v) ==
    /\ visits[v].at = "none"
    /\ visits' = [visits EXCEPT ![v].at = "here"]
    /\ UNCHANGED <<desk, pass, told, crossed, failed>>

\* The columns that differ from the row as it was read; an end that is set is
\* another moment than any before.
Differing(row, new) ==
    LET cols == {f \in DOMAIN row : new[f] # row[f] \/ (f = "end" /\ new.end # NULL)}
    IN  [f \in cols |-> new[f]]

\* The end a decision gives a visit.
DecidedEnd(row, approve) == IF approve /\ Length > 0 THEN Length ELSE NULL

\* decide_guest_entry reads.
Decide(d, v, approve) ==
    /\ desk[d] = NoDesk /\ Here(v)
    /\ desk' = [desk EXCEPT ![d] = [visit |-> v, stale |-> FALSE, write |->
         Differing(visits[v], [visits[v] EXCEPT !.approved = approve, !.stamped = FALSE,
                                                !.end = DecidedEnd(visits[v], approve)])]]
    /\ UNCHANGED <<visits, pass, told, crossed, failed>>

\* Mutant: the stamp of the last notice stays.
ExtendedStamped(row, grant) == [row EXCEPT !.end = @ + grant]

\* From the later of now and the end there is; running over again is told again.
Extended(row, grant) == [row EXCEPT !.end = @ + grant, !.stamped = FALSE]

\* extend_guest_visit reads.
Extend(d, v, grant) ==
    /\ desk[d] = NoDesk /\ Here(v)
    /\ visits[v].approved /\ visits[v].end # NULL /\ visits[v].end + grant <= MaxEnd
    /\ desk' = [desk EXCEPT ![d] = [visit |-> v, stale |-> FALSE, write |->
         Differing(visits[v], Extended(visits[v], grant))]]
    /\ UNCHANGED <<visits, pass, told, crossed, failed>>

\* Either commits.  The row may have been purged; a new end has not been told.
CommitDesk(d) ==
    LET v == desk[d].visit
        new == desk[d].write
    IN  /\ v # NULL
        /\ IF Here(v)
             THEN /\ visits' = [visits EXCEPT ![v] = [f \in DOMAIN @ |-> IF f \in DOMAIN new THEN new[f] ELSE @[f]]]
                  /\ told' = [told EXCEPT ![v] = IF "end" \in DOMAIN new THEN 0 ELSE @]
                  /\ crossed' = [crossed EXCEPT ![v] = desk[d].stale]
                  /\ pass' = [p \in Replicas |-> IF v \in pass[p].due
                                THEN [pass[p] EXCEPT !.stale = @ \cup {v}] ELSE pass[p]]
                  /\ desk' = [e \in Desks |-> IF e = d THEN NoDesk
                                ELSE IF desk[e].visit = v THEN [desk[e] EXCEPT !.stale = TRUE] ELSE desk[e]]
             ELSE /\ desk' = [desk EXCEPT ![d] = NoDesk]
                  /\ UNCHANGED <<visits, pass, told, crossed>>
        /\ UNCHANGED failed
-----------------------------------------------------------------------------
(* announce_overstayed_visits *)

\* Past its end, if it has one.
Over(v) == Here(v) /\ visits[v].approved /\ visits[v].end = 0

Overdue == {v \in Visits : Over(v) /\ ~visits[v].stamped}

PassRead(p) ==
    /\ pass[p] = NoPass /\ Overdue # {}
    /\ pass' = [pass EXCEPT ![p] = [due |-> Overdue, todo |-> Overdue, stale |-> {}]]
    /\ UNCHANGED <<visits, desk, told, crossed, failed>>

\* One visit's messages, which name the end that was read; the others wait.
PassTell(p, v) ==
    /\ v \in pass[p].todo
    /\ told' = [told EXCEPT ![v] = IF v \in pass[p].stale THEN @ ELSE @ + 1]
    /\ pass' = [pass EXCEPT ![p].todo = @ \ {v}]
    /\ UNCHANGED <<visits, desk, crossed, failed>>

\* All of them are stamped, and what was read of them elsewhere is outdated.
PassStamp(p) ==
    LET stamp == {v \in pass[p].due : Here(v)}
    IN  /\ pass[p].due # {} /\ pass[p].todo = {}
        /\ visits' = [v \in Visits |-> IF v \in stamp THEN [visits[v] EXCEPT !.stamped = TRUE]
                                       ELSE visits[v]]
        /\ crossed' = [v \in Visits |-> crossed[v] \/ (v \in stamp /\ v \in pass[p].stale)]
        /\ desk' = [e \in Desks |-> IF desk[e].visit \in stamp THEN [desk[e] EXCEPT !.stale = TRUE]
                                    ELSE desk[e]]
        /\ pass' = [pass EXCEPT ![p] = NoPass]
        /\ UNCHANGED <<told, failed>>

\* The pass is rolled back: a visit it read has been purged, which an UPDATE
\* of it may find; or its process dies.
PassFails(p) ==
    /\ pass[p].due # {}
    /\ \/ pass[p].todo = {} /\ \E v \in pass[p].due : ~Here(v)
       \/ failed < MaxFailed
    /\ pass' = [pass EXCEPT ![p] = NoPass]
    /\ failed' = failed + 1
    /\ UNCHANGED <<visits, desk, told, crossed>>
-----------------------------------------------------------------------------
\* purge_old_guest_check_ins: every check-in older than the cutoff.
Purge(old) ==
    /\ old # {}
    /\ visits' = [v \in Visits |-> IF v \in old THEN [NoVisit EXCEPT !.at = "gone"] ELSE visits[v]]
    /\ told' = [v \in Visits |-> IF v \in old THEN 0 ELSE told[v]]
    /\ crossed' = [v \in Visits |-> crossed[v] /\ v \notin old]
    /\ UNCHANGED <<desk, pass, failed>>

Sooner(end) == IF end \in {NULL, 0} THEN end ELSE end - 1

\* Every end is nearer, those about to be written too.
Tick ==
    /\ visits' = [v \in Visits |-> [visits[v] EXCEPT !.end = Sooner(@)]]
    /\ desk' = [d \in Desks |-> IF "end" \in DOMAIN desk[d].write
                                THEN [desk[d] EXCEPT !.write.end = Sooner(@)] ELSE desk[d]]
    /\ UNCHANGED <<pass, told, crossed, failed>>

Announce(p) == PassRead(p) \/ (\E v \in Visits : PassTell(p, v)) \/ PassStamp(p) \/ PassFails(p)

VisitNext ==
    \/ \E v \in Visits : CheckIn(v)
    \/ \E d \in Desks, v \in Visits, approve \in BOOLEAN : Decide(d, v, approve)
    \/ \E d \in Desks, v \in Visits, grant \in Grants : Extend(d, v, grant)
    \/ \E d \in Desks : CommitDesk(d)
    \/ \E p \in Replicas : Announce(p)
    \/ \E old \in SUBSET {v \in Visits : Here(v)} : Purge(old)
    \/ Tick
-----------------------------------------------------------------------------

\* "Tells the desk when an approved visit has run past its end": every visit
\* that runs over is announced or dealt with, one that was extended or
\* approved again after an earlier notice too, unless two writers wrote past
\* each other.
EveryOverrunIsTold ==
    \A v \in Visits : (Over(v) /\ told[v] = 0 /\ ~crossed[v]) ~> ~(Over(v) /\ told[v] = 0 /\ ~crossed[v])

=============================================================================
