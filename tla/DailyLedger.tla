---------------------------- MODULE DailyLedger -----------------------------
(***************************************************************************)
(* The timetable and the dated rows it becomes: the slots and cycles       *)
(* (endpoints/schedule.py, services/master_slot.py), the generator         *)
(* (cron/ledger_generator.py), absences (services/reverse_rsvp.py) and the *)
(* marks and notes on a day (endpoints/attendance.py).                     *)
(*                                                                         *)
(* A change of the timetable reads the slot and the days it has produced,  *)
(* and writes later; so does the generator.  Each is two steps here, what  *)
(* it read and what it commits, on Postgres at READ COMMITTED.  Between    *)
(* them another request may commit, and days may be marked or written.     *)
(* A write names the day it read by its id: an UPDATE of a day that has    *)
(* gone fails the request, a DELETE of one does nothing.                   *)
(*                                                                         *)
(* One cycle and its one activity.  A place is a room at an hour, so two   *)
(* days clash when date and place agree (Windows has the overlap rule, and *)
(* Reservations the bookings a slot is also checked against).  A rule is   *)
(* the set of dates it lands on.                                           *)
(***************************************************************************)
EXTENDS Integers, FiniteSets, Sequences, SequencesExt

CONSTANTS
    Slots,       \* structural_master_slots, by id
    Places,      \* rooms at hours
    Leads,
    LastDate,    \* bound: the last date there is
    Shapes,      \* bound: where, by whom and when a class may be held
    Horizon,     \* LEDGER_HORIZON_DAYS
    Absences,    \* bound: the absence requests
    AbsenceOf,   \* who each is for, from when and to when
    Slots0,      \* bound: the timetable to begin with, as imported
    Requests,    \* requests and jobs in flight at once
    Ops,         \* bound: which of them are made
    MaxOps,      \* bound: how many
    MaxLaid,     \* bound: how often one day is written
    NULL

Dates == 0..LastDate

States == {"SCHEDULED", "ON_LEAVE", "PROXY_SUBSTITUTE"}
NoSlot == [at |-> "none", place |-> NULL, lead |-> NULL, rule |-> {}]

\* A row of daily_ledger.
Day == [place : Places \cup {NULL}, lead : Leads \cup {NULL}, state : States,
        used : {"no", "marked", "noted"}, attached : BOOLEAN,
        excused : BOOLEAN, handed : BOOLEAN]

ASSUME LedgerAssumption ==
    /\ Slots \subseteq Nat /\ IsFiniteSet(Slots)
    /\ {LastDate, Horizon, MaxOps, MaxLaid} \subseteq Nat
    /\ Shapes \subseteq [at : {"live"}, place : Places, lead : Leads, rule : SUBSET Dates]
    /\ Slots0 \in [Slots -> Shapes \cup {NoSlot}]
    /\ AbsenceOf \in [Absences -> [lead : Leads, first : Dates, last : Dates]]
    /\ NULL \notin Places \cup Leads \cup Slots \cup Day

VARIABLES
    today,    \* org_today
    open,     \* operational_status of the cycle
    ended,    \* retired_at of the activity is set
    slots,    \* each slot: where it is on the timetable
    days,     \* daily_ledger, by slot and date; NULL where there is no row
    laid,     \* how often each has been written, which tells rows apart
    absence,  \* approval_state of each absence
    tx,       \* what each request has read
    made      \* how many requests there have been

vars == <<today, open, ended, slots, days, laid, absence, tx, made>>

Keys == Slots \X Dates

\* A request that has not come: what it does, to which slot, the slot as it
\* was and as it will be, the days to write, move and remove, and of what it
\* read the rows and the records.
Idle == [op |-> "none", slot |-> NULL, was |-> NoSlot, to |-> NoSlot, write |-> <<>>,
         move |-> {}, drop |-> {}, seen |-> {}, records |-> {}]

Init ==
    /\ today = 0 /\ open \in BOOLEAN /\ ended = FALSE
    /\ slots = Slots0
    /\ days = [k \in Keys |-> NULL]
    /\ laid = [k \in Keys |-> 0]
    /\ absence = [a \in Absences |-> "none"]
    /\ tx = [r \in Requests |-> Idle]
    /\ made = 0
-----------------------------------------------------------------------------
(* Reading. *)

Live == {s \in Slots : ~ended /\ slots[s].at = "live"}
Rows == {k \in Keys : days[k] # NULL}

\* A row as it is told from a later one of the same slot and date.
Id(k) == <<k, laid[k]>>

\* Mutant: a note alone does not make a day a record.
RowsInUseMarked(ks) == {k \in ks : days[k].used = "marked"}

\* rows_in_use: the days somebody has marked or written a note on.
RowsInUse(ks) == {k \in ks : days[k].used # "no"}

\* Mutant: the first of the days is left out.
AheadAfter(s, from) == {k \in Rows : k[1] = s /\ days[k].attached /\ k[2] > from}

\* The days a slot has produced from a date on.
Ahead(s, from) == {k \in Rows : k[1] = s /\ days[k].attached /\ k[2] >= from}

\* Another day is on the place on that date.
DayThere(place, date, but) ==
    \E k \in Rows : days[k].place = place /\ k[2] = date /\ ~(k[1] = but /\ days[k].attached)

\* slots_against_slot, for a slot of the open cycle.
Scheduled(place, rule, but) ==
    \E s \in Live \ {but} : slots[s].place = place /\ slots[s].rule \cap rule # {}

\* days_against_slot
DaysAgainst(place, rule, but) ==
    \E d \in rule : d >= today /\ DayThere(place, d, but)

\* The approved absences of a lead that cover a date.
LeaveOf(lead, date) ==
    {a \in Absences : absence[a] = "approved" /\ AbsenceOf[a].lead = lead
                      /\ AbsenceOf[a].first <= date /\ date <= AbsenceOf[a].last}

\* The records at the moment of reading: days in use, and days over.
Records == {k \in Rows : days[k].used # "no" \/ k[2] < today}

Free(r, op) == op \in Ops /\ tx[r].op = "none" /\ made < MaxOps

\* A request whose reading and writing nothing can come between.
AtOnce(op) == op \in Ops /\ made < MaxOps /\ made' = made + 1

\* What the request read and will write.
Reads(r, x) ==
    /\ tx' = [tx EXCEPT ![r] = [x EXCEPT !.seen = {Id(k) : k \in Rows},
                                        !.records = {Id(k) : k \in Records}]]
    /\ made' = made + 1
    /\ UNCHANGED <<today, open, ended, slots, days, laid, absence>>
-----------------------------------------------------------------------------
(* The generator. *)

\* _day_fields
DayFields(s, date) ==
    [slot |-> s, date |-> date, place |-> slots[s].place, lead |-> slots[s].lead,
     state |-> IF LeaveOf(slots[s].lead, date) # {} THEN "ON_LEAVE" ELSE "SCHEDULED"]

\* Earliest first, and the older slot first within a date.
Before(j, k) == j[2] < k[2] \/ (j[2] = k[2] /\ j[1] < k[1])

\* The keys in that order: the n-th has n - 1 before it.
InOrder(ks) ==
    [n \in 1..Cardinality(ks) |-> CHOOSE k \in ks : Cardinality({j \in ks : Before(j, k)}) = n - 1]

\* The dates of the window with no row yet.
Missing(window) ==
    InOrder({k \in Keys : open /\ k[1] \in Live /\ k[2] \in window \cap slots[k[1]].rule
                          /\ (days[k] = NULL \/ ~days[k].attached)})

\* A row sits on nothing there and nothing kept before it.
Fits(kept, row) ==
    /\ ~DayThere(row.place, row.date, NULL)
    /\ \A i \in DOMAIN kept : <<kept[i].place, kept[i].date>> # <<row.place, row.date>>

\* _without_overlaps
WithoutOverlaps(ks) ==
    FoldLeft(LAMBDA kept, k : LET row == DayFields(k[1], k[2])
                              IN  IF Fits(kept, row) THEN Append(kept, row) ELSE kept,
             <<>>, ks)

\* materialize_horizon reads; the nightly job, an import, or a slot just created.
MaterializeHorizon(r) ==
    LET rows == WithoutOverlaps(Missing(today + 1 .. today + Horizon))
    IN  Free(r, "fill") /\ rows # <<>> /\ Reads(r, [Idle EXCEPT !.op = "fill", !.write = rows])

\* generate_daily_ledger_entries reads, for today at a start (catch_up_ledger),
\* or for a date asked for.
GenerateDay(r, date) ==
    LET rows == WithoutOverlaps(Missing({date}))
    IN  /\ Free(r, "day") /\ date \in {today, today + 1} /\ rows # <<>>
        /\ Reads(r, [Idle EXCEPT !.op = "fill", !.write = rows])

\* The row can be inserted: one day per slot and date, one day per place and
\* date, and its slot is still there.
Insertable(ds, row) ==
    /\ slots[row.slot].at # "gone"
    /\ ds[<<row.slot, row.date>>] = NULL
    /\ \A k \in Keys : ds[k] # NULL => <<ds[k].place, k[2]>> # <<row.place, row.date>>

\* The timetable and the leave are as they were read.
StillSo(row) ==
    /\ open /\ row.slot \in Live /\ row.date \in slots[row.slot].rule
    /\ row = DayFields(row.slot, row.date)

\* A new row.  History: excused, that it was written while the timetable was
\* changed; handed, that its lead or another absence was changed after.
NewDay(row) == [place |-> row.place, lead |-> row.lead, state |-> row.state, used |-> "no",
                attached |-> TRUE, excused |-> ~StillSo(row), handed |-> FALSE]

\* A batch in a savepoint, and a row at a time once one of it is refused: the
\* rows the constraints refuse are skipped, the others written.
WriteDays(r) ==
    LET after == FoldLeft(LAMBDA ds, row : IF Insertable(ds, row)
                                             THEN [ds EXCEPT ![<<row.slot, row.date>>] = NewDay(row)]
                                             ELSE ds,
                          days, tx[r].write)
    IN  /\ tx[r].op = "fill"
        /\ \A k \in Keys : after[k] # days[k] => laid[k] < MaxLaid
        /\ days' = after
        /\ laid' = [k \in Keys |-> IF after[k] # days[k] THEN laid[k] + 1 ELSE laid[k]]
        /\ tx' = [tx EXCEPT ![r] = Idle]
        /\ UNCHANGED <<today, open, ended, slots, absence, made>>
-----------------------------------------------------------------------------
(* Slots: what each request reads, checks and plans. *)

\* create_master_slot: refused over another class of an open cycle or a day there.
CreateMasterSlot(r, s, new) ==
    /\ Free(r, "create") /\ slots[s].at = "none" /\ ~ended
    /\ open => ~Scheduled(new.place, new.rule, s)
    /\ ~DaysAgainst(new.place, new.rule, s)
    /\ Reads(r, [Idle EXCEPT !.op = "create", !.slot = s, !.to = new])

\* propagate_slot_corrections: a row is written where it differs from the slot,
\* in the columns that differ (NULL: not written).
Corrections(ks, slot) ==
    LET new == {[id |-> Id(k), place |-> IF days[k].place # slot.place THEN slot.place ELSE NULL,
                 lead |-> IF days[k].lead # slot.lead THEN slot.lead ELSE NULL] : k \in ks}
    IN  {c \in new : c.place # NULL \/ c.lead # NULL}

\* update_master_slot.  The checks run when the class moves; another rule
\* withdraws the days ahead, and is refused over one in use; the rest are
\* corrected from tomorrow, those not in use (propagate_slot_corrections).
UpdateMasterSlot(r, s, new) ==
    LET old == slots[s]
        moves == new.place # old.place \/ new.rule # old.rule
        ahead == Ahead(s, today)
        drop == IF new.rule # old.rule THEN ahead ELSE {}
        move == Corrections(Ahead(s, today + 1) \ (RowsInUse(ahead) \cup drop), new)
    IN  /\ Free(r, "update") /\ old.at = "live"
        /\ moves => (open => ~Scheduled(new.place, new.rule, s)) /\ ~DaysAgainst(new.place, new.rule, s)
        /\ new.rule # old.rule => RowsInUse(ahead) = {}
        /\ Reads(r, [Idle EXCEPT !.op = "change", !.slot = s, !.was = old, !.to = new,
                                 !.move = move, !.drop = {Id(k) : k \in drop}])

\* delete_slot: withdraw_planned_days refuses over a day in use.
DeleteMasterSlot(r, s) ==
    /\ Free(r, "delete") /\ slots[s].at = "live" /\ RowsInUse(Ahead(s, today)) = {}
    /\ Reads(r, [Idle EXCEPT !.op = "change", !.slot = s, !.was = slots[s],
                             !.to = [slots[s] EXCEPT !.at = "gone"],
                             !.drop = {Id(k) : k \in Ahead(s, today)}])

\* The days ahead that are still plans (_retire_days_ahead).
Plans(ks) == {Id(k) : k \in ks \ RowsInUse(ks)}

\* retire_master_slot
RetireMasterSlot(r, s) ==
    /\ Free(r, "retire") /\ slots[s].at = "live"
    /\ Reads(r, [Idle EXCEPT !.op = "change", !.slot = s, !.was = slots[s],
                             !.to = [slots[s] EXCEPT !.at = "retired"],
                             !.drop = Plans(Ahead(s, today))])

\* retire_activity: the activity, every slot it has, and its days ahead.
RetireActivity(r) ==
    /\ Free(r, "end") /\ ~ended
    /\ Reads(r, [Idle EXCEPT !.op = "end", !.drop = Plans({k \in Rows : k[2] >= today})])

\* close_cycle: every day of the cycle from today on, attached or not.
CloseCycle(r) ==
    /\ Free(r, "close")
    /\ Reads(r, [Idle EXCEPT !.op = "close", !.drop = Plans({k \in Rows : k[2] >= today})])

\* open_cycle: its slots are checked against one another and the days there.
OpenCycle(r) ==
    /\ Free(r, "open") /\ ~open
    /\ \A s \in Live : ~Scheduled(slots[s].place, slots[s].rule, s)
                       /\ ~DaysAgainst(slots[s].place, slots[s].rule, s)
    /\ Reads(r, [Idle EXCEPT !.op = "open"])
-----------------------------------------------------------------------------
(* Slots: what each request commits. *)

\* The row without the days planned, and with the columns corrected; a row the
\* request did not read keeps what it has, and is excused.
Committed(r) ==
    LET x == tx[r]
        Put(old, cs) == IF \E c \in cs : c # NULL THEN CHOOSE c \in cs : c # NULL ELSE old
    IN  [k \in Keys |->
           IF days[k] = NULL \/ Id(k) \in x.drop THEN NULL
           ELSE LET mine == x.slot = NULL \/ k[1] = x.slot
                    new == {c \in x.move : c.id = Id(k)}
                    lead == Put(days[k].lead, {c.lead : c \in new})
                IN  [days[k] EXCEPT !.excused = @ \/ (mine /\ Id(k) \notin x.seen),
                                    !.attached = @ /\ ~(mine /\ x.to.at = "gone"),
                                    !.place = Put(@, {c.place : c \in new}),
                                    !.lead = lead, !.handed = @ \/ lead # days[k].lead]]

\* Every row to be updated is still there, and the corrected days meet no other.
Accepted(r) ==
    /\ tx[r].to.at = "gone" \/ tx[r].to = tx[r].was \/ slots[tx[r].slot].at # "gone"
    /\ \A c \in tx[r].move : days[c.id[1]] # NULL /\ Id(c.id[1]) = c.id
    /\ LET ds == Committed(r)
       IN  \A j, k \in Keys : j # k /\ ds[j] # NULL /\ ds[k] # NULL =>
             <<ds[j].place, j[2]>> # <<ds[k].place, k[2]>>

\* The slot with the columns the request changed.
Changed(now, was, to) ==
    IF now.at = "gone" THEN now
    ELSE [f \in DOMAIN now |-> IF to[f] # was[f] THEN to[f] ELSE now[f]]

\* The new slot; _fill_horizon is next.
CommitCreate(r) ==
    /\ tx[r].op = "create" /\ slots[tx[r].slot].at = "none"
    /\ slots' = [slots EXCEPT ![tx[r].slot] = tx[r].to]
    /\ tx' = [tx EXCEPT ![r] = [Idle EXCEPT !.op = "created"]]
    /\ UNCHANGED <<today, open, ended, days, laid, absence, made>>

\* _fill_horizon reads the days to write, as materialize_horizon does, or fails
\* and is logged.
FillHorizon(r) ==
    LET rows == WithoutOverlaps(Missing(today + 1 .. today + Horizon))
    IN  /\ tx[r].op = "created"
        /\ \/ rows # <<>> /\ tx' = [tx EXCEPT ![r] = [Idle EXCEPT !.op = "fill", !.write = rows]]
           \/ tx' = [tx EXCEPT ![r] = Idle]
        /\ UNCHANGED <<today, open, ended, slots, days, laid, absence, made>>

\* An edit, a delete or a retirement; a refused write leaves everything as it was.
CommitChange(r) ==
    /\ tx[r].op = "change"
    /\ IF Accepted(r)
         THEN /\ slots' = [slots EXCEPT ![tx[r].slot] = Changed(@, tx[r].was, tx[r].to)]
              /\ days' = Committed(r)
         ELSE UNCHANGED <<slots, days>>
    /\ tx' = [tx EXCEPT ![r] = Idle]
    /\ UNCHANGED <<today, open, ended, laid, absence, made>>

CommitEnd(r) ==
    /\ tx[r].op = "end"
    /\ ended' = TRUE
    /\ slots' = [s \in Slots |-> IF slots[s].at = "live" THEN [slots[s] EXCEPT !.at = "retired"]
                                 ELSE slots[s]]
    /\ days' = Committed(r)
    /\ tx' = [tx EXCEPT ![r] = Idle]
    /\ UNCHANGED <<today, open, laid, absence, made>>

CommitCycle(r) ==
    /\ tx[r].op \in {"close", "open"}
    /\ open' = (tx[r].op = "open")
    /\ days' = IF tx[r].op = "close" THEN Committed(r) ELSE days
    /\ tx' = [tx EXCEPT ![r] = Idle]
    /\ UNCHANGED <<today, ended, slots, laid, absence, made>>
-----------------------------------------------------------------------------
(* Days: marks, notes, and what an admin sets. *)

\* mark_attendance, or create_annotation.
WriteMark(k, how) ==
    /\ AtOnce("mark") /\ k \in Rows /\ days[k].used = "no"
    /\ days' = [days EXCEPT ![k].used = how]
    /\ UNCHANGED <<today, open, ended, slots, laid, absence, tx>>

\* update_ledger_entry: an admin sets the day's state; one put back to
\* SCHEDULED this way counts as handed on.
UpdateLedgerEntry(k, to) ==
    /\ AtOnce("cover") /\ k \in Rows /\ days[k].state # to
    /\ days' = [days EXCEPT ![k].state = to, ![k].handed = @ \/ to = "SCHEDULED"]
    /\ UNCHANGED <<today, open, ended, slots, laid, absence, tx>>
-----------------------------------------------------------------------------
(* Absences. *)

\* route_absence_declaration
RouteAbsenceDeclaration(a) ==
    /\ AtOnce("absent") /\ absence[a] = "none"
    /\ absence' = [absence EXCEPT ![a] = "pending"]
    /\ UNCHANGED <<today, open, ended, slots, days, laid, tx>>

\* Mutant: an absence is the one day it begins on.
InRangeFirst(a, k) == k[2] = AbsenceOf[a].first /\ days[k].lead = AbsenceOf[a].lead

\* in_range
InRange(a, k) ==
    /\ AbsenceOf[a].first <= k[2] /\ k[2] <= AbsenceOf[a].last
    /\ days[k].lead = AbsenceOf[a].lead

\* commit_absence_override, which a decision may be revisited by; a day put
\* back while another approved absence covers it counts as handed on.
CommitAbsenceOverride(a, to) ==
    LET hit == {k \in Rows : InRange(a, k) /\ (to # "approved" => days[k].state = "ON_LEAVE")}
    IN  /\ AtOnce("absent") /\ absence[a] # "none"
        /\ absence' = [absence EXCEPT ![a] = to]
        /\ days' = [k \in Keys |->
             IF k \notin hit THEN days[k]
             ELSE IF to = "approved" THEN [days[k] EXCEPT !.state = "ON_LEAVE"]
             ELSE [days[k] EXCEPT !.state = "SCHEDULED",
                                  !.handed = @ \/ LeaveOf(days[k].lead, k[2]) \ {a} # {}]]
        /\ UNCHANGED <<today, open, ended, slots, laid, tx>>
-----------------------------------------------------------------------------
NextDay ==
    /\ today < LastDate
    /\ today' = today + 1
    /\ UNCHANGED <<open, ended, slots, days, laid, absence, tx, made>>

Reading(r) ==
    \/ MaterializeHorizon(r) \/ CloseCycle(r) \/ OpenCycle(r) \/ RetireActivity(r)
    \/ \E d \in Dates : GenerateDay(r, d)
    \/ \E s \in Slots : DeleteMasterSlot(r, s) \/ RetireMasterSlot(r, s)
    \/ \E s \in Slots, new \in Shapes :
         CreateMasterSlot(r, s, new) \/ UpdateMasterSlot(r, s, new)

Committing(r) ==
    \/ WriteDays(r) \/ CommitCreate(r) \/ FillHorizon(r)
    \/ CommitChange(r) \/ CommitEnd(r) \/ CommitCycle(r)

Next ==
    \/ \E r \in Requests : Reading(r) \/ Committing(r)
    \/ \E k \in Keys, how \in {"marked", "noted"} : WriteMark(k, how)
    \/ \E k \in Keys, to \in States : UpdateLedgerEntry(k, to)
    \/ \E a \in Absences : RouteAbsenceDeclaration(a)
    \/ \E a \in Absences, to \in {"approved", "denied", "pending"} : CommitAbsenceOverride(a, to)
    \/ NextDay

Spec == Init /\ [][Next]_vars
-----------------------------------------------------------------------------
(* What it promises. *)

\* No request removes or rewrites a day that was over, or carried attendance
\* or a note, when it read the ledger, whichever way the class is changed.
RecordsSurvive ==
    [][\A r \in Requests : tx'[r] = Idle =>
         \A id \in tx[r].records : days[id[1]] # NULL /\ Id(id[1]) = id =>
             /\ days'[id[1]] # NULL /\ laid'[id[1]] = laid[id[1]]
             /\ days'[id[1]].place = days[id[1]].place
             /\ days'[id[1]].lead = days[id[1]].lead]_vars

\* A plan for tomorrow or later says what its slot says, where the class was
\* not changed while the day was being written.
PlansFollowTheSlot ==
    \A k \in Rows : k[2] > today /\ days[k].used = "no" /\ ~days[k].excused /\ days[k].attached
                    /\ k[1] \in Live =>
        /\ days[k].place = slots[k[1]].place /\ days[k].lead = slots[k[1]].lead
        /\ k[2] \in slots[k[1]].rule

\* What is off the timetable holds no place: no plan ahead is left of a
\* retired or deleted slot, or of a closed cycle, but one written meanwhile.
RetiredHoldNothing ==
    \A k \in Rows : k[2] >= today /\ days[k].used = "no" /\ ~days[k].excused =>
        open /\ k[1] \in Live /\ days[k].attached

\* The plans ahead are those of the timetable, whatever was created, moved,
\* retired, opened and closed while days were being written.
PlansAreOfTheTimetable == PlansFollowTheSlot /\ RetiredHoldNothing

\* A day inside its lead's approved leave does not read as scheduled, unless
\* the decision on another absence, or an admin, put it back, or the class changed
\* hands.
LeaveShows ==
    \A k \in Rows : days[k].state = "SCHEDULED" /\ ~days[k].excused /\ ~days[k].handed =>
        LeaveOf(days[k].lead, k[2]) = {}
=============================================================================
