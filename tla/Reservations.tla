---------------------------- MODULE Reservations ----------------------------
(***************************************************************************)
(* Holding resources: the routes of api/v1/endpoints/resources.py that     *)
(* book, cancel, re-reference and re-mode, the requirement walk of         *)
(* services/requirements.py that one booking runs, and the two timetable   *)
(* writes of api/v1/endpoints/schedule.py that contend with them.          *)
(*                                                                         *)
(* One transaction is one HTTP request.  A retry is another transaction    *)
(* whose request carries the same key.  On PostgreSQL transactions         *)
(* interleave at READ COMMITTED: each statement sees what is committed and *)
(* what its own transaction wrote.  On SQLite BEGIN IMMEDIATE lets one     *)
(* transaction run at a time (Serial).                                     *)
(*                                                                         *)
(* A row lock taken with FOR UPDATE is kept until the transaction ends.    *)
(* Between taking the lock of a resource and the end, no other booking, no *)
(* mode change and no timetable insert on that resource can commit (the    *)
(* insert's foreign key needs a share of the same row), so a check made    *)
(* under the lock and the write that rests on it are one step here.  A     *)
(* cancellation takes no lock and may come between, but only frees: the    *)
(* check answers as if the cancellation came later.                        *)
(*                                                                         *)
(* No time passes: every window is still to come, so update_resource looks *)
(* at every hold.                                                          *)
(*                                                                         *)
(* The exclusion constraint of the reservations table is left out on       *)
(* purpose: NoDoubleBooking is shown without its help, which is also why   *)
(* the branches that answer an overlap reported by the database (lost, the *)
(* commit of update_resource, the walk) are never taken.                   *)
(***************************************************************************)
EXTENDS Windows, Sequences

CONSTANTS
    Txns,       \* the requests made, one transaction each
    Callers,    \* the accounts that send them
    Admins,     \* the callers that are ORG_ADMIN
    Keys,       \* idempotency keys
    Refs,       \* external references
    Resources,  \* resource ids, numbers: the walk locks named targets in this order
    CodeRank,   \* the order of the resources' codes, in which a kind is filled
    Kinds,      \* resource classes
    KindOf,     \* the class of each resource
    Reqs,       \* the requirements each resource owns, in id order
    Default,    \* the organization's default_requirement_enforcement
    MaxDepth,   \* MAX_DEPTH, 4 in the code
    Res0,       \* the resources as they are at first
    Ask,        \* Ask[t]: the requests transaction t may turn out to be
    Serial,     \* TRUE on SQLite, FALSE on PostgreSQL
    Crashes     \* the transactions whose connection or process may die

Nobody   == "nobody"     \* no transaction
NoRow    == <<>>         \* no reservation
NoTarget == 0            \* target_resource_id is null
NoRef    == "no ref"     \* external_ref is null

\* When a class of the timetable runs: any two instants.
ClassSpans == Int \X Int

\* ck_reservations_window: a hold's two times differ, so it is not empty and
\* shorter than a day.
Spans == {w \in Int \X Int : w[1] < w[2] /\ w[2] < w[1] + Day}
Assigns == [Kinds -> Seq(Resources)]

\* A booking is its row on the resource asked for, a child a row on another
\* resource: one booking uses a resource at most once.
Ids == Txns \X Resources

Modes    == {"EXCLUSIVE", "POOLED", "SHARED"}
Resource == [mode : Modes, cap : Nat, active : BOOLEAN]

Requirement ==
    [target : Resources \cup {NoTarget}, kind : Kinds, qty : Nat \ {0},
     enforcement : {"REQUIRED", "ADVISORY", "DEFAULT"}, before : Nat, after : Nat]

\* What the routes are asked: create_reservation, cancel_reservation,
\* update_reservation, update_resource, create_master_slot, delete_master_slot.
BookRequest ==
    [op : {"book"}, by : Callers, key : Keys, rid : Resources, win : Spans,
     ref : Refs \cup {NoRef}, qty : Nat \ {0}, assign : Assigns]
CancelRequest == [op : {"cancel"}, by : Callers, row : Ids]
ReferRequest  == [op : {"refer"}, by : Callers, row : Ids, ref : Refs \cup {NoRef}]
ChangeRequest == [op : {"change"}, rid : Resources, mode : Modes, cap : Nat, active : BOOLEAN]
SlotRequest   == [op : {"slot"}, rid : Resources, win : ClassSpans]
UnslotRequest == [op : {"unslot"}, slot : Txns]

Request == BookRequest \cup CancelRequest \cup ReferRequest \cup ChangeRequest
             \cup SlotRequest \cup UnslotRequest

ASSUME ResourcesAssumption ==
    /\ Resources \subseteq Nat \ {0} /\ CodeRank \in [Resources -> Nat]
    /\ KindOf \in [Resources -> Kinds] /\ Res0 \in [Resources -> Resource]
ASSUME RequirementsAssumption ==
    /\ Default \in {"REQUIRED", "ADVISORY"} /\ MaxDepth \in Nat
    /\ Reqs \in [Resources -> Seq(Requirement)]
ASSUME TxnsAssumption ==
    /\ Nobody \notin Txns /\ NoRef \notin Refs /\ Serial \in BOOLEAN /\ Crashes \subseteq Txns
    /\ \A t \in Txns : Ask[t] \subseteq Request

VARIABLES
    res,           \* the resources table
    reservations,  \* the reservations table, as committed
    slots,         \* the timetable, as committed: one window of one class each
    feed,          \* the change markers, as committed, with the transaction that wrote them
    lock,          \* who has each resource's row lock
    pc,            \* where each transaction stands
    req,           \* what each transaction was asked
    pend,          \* the rows a transaction has inserted and not committed
    run,           \* the requirement walk of a booking: what is left to do, used and assigned;
                   \* in a cancellation, used has the resources of the children it read
    answer         \* what each request was told, and about which reservation

vars == <<res, reservations, slots, feed, lock, pc, req, pend, run, answer>>
tables == <<res, reservations, slots, feed>>

NoRun == [agenda |-> <<>>, used |-> {}, left |-> [k \in Kinds |-> <<>>]]

Init ==
    /\ res = Res0 /\ reservations = {} /\ slots = {} /\ feed = {}
    /\ lock = [r \in Resources |-> Nobody]
    /\ pc = [t \in Txns |-> "asked"]
    /\ req \in {f \in [Txns -> UNION {Ask[t] : t \in Txns}] : \A t \in Txns : f[t] \in Ask[t]}
    /\ pend = [t \in Txns |-> {}]
    /\ run = [t \in Txns |-> NoRun]
    /\ answer = [t \in Txns |-> [code |-> "none", row |-> NoRow]]
-----------------------------------------------------------------------------
(* Reading the tables. *)

Held(rows, rid) == {b \in rows : b.rid = rid /\ b.status = "HELD"}

Meeting(rows, rid, win) == {b \in Held(rows, rid) : Overlaps(b.win, win)}

OnTimetable(rid, win) == \E s \in slots : s.rid = rid /\ Overlaps(s.win, win)

\* window_conflicts and pool_state: what stands in the way of qty units of a
\* resource for a window, by its mode, among the rows the transaction sees.
Blocked(rid, win, qty, rows) ==
    \/ /\ res[rid].mode = "EXCLUSIVE"
       /\ OnTimetable(rid, win) \/ Meeting(rows, rid, win) # {}
    \/ /\ res[rid].mode = "POOLED"
       /\ \/ OnTimetable(rid, win)
          \/ PoolPeak(Meeting(rows, rid, win), win) + qty > res[rid].cap

\* _problem: the walk also asks that the resource is active, which the
\* booking of the resource itself does not.
Problem(rid, win, qty, rows) == ~res[rid].active \/ Blocked(rid, win, qty, rows)

\* A booking's parent has its caller's key with 0, its children the same key
\* with their number.
ByKey(r) == {b \in reservations : b.by = r.by /\ b.key = <<r.key, 0>>}
ByRef(by, ref) == {b \in reservations : b.by = by /\ b.ref = ref}

Fingerprint(r) == <<r.rid, r.win, r.ref, r.qty, r.assign>>

Assigned(r) == UNION {{r.assign[k][i] : i \in DOMAIN r.assign[k]} : k \in Kinds}

AssignmentsOk(r) ==
    \A k \in Kinds : \A i \in DOMAIN r.assign[k] :
        KindOf[r.assign[k][i]] = k /\ res[r.assign[k][i]].active
-----------------------------------------------------------------------------
(* How a transaction takes its turn, waits and ends. *)

Running(t) == pc[t] \notin {"asked", "done"}

\* The first statement of a request; on SQLite it waits for the writer's turn.
Starts(t, op) ==
    /\ pc[t] = "asked" /\ req[t].op = op
    /\ Serial => \A u \in Txns : ~Running(u)

Goto(t, where) == pc' = [pc EXCEPT ![t] = where]

\* Mutant: with_for_update that waits for nobody.
CanLockAnyway(t, rid) == rid \in Resources

CanLock(t, rid) == lock[rid] \in {Nobody, t}

Unlocked(t) == [r \in Resources |-> IF lock[r] = t THEN Nobody ELSE lock[r]]

\* The transaction ends, with its commit or its rollback, and the request is
\* answered.
Finish(t, code, row) ==
    /\ Goto(t, "done")
    /\ answer' = [answer EXCEPT ![t] = [code |-> code, row |-> row]]
    /\ lock' = Unlocked(t)
    /\ pend' = [pend EXCEPT ![t] = {}]
    /\ run' = [run EXCEPT ![t] = NoRun]
    /\ UNCHANGED req

\* Nothing is written and the request is answered.
Refuse(t, code, row) == Finish(t, code, row) /\ UNCHANGED tables

\* The transaction is rolled back and the request goes on in a new one.
Rollback(t, where) ==
    /\ Goto(t, where)
    /\ lock' = Unlocked(t)
    /\ pend' = [pend EXCEPT ![t] = {}]
    /\ run' = [run EXCEPT ![t] = NoRun]
    /\ UNCHANGED <<tables, req, answer>>

Mark(t, row, what) == [txn |-> t, row |-> row, what |-> what]
-----------------------------------------------------------------------------
(* create_reservation, up to the requirement walk. *)

\* What the checks made under the row lock answer; "go" when they pass.
Verdict(r) ==
    IF ByKey(r) # {} THEN
        IF \E b \in ByKey(r) : b.fp = Fingerprint(r) THEN "replayed" ELSE "key reused"
    ELSE IF r.ref # NoRef /\ ByRef(r.by, r.ref) # {} THEN "reference taken"
    ELSE IF r.qty > 1 /\ res[r.rid].mode # "POOLED" THEN "invalid"
    ELSE IF ~AssignmentsOk(r) THEN "invalid"
    ELSE IF Blocked(r.rid, r.win, r.qty, reservations) THEN "conflict"
    ELSE "go"

\* The reservation a replay or a taken reference is answered with.
Named(r, verdict) ==
    CASE verdict = "replayed" -> (CHOOSE b \in ByKey(r) : TRUE).id
      [] verdict = "reference taken" -> (CHOOSE b \in ByRef(r.by, r.ref) : TRUE).id
      [] OTHER -> NoRow

BookRefused(t) ==
    /\ Starts(t, "book") /\ CanLock(t, req[t].rid)
    /\ Verdict(req[t]) # "go"
    /\ Refuse(t, Verdict(req[t]), Named(req[t], Verdict(req[t])))

\* Mutant: the resource is read without FOR UPDATE.
BookAdmittedUnlocked(t) ==
    /\ Starts(t, "book") /\ CanLock(t, req[t].rid)
    /\ Verdict(req[t]) = "go"
    /\ Goto(t, "flush")
    /\ UNCHANGED <<tables, lock, req, pend, run, answer>>

BookAdmitted(t) ==
    /\ Starts(t, "book") /\ CanLock(t, req[t].rid)
    /\ Verdict(req[t]) = "go"
    /\ lock' = [lock EXCEPT ![req[t].rid] = t]
    /\ Goto(t, "flush")
    /\ UNCHANGED <<tables, req, pend, run, answer>>

\* Mutant: the row is written without its resource's mode.
ParentRowNoMode(t) ==
    LET r == req[t]
    IN  [id |-> <<t, r.rid>>, rid |-> r.rid, win |-> r.win, by |-> r.by, key |-> <<r.key, 0>>,
         fp |-> Fingerprint(r), ref |-> r.ref, qty |-> r.qty, mode |-> "none",
         status |-> "HELD", parent |-> NoRow, at |-> Nobody]

ParentRow(t) ==
    LET r == req[t]
    IN  [id |-> <<t, r.rid>>, rid |-> r.rid, win |-> r.win, by |-> r.by, key |-> <<r.key, 0>>,
         fp |-> Fingerprint(r), ref |-> r.ref, qty |-> r.qty, mode |-> res[r.rid].mode,
         status |-> "HELD", parent |-> NoRow, at |-> Nobody]

\* Mutant: no unique constraint on (requester, external_ref).
SameKey(a, b) == a.by = b.by /\ a.key = b.key

\* The two unique constraints: one key per caller, one reference per caller.
SameUnique(a, b) == a.by = b.by /\ (a.key = b.key \/ (a.ref # NoRef /\ a.ref = b.ref))

\* An insert waits for the end of a transaction that has inserted the same.
FlushWaitsFor(t, u) == u # t /\ \E b \in pend[u] : SameUnique(ParentRow(t), b)

\* _walk: the named targets of one owner are locked together, in id order,
\* and then its requirements are taken one by one.
NamedTargets(rid) == {Reqs[rid][i].target : i \in DOMAIN Reqs[rid]} \ {NoTarget}

ToLock(rids) == IF rids = {} THEN <<>> ELSE <<[do |-> "lock", rids |-> rids]>>

Walk(rid, win, depth) ==
    ToLock(NamedTargets(rid)) \o
    [i \in DOMAIN Reqs[rid] |-> [do |-> "row", row |-> Reqs[rid][i], win |-> win, depth |-> depth]]

FlushTaken(t) ==
    /\ pc[t] = "flush" /\ \A u \in Txns : ~FlushWaitsFor(t, u)
    /\ \A b \in reservations : ~SameUnique(ParentRow(t), b)
    /\ pend' = [pend EXCEPT ![t] = {ParentRow(t)}]
    /\ run' = [run EXCEPT ![t] = [agenda |-> Walk(req[t].rid, req[t].win, 1),
                                  used |-> {req[t].rid}, left |-> req[t].assign]]
    /\ Goto(t, "walk")
    /\ UNCHANGED <<tables, lock, req, answer>>

FlushLost(t) ==
    /\ pc[t] = "flush" /\ \A u \in Txns : ~FlushWaitsFor(t, u)
    /\ \E b \in reservations : SameUnique(ParentRow(t), b)
    /\ Rollback(t, "lost")

\* lost: the winner's row is the answer to both.
Lost(t) ==
    /\ pc[t] = "lost"
    /\ LET r == req[t]
           verdict == IF ByKey(r) = {} /\ r.ref # NoRef /\ ByRef(r.by, r.ref) # {}
                      THEN "reference taken"
                      ELSE IF \E b \in ByKey(r) : b.fp = Fingerprint(r)
                      THEN "replayed" ELSE "key reused"
       IN  Refuse(t, verdict, Named(r, verdict))
-----------------------------------------------------------------------------
(* The requirement walk. *)

Walking(t, do) == pc[t] = "walk" /\ run[t].agenda # <<>> /\ Head(run[t].agenda).do = do

Then(t, agenda) ==
    /\ run' = [run EXCEPT ![t].agenda = agenda]
    /\ UNCHANGED <<tables, lock, pc, req, pend, answer>>

Seen(t) == reservations \cup pend[t]

\* Mutant: a requirement that leaves its enforcement to the organization is
\* taken as advisory.
MissNoDefault(t, row) ==
    IF row.enforcement = "REQUIRED"
    THEN Refuse(t, "requirement unsatisfied", NoRow)
    ELSE Then(t, Tail(run[t].agenda))

\* _miss: a gap is a refusal when the requirement is REQUIRED, and is left
\* out of the booking otherwise.
Miss(t, row) ==
    IF (IF row.enforcement = "DEFAULT" THEN Default ELSE row.enforcement) = "REQUIRED"
    THEN Refuse(t, "requirement unsatisfied", NoRow)
    ELSE Then(t, Tail(run[t].agenda))

ChildRow(t, rid, win, qty) ==
    [id |-> <<t, rid>>, rid |-> rid, win |-> win, by |-> req[t].by,
     key |-> <<req[t].key, Cardinality(pend[t])>>, fp |-> <<Fingerprint(req[t]), Cardinality(pend[t])>>,
     ref |-> NoRef, qty |-> qty, mode |-> res[rid].mode, status |-> "HELD",
     parent |-> <<t, req[t].rid>>, at |-> Nobody]

\* _hold, and the walk of what the held resource itself requires; after is
\* what the walk then goes on with, left the assigned resources not yet used.
Hold(t, rid, win, qty, depth, left, after) ==
    /\ pend' = [pend EXCEPT ![t] = @ \cup {ChildRow(t, rid, win, qty)}]
    /\ run' = [run EXCEPT ![t] = [agenda |-> Walk(rid, win, depth + 1) \o after,
                                  used |-> @.used \cup {rid}, left |-> left]]
    /\ UNCHANGED <<tables, pc, req, answer>>

Lowest(S, rank) == {a \in S : \A b \in S : rank[a] <= rank[b]}

WalkLock(t) ==
    /\ Walking(t, "lock")
    /\ LET rids == Head(run[t].agenda).rids
       IN  \E rid \in Lowest(rids, [r \in Resources |-> r]) :
             /\ CanLock(t, rid)
             /\ lock' = [lock EXCEPT ![rid] = t]
             /\ run' = [run EXCEPT ![t].agenda = ToLock(rids \ {rid}) \o Tail(@)]
             /\ UNCHANGED <<tables, pc, req, pend, answer>>

\* The window one requirement is held for.
RowWindow(item) == Padded(item.win, item.row.before, item.row.after)

WalkTooDeep(t) ==
    /\ Walking(t, "row") /\ Head(run[t].agenda).depth > MaxDepth
    /\ Miss(t, Head(run[t].agenda).row)

WalkPastMidnight(t) ==
    /\ Walking(t, "row") /\ Head(run[t].agenda).depth <= MaxDepth
    /\ RowWindow(Head(run[t].agenda)) = NoWindow
    /\ Refuse(t, "invalid", NoRow)

\* _named
WalkNamed(t) ==
    /\ Walking(t, "row")
    /\ LET item == Head(run[t].agenda)
           rid  == item.row.target
           win  == RowWindow(item)
           qty  == IF res[rid].mode = "POOLED" THEN item.row.qty ELSE 1
       IN  /\ item.depth <= MaxDepth /\ win # NoWindow /\ rid # NoTarget
           /\ IF rid \in run[t].used \/ Problem(rid, win, qty, Seen(t))
              THEN Miss(t, item.row)
              ELSE /\ Hold(t, rid, win, qty, item.depth, run[t].left, Tail(run[t].agenda))
                   /\ UNCHANGED lock

\* _kind, in four parts: it begins, uses what the caller assigned, looks for
\* others, and counts what is missing.
WalkKind(t) ==
    /\ Walking(t, "row")
    /\ LET item == Head(run[t].agenda)
           win  == RowWindow(item)
       IN  /\ item.depth <= MaxDepth /\ win # NoWindow /\ item.row.target = NoTarget
           /\ Then(t, <<[do |-> "kind", row |-> item.row, win |-> win, depth |-> item.depth,
                         got |-> 0, missed |-> 0, scanned |-> FALSE, cands |-> {}]>>
                      \o Tail(run[t].agenda))

Short(item) == item.got + item.missed < item.row.qty

KindAssigned(t) ==
    /\ Walking(t, "kind") /\ Short(Head(run[t].agenda))
    /\ LET item == Head(run[t].agenda)
           kind == item.row.kind
           rid  == Head(run[t].left[kind])
           rest == [run[t].left EXCEPT ![kind] = Tail(@)]
           one(i) == <<i>> \o Tail(run[t].agenda)
       IN  /\ run[t].left[kind] # <<>>
           /\ CanLock(t, rid)
           /\ lock' = [lock EXCEPT ![rid] = t]
           /\ IF rid \in run[t].used \/ Problem(rid, item.win, 1, Seen(t))
              THEN /\ run' = [run EXCEPT ![t] = [@ EXCEPT !.left = rest,
                                 !.agenda = one([item EXCEPT !.missed = @ + 1])]]
                   /\ UNCHANGED <<tables, pc, req, pend, answer>>
              ELSE Hold(t, rid, item.win, 1, item.depth, rest, one([item EXCEPT !.got = @ + 1]))

KindScan(t) ==
    /\ Walking(t, "kind") /\ Short(Head(run[t].agenda))
    /\ LET item == Head(run[t].agenda)
       IN  /\ ~item.scanned /\ run[t].left[item.row.kind] = <<>>
           /\ Then(t, <<[item EXCEPT !.scanned = TRUE,
                           !.cands = {r \in Resources : KindOf[r] = item.row.kind /\ res[r].active}]>>
                      \o Tail(run[t].agenda))

\* The candidates still to try, the ones used or named by the caller left out.
Open(t) == Head(run[t].agenda).cands \ (run[t].used \cup Assigned(req[t]))

\* Mutant: a candidate that is not free is tried again.
KindPickAgain(t) ==
    /\ Walking(t, "kind") /\ Short(Head(run[t].agenda)) /\ Head(run[t].agenda).scanned
    /\ \E rid \in Lowest(Open(t), CodeRank) :
         /\ CanLock(t, rid)
         /\ lock' = [lock EXCEPT ![rid] = t]
         /\ IF Problem(rid, Head(run[t].agenda).win, 1, Seen(t))
            THEN UNCHANGED <<tables, pc, req, pend, run, answer>>
            ELSE Hold(t, rid, Head(run[t].agenda).win, 1, Head(run[t].agenda).depth, run[t].left,
                      <<[Head(run[t].agenda) EXCEPT !.got = @ + 1]>> \o Tail(run[t].agenda))

KindPick(t) ==
    /\ Walking(t, "kind") /\ Short(Head(run[t].agenda)) /\ Head(run[t].agenda).scanned
    /\ \E rid \in Lowest(Open(t), CodeRank) :
         LET item == [Head(run[t].agenda) EXCEPT !.cands = @ \ {rid}]
             one(i) == <<i>> \o Tail(run[t].agenda)
         IN  /\ CanLock(t, rid)
             /\ lock' = [lock EXCEPT ![rid] = t]
             /\ IF Problem(rid, item.win, 1, Seen(t))
                THEN /\ run' = [run EXCEPT ![t].agenda = one(item)]
                     /\ UNCHANGED <<tables, pc, req, pend, answer>>
                ELSE Hold(t, rid, item.win, 1, item.depth, run[t].left,
                          one([item EXCEPT !.got = @ + 1]))

KindDone(t) ==
    /\ Walking(t, "kind")
    /\ LET item == Head(run[t].agenda)
       IN  /\ ~Short(item) \/ (item.scanned /\ Open(t) = {})
           /\ IF item.got < item.row.qty THEN Miss(t, item.row)
              ELSE Then(t, Tail(run[t].agenda))

\* resolve's last check, and the commit of the booking and its children.
Commit(t) ==
    /\ pc[t] = "walk" /\ run[t].agenda = <<>>
    /\ \A k \in Kinds : run[t].left[k] = <<>>
    /\ reservations' = reservations \cup pend[t]
    /\ feed' = feed \cup {Mark(t, b.id, "CREATED") : b \in pend[t]}
    /\ Finish(t, "created", <<t, req[t].rid>>)
    /\ UNCHANGED <<res, slots>>

LeftOver(t) ==
    /\ pc[t] = "walk" /\ run[t].agenda = <<>>
    /\ \E k \in Kinds : run[t].left[k] # <<>>
    /\ Refuse(t, "invalid", NoRow)
-----------------------------------------------------------------------------
(* The other writes on a reservation. *)

\* _changeable: the row asked about, for whoever took the hold or an ORG_ADMIN.
Asked(r) == {b \in reservations : b.id = r.row}
Mine(r)  == {b \in Asked(r) : r.by \in Admins \/ b.by = r.by}

NotChangeable(t) ==
    /\ Starts(t, "cancel") \/ Starts(t, "refer")
    /\ Mine(req[t]) = {}
    /\ Refuse(t, IF Asked(req[t]) = {} THEN "not found" ELSE "forbidden", NoRow)

\* cancel_reservation reads the row, then its children, and writes what it
\* decided from that.
CancelTwice(t) ==
    /\ Starts(t, "cancel")
    /\ \E b \in Mine(req[t]) : b.status = "CANCELLED"
    /\ Refuse(t, "cancelled", req[t].row)

\* Mutant: the status is not looked at.
CancelReadAnyway(t) ==
    /\ Starts(t, "cancel") /\ Mine(req[t]) # {}
    /\ Goto(t, "cancel")
    /\ UNCHANGED <<tables, lock, req, pend, run, answer>>

CancelRead(t) ==
    /\ Starts(t, "cancel")
    /\ \E b \in Mine(req[t]) : b.status = "HELD"
    /\ Goto(t, "cancel")
    /\ UNCHANGED <<tables, lock, req, pend, run, answer>>

\* The children still held are read before anything is written: the session
\* flushes at the commit.
CancelChildren(t) ==
    /\ pc[t] = "cancel"
    /\ run' = [run EXCEPT ![t].used = {b.rid : b \in {c \in reservations : c.parent = req[t].row /\ c.status = "HELD"}}]
    /\ Goto(t, "letgo")
    /\ UNCHANGED <<tables, lock, req, pend, answer>>

\* Mutant: the children are left standing.
LetGoParent(t) == {b \in reservations : b.id = req[t].row}

\* The row itself and the children that were read, whatever they are by now.
LetGo(t) ==
    {b \in reservations : b.id = req[t].row \/ (b.parent = req[t].row /\ b.rid \in run[t].used)}

\* Mutant: no marker for the children.
CancelWriteParentMarked(t) ==
    /\ pc[t] = "letgo"
    /\ reservations' = {IF b \in LetGo(t) THEN [b EXCEPT !.status = "CANCELLED", !.at = t] ELSE b :
                            b \in reservations}
    /\ feed' = feed \cup {Mark(t, req[t].row, "CANCELLED")}
    /\ Finish(t, "cancelled", req[t].row)
    /\ UNCHANGED <<res, slots>>

CancelWrite(t) ==
    /\ pc[t] = "letgo"
    /\ reservations' = {IF b \in LetGo(t) THEN [b EXCEPT !.status = "CANCELLED", !.at = t] ELSE b :
                            b \in reservations}
    /\ feed' = feed \cup {Mark(t, b.id, "CANCELLED") : b \in LetGo(t)}
    /\ Finish(t, "cancelled", req[t].row)
    /\ UNCHANGED <<res, slots>>

\* update_reservation: set, change or clear external_ref.
ReferSame(t) ==
    /\ Starts(t, "refer")
    /\ \E b \in Mine(req[t]) : b.ref = req[t].ref
    /\ Refuse(t, "updated", req[t].row)

ReferRefused(t) ==
    /\ Starts(t, "refer")
    /\ \E b \in Mine(req[t]) :
         /\ b.ref # req[t].ref
         /\ req[t].ref # NoRef /\ ByRef(b.by, req[t].ref) # {}
         /\ Refuse(t, "reference taken", (CHOOSE c \in ByRef(b.by, req[t].ref) : TRUE).id)

ReferRead(t) ==
    /\ Starts(t, "refer")
    /\ \E b \in Mine(req[t]) :
         /\ b.ref # req[t].ref
         /\ req[t].ref = NoRef \/ ByRef(b.by, req[t].ref) = {}
    /\ Goto(t, "refer")
    /\ UNCHANGED <<tables, lock, req, pend, run, answer>>

\* Rows other than the one being changed that carry the reference it is given.
Rivals(t, rows) ==
    {c \in rows : c.id # req[t].row /\ req[t].ref # NoRef /\ c.ref = req[t].ref /\
                  \E b \in Asked(req[t]) : c.by = b.by}

ReferWrite(t) ==
    /\ pc[t] = "refer"
    /\ \A u \in Txns : Rivals(t, pend[u]) = {}
    /\ IF Rivals(t, reservations) # {} THEN Rollback(t, "referlost")
       ELSE /\ reservations' = {IF b.id = req[t].row THEN [b EXCEPT !.ref = req[t].ref] ELSE b :
                                    b \in reservations}
            /\ feed' = feed \cup {Mark(t, req[t].row, "UPDATED")}
            /\ Finish(t, "updated", req[t].row)
            /\ UNCHANGED <<res, slots>>

\* The constraint refused the reference: name the row that has it, or fail
\* when it has been let go again in the meantime.
ReferLost(t) ==
    /\ pc[t] = "referlost"
    /\ IF Rivals(t, reservations) = {} THEN Refuse(t, "error", NoRow)
       ELSE Refuse(t, "reference taken", (CHOOSE c \in Rivals(t, reservations) : TRUE).id)
-----------------------------------------------------------------------------
(* update_resource: mode, capacity and active. *)

\* _would_not_fit: the holds that break the rules of the mode they move to.
Misfits(rid, mode, cap) ==
    LET holds == Held(reservations, rid)
    IN  IF mode = "SHARED" THEN {}
        ELSE {b \in holds :
                \/ OnTimetable(rid, b.win)
                \/ /\ mode = "EXCLUSIVE"
                   /\ b.qty > 1 \/ \E c \in holds \ {b} : Overlaps(b.win, c.win)
                \/ /\ mode = "POOLED"
                   /\ \E s \in PoolStretches(holds, cap + 1) : Overlaps(b.win, s)}

Tightens(r) == r.mode # res[r.rid].mode \/ (r.mode = "POOLED" /\ r.cap # res[r.rid].cap)

ChangeRefused(t) ==
    /\ Starts(t, "change") /\ CanLock(t, req[t].rid)
    /\ \/ req[t].mode = "POOLED" /\ req[t].cap = 0 /\ Refuse(t, "invalid", NoRow)
       \/ /\ req[t].mode # "POOLED" \/ req[t].cap # 0
          /\ Tightens(req[t]) /\ Misfits(req[t].rid, req[t].mode, req[t].cap) # {}
          /\ Refuse(t, "would not fit", NoRow)

\* Mutant: the new mode is not written onto the bookings.
ChangeResourceOnly(t) ==
    /\ Starts(t, "change") /\ CanLock(t, req[t].rid)
    /\ LET r == req[t]
       IN  /\ r.mode # "POOLED" \/ r.cap # 0
           /\ Tightens(r) => Misfits(r.rid, r.mode, r.cap) = {}
           /\ res' = [res EXCEPT ![r.rid] = [mode |-> r.mode, cap |-> r.cap, active |-> r.active]]
           /\ feed' = feed \cup {Mark(t, NoRow, "RESOURCE")}
    /\ Finish(t, "changed", NoRow)
    /\ UNCHANGED <<slots, reservations>>

Change(t) ==
    /\ Starts(t, "change") /\ CanLock(t, req[t].rid)
    /\ LET r == req[t]
       IN  /\ r.mode # "POOLED" \/ r.cap # 0
           /\ Tightens(r) => Misfits(r.rid, r.mode, r.cap) = {}
           /\ res' = [res EXCEPT ![r.rid] = [mode |-> r.mode, cap |-> r.cap, active |-> r.active]]
           /\ reservations' = {IF r.mode # res[r.rid].mode /\ b \in Held(reservations, r.rid)
                               THEN [b EXCEPT !.mode = r.mode] ELSE b : b \in reservations}
           /\ feed' = feed \cup {Mark(t, NoRow, "RESOURCE")}
    /\ Finish(t, "changed", NoRow)
    /\ UNCHANGED slots
-----------------------------------------------------------------------------
(* create_master_slot and delete_master_slot, on one window of the class.  *)
(* The checks take no lock.                                                *)

\* held_against_slot: a shared hold is not in the way of a class.
ClassBlocked(r) ==
    \/ \E b \in Meeting(reservations, r.rid, r.win) : b.mode # "SHARED"
    \/ OnTimetable(r.rid, r.win)

SlotRefused(t) ==
    /\ Starts(t, "slot") /\ ClassBlocked(req[t])
    /\ Refuse(t, "conflict", NoRow)

SlotRead(t) ==
    /\ Starts(t, "slot") /\ ~ClassBlocked(req[t])
    /\ Goto(t, "slot")
    /\ UNCHANGED <<tables, lock, req, pend, run, answer>>

\* The insert's foreign key waits for whoever has the resource's row lock.
SlotWrite(t) ==
    /\ pc[t] = "slot" /\ lock[req[t].rid] = Nobody
    /\ slots' = slots \cup {[id |-> t, rid |-> req[t].rid, win |-> req[t].win]}
    /\ Finish(t, "created", NoRow)
    /\ UNCHANGED <<res, reservations, feed>>

SlotDelete(t) ==
    /\ Starts(t, "unslot")
    /\ slots' = {s \in slots : s.id # req[t].slot}
    /\ Finish(t, IF slots' = slots THEN "not found" ELSE "deleted", NoRow)
    /\ UNCHANGED <<res, reservations, feed>>
-----------------------------------------------------------------------------
(* Waiting in a circle, and dying. *)

\* The resource whose lock the walk needs next.
Wants(t) ==
    IF Walking(t, "lock") THEN Lowest(Head(run[t].agenda).rids, [r \in Resources |-> r])
    ELSE IF ~Walking(t, "kind") \/ ~Short(Head(run[t].agenda)) THEN {}
    ELSE LET item == Head(run[t].agenda)
         IN  IF run[t].left[item.row.kind] # <<>> THEN {Head(run[t].left[item.row.kind])}
             ELSE IF item.scanned THEN Lowest(Open(t), CodeRank) ELSE {}

WaitsFor(t, u) ==
    \/ pc[t] = "flush" /\ FlushWaitsFor(t, u)
    \/ u # t /\ \E rid \in Wants(t) : lock[rid] = u

Circle(S) == \A t \in S : (\E u \in S : WaitsFor(t, u)) /\ (\E u \in S : WaitsFor(u, t))

\* PostgreSQL ends one member of a circle; errors.py answers it with a 503.
DeadlockVictim(t) ==
    /\ pc[t] \in {"flush", "walk"}
    /\ \E S \in SUBSET {u \in Txns : pc[u] \in {"flush", "walk"}} : t \in S /\ Circle(S)
    /\ Refuse(t, "unavailable", NoRow)

\* The connection or the process dies in the middle of a transaction.
Crash(t) ==
    /\ t \in Crashes /\ Running(t)
    /\ Refuse(t, "unavailable", NoRow)
-----------------------------------------------------------------------------
Book(t) ==
    \/ BookRefused(t) \/ BookAdmitted(t) \/ FlushTaken(t) \/ FlushLost(t) \/ Lost(t)
    \/ WalkLock(t) \/ WalkTooDeep(t) \/ WalkPastMidnight(t) \/ WalkNamed(t) \/ WalkKind(t)
    \/ KindAssigned(t) \/ KindScan(t) \/ KindPick(t) \/ KindDone(t)
    \/ Commit(t) \/ LeftOver(t) \/ DeadlockVictim(t)

Amend(t) ==
    \/ NotChangeable(t) \/ CancelTwice(t) \/ CancelRead(t) \/ CancelChildren(t) \/ CancelWrite(t)
    \/ ReferSame(t) \/ ReferRefused(t) \/ ReferRead(t) \/ ReferWrite(t) \/ ReferLost(t)

Plan(t) ==
    \/ ChangeRefused(t) \/ Change(t)
    \/ SlotRefused(t) \/ SlotRead(t) \/ SlotWrite(t) \/ SlotDelete(t)

Step(t) == Book(t) \/ Amend(t) \/ Plan(t)

\* Every request has been answered.
Quiet == (\A t \in Txns : pc[t] = "done") /\ UNCHANGED vars

Next == (\E t \in Txns : Step(t) \/ Crash(t)) \/ Quiet

\* A request that can go on does: its thread runs, and the database wakes a
\* waiter once the lock it waits for is let go.
Fairness == \A t \in Txns : WF_vars(Step(t))

Spec == Init /\ [][Next]_vars /\ Fairness
-----------------------------------------------------------------------------
(* Properties. *)

Fingerprints == Resources \X Spans \X (Refs \cup {NoRef}) \X (Nat \ {0}) \X Assigns

Row ==
    [id : Ids, rid : Resources, win : Spans, by : Callers, key : Keys \X Nat,
     fp : Fingerprints \cup (Fingerprints \X Nat), ref : Refs \cup {NoRef}, qty : Nat \ {0},
     mode : Modes, status : {"HELD", "CANCELLED"}, parent : Ids \cup {NoRow}, at : Txns \cup {Nobody}]

LockItem == [do : {"lock"}, rids : SUBSET Resources]
RowItem  == [do : {"row"}, row : Requirement, win : Spans, depth : Nat]
KindItem == [do : {"kind"}, row : Requirement, win : Spans, depth : Nat, got : Nat, missed : Nat,
             scanned : BOOLEAN, cands : SUBSET Resources]
Item     == LockItem \cup RowItem \cup KindItem

Codes == {"none", "created", "replayed", "key reused", "reference taken", "invalid", "conflict",
          "requirement unsatisfied", "not found", "forbidden", "cancelled", "updated", "error",
          "would not fit", "changed", "deleted", "unavailable"}

Places == {"asked", "flush", "walk", "lost", "cancel", "letgo", "refer", "referlost", "slot", "done"}

\* Which requests can be at which place.
Placed(t) ==
    /\ pc[t] \in {"flush", "walk", "lost"} => req[t] \in BookRequest
    /\ pc[t] \in {"cancel", "letgo"} => req[t] \in CancelRequest
    /\ pc[t] \in {"refer", "referlost"} => req[t] \in ReferRequest
    /\ pc[t] = "slot" => req[t] \in SlotRequest

TablesOK ==
    /\ res \in [Resources -> Resource]
    /\ reservations \subseteq Row
    /\ slots \subseteq [id : Txns, rid : Resources, win : ClassSpans]
    /\ feed \subseteq [txn : Txns, row : Ids \cup {NoRow},
                       what : {"CREATED", "CANCELLED", "UPDATED", "RESOURCE"}]

TxnsOK ==
    /\ lock \in [Resources -> Txns \cup {Nobody}]
    /\ pc \in [Txns -> Places]
    /\ req \in [Txns -> Request] /\ \A t \in Txns : Placed(t)
    /\ pend \in [Txns -> SUBSET Row] /\ \A t \in Txns : IsFiniteSet(pend[t])
    /\ run \in [Txns -> [agenda : Seq(Item), used : SUBSET Resources, left : Assigns]]
    /\ answer \in [Txns -> [code : Codes, row : Ids \cup {NoRow}]]

TypeOK == TablesOK /\ TxnsOK

\* Two holds of an exclusive resource never meet, however the bookings, the
\* walks of other bookings, the cancellations and the mode changes interleave,
\* and although the table's exclusion constraint is not there to help.
NoDoubleBooking ==
    \A a, b \in reservations :
        /\ a # b /\ a.rid = b.rid /\ res[a.rid].mode = "EXCLUSIVE"
        /\ a.status = "HELD" /\ b.status = "HELD"
        => ~Overlaps(a.win, b.win)

\* The mode a standing hold carries for the database's sake is its
\* resource's, through every mode change that races a booking.
ModeIsTheResources ==
    \A rid \in Resources : \A b \in Held(reservations, rid) : b.mode = res[rid].mode

\* A caller's key makes one booking: every request under it that is told of a
\* reservation is told of the same one, only one of them made it, and a
\* reference a caller has given never names two of its reservations.
OneBookingPerKey ==
    /\ \A t, u \in Txns :
         /\ t # u /\ req[t].op = "book" /\ req[u].op = "book"
         /\ req[t].by = req[u].by /\ req[t].key = req[u].key
         /\ answer[t].code = "created" /\ answer[u].code \in {"created", "replayed"}
         => answer[u].code = "replayed" /\ answer[u].row = answer[t].row
    /\ \A a, b \in reservations :
         a # b /\ a.by = b.by => a.key # b.key /\ (a.ref # b.ref \/ a.ref = NoRef)

\* Nothing is half held: a booking that stands in the table has, for every
\* REQUIRED requirement of every resource it holds, a child on the named
\* target, or enough children of the kind, and the children are its caller's.
Enforced(row) == (IF row.enforcement = "DEFAULT" THEN Default ELSE row.enforcement) = "REQUIRED"

Family(p) == {b \in reservations : b.id[1] = p.id[1]}

NothingHalfHeld ==
    \A b \in reservations :
        /\ b.parent # NoRow => \E p \in reservations : p.id = b.parent /\ p.by = b.by
        /\ \A i \in DOMAIN Reqs[b.rid] :
             LET row == Reqs[b.rid][i]
             IN  Enforced(row) =>
                    IF row.target # NoTarget
                    THEN \E c \in Family(b) : c.rid = row.target /\ c.win = Padded(b.win, row.before, row.after)
                    ELSE Cardinality({c \in Family(b) \ {b} : KindOf[c.rid] = row.kind}) >= row.qty

\* The change feed tells of every reservation made and every one let go.
EveryChangeIsMarked ==
    \A b \in reservations :
        /\ \E m \in feed : m.row = b.id /\ m.what = "CREATED"
        /\ b.status = "CANCELLED" <=> \E m \in feed : m.row = b.id /\ m.what = "CANCELLED"

\* A transaction that has not ended keeps the lock of every resource it has a
\* row on, so nobody else judges the resource without that row.
LockedWhileHeld ==
    \A t \in Txns : \A b \in pend[t] : lock[b.rid] = t

\* Every named target in what is left of a walk is locked already, or stands
\* behind the item that locks it.
Covered(locks, t, agenda) ==
    \A i \in 1..Len(agenda) :
        agenda[i].do = "row" /\ agenda[i].row.target # NoTarget =>
            \/ locks[agenda[i].row.target] = t
            \/ \E j \in 1..(i - 1) : agenda[j].do = "lock" /\ agenda[i].row.target \in agenda[j].rids

\* Only a booking between its first lock and its end has locks and rows, and
\* it has the lock of every resource its rows are on.
Guarding(t) ==
    /\ \A rid \in Resources : lock[rid] = t => pc[t] \in {"flush", "walk"}
    /\ pc[t] = "flush" => lock[req[t].rid] = t
    /\ pc[t] # "walk" => pend[t] = {}
    /\ \A b \in pend[t] : lock[b.rid] = t
    /\ Covered(lock, t, run[t].agenda)

\* What a booking found free under its locks is free still, and it has at most
\* one row on a resource.
StillFree(t) ==
    /\ pc[t] = "flush" /\ res[req[t].rid].mode = "EXCLUSIVE" =>
         Meeting(reservations, req[t].rid, req[t].win) = {}
    /\ \A b \in pend[t] :
         /\ b.status = "HELD" /\ b.mode = res[b.rid].mode /\ b.rid \in run[t].used
         /\ b.mode = "EXCLUSIVE" => Meeting(reservations, b.rid, b.win) = {}
    /\ \A a, b \in pend[t] : a.rid = b.rid => a = b

\* Why no exclusive resource is booked twice: what a booking checks under the
\* row lock stays true until it commits, whatever the others do meanwhile.
ChecksHoldToTheEnd ==
    /\ NoDoubleBooking /\ ModeIsTheResources
    /\ \A t \in Txns : Guarding(t) /\ StillFree(t)

\* No booking and no class share an hour of a resource that is not shared.
HoldsMeetNoClass ==
    \A b \in reservations : b.status = "HELD" /\ b.mode # "SHARED" => ~OnTimetable(b.rid, b.win)

\* A cancellation is one event: one marker, one timestamp.
CancelledOnce ==
    \A m, n \in feed : m.what = "CANCELLED" /\ n.what = "CANCELLED" /\ m.row = n.row => m = n

\* A request told that its key was reused really found a booking under it.
KeyReusedMeansKeyUsed ==
    \A t \in Txns : answer[t].code = "key reused" =>
        \E b \in reservations : b.by = req[t].by /\ b.key = <<req[t].key, 0>>

\* What PostgreSQL's interleavings break holds where one transaction runs at a
\* time, as on SQLite (BEGIN IMMEDIATE): a class and a booking share no hour, a
\* cancellation is one event, and a fresh key is not called reused.
OneWriterKeepsThem == HoldsMeetNoClass /\ CancelledOnce /\ KeyReusedMeansKeyUsed

\* The routes keep the promise of BookingLedger: seen from the committed
\* tables alone, every step of every interleaving is one whole booking,
\* cancellation, change or class, or no step at all.
Ledger == INSTANCE BookingLedger WITH rows <- reservations, classes <- slots

KeepsTheLedger == Ledger!LedgerSpec

\* Every request is answered, whatever it has to wait for.
EveryRequestIsAnswered == \A t \in Txns : <>(pc[t] = "done")
=============================================================================
