---------------------------- MODULE Idempotency -----------------------------
(***************************************************************************)
(* Writes sent with an Idempotency-Key (core/idempotency.py).              *)
(*                                                                         *)
(* claim() writes the key's row in the request's own transaction, so the   *)
(* row commits with the effect and is rolled back with it; _settle records *)
(* the answer, or drops the claim, in a session of its own after the       *)
(* answer has gone.  Between the two another request with the same key may *)
(* arrive.  The steps are the statements, on Postgres at READ COMMITTED:   *)
(* an insert waits for the uncommitted row of the same key, and a write    *)
(* names the row it read by its id, which may be gone by then.             *)
(*                                                                         *)
(* Only what claims a key is here: a request the middleware does not mark, *)
(* one of SECRET_OPERATIONS and a malformed key run or are refused without *)
(* touching the table.  createReservation answers a retry from its own row *)
(* (Reservations).  A key is a (caller, key) pair, and a request's hash    *)
(* stands for its whole content.  Time is kept as ages, which stop         *)
(* counting past the retention window.                                     *)
(***************************************************************************)
EXTENDS Integers, Sequences, FiniteSets

CONSTANTS
    Keys,        \* (caller, key) pairs
    Hashes,      \* request_hash of what may be sent
    Requests,    \* requests in flight at once
    Outcomes,    \* bound: how a handler may end
    Retention,   \* IDEMPOTENCY_RETENTION_HOURS
    MaxRuns,     \* bound: handlers run
    None

\* How a handler ends: 2xx with its effect; a stored refusal; 401, 403, 429,
\* 5xx or an exception with nothing committed; the same after the commit.
AllOutcomes == {"done", "refused", "failed", "broken"}

\* IdempotencyRecord.  History: orphan, that its request stopped before it settled.
Row == [id : Nat, hash : Hashes, answer : Nat \cup {None}, age : Nat, orphan : BOOLEAN]

ASSUME IdempotencyAssumption ==
    /\ Outcomes \subseteq AllOutcomes /\ Retention \in Nat \ {0} /\ MaxRuns \in Nat
    /\ None \notin Nat /\ None \notin Hashes \cup Keys \cup Requests /\ None \notin Row

VARIABLES
    rows,   \* idempotency_records: the committed row of each key, or None
    tx,     \* the requests in flight
    runs    \* history: the handlers that ran, in the order they ended

keyVars == <<rows, tx, runs>>

\* Pending, and where the request is.
Idle == [at |-> "idle", key |-> None, hash |-> None, gone |-> None, age |-> 0, run |-> None,
         seen |-> None, open |-> FALSE]

KeyInit ==
    /\ rows = [k \in Keys |-> None]
    /\ tx = [r \in Requests |-> Idle]
    /\ runs = <<>>

Done(r) == tx' = [tx EXCEPT ![r] = Idle]

\* The id of a row: a handler's claim, or one its _settle inserts.
ClaimId(run) == 2 * run
AnswerId(run) == 2 * run + 1

\* storable
Storable(o) == o \in {"done", "refused"}

\* The handler committed, and the claim with it.
Effective(o) == o \in {"done", "broken"}

\* _expired
Expired(row) == row.age >= Retention

\* A row of this key that another request has deleted and not yet committed.
DeleteHeld(r, k) ==
    rows[k] # None /\ \E s \in Requests \ {r} : tx[s].key = k /\ tx[s].gone = rows[k].id

\* Mutant: no unique constraint on (caller, key).
InsertUnheld(r, k) == FALSE

\* A row of this key that another request has inserted and not yet committed.
InsertHeld(r, k) == \E s \in Requests \ {r} : tx[s].key = k /\ tx[s].at = "run"

\* There is a committed row, and this request has not deleted it.
Visible(r, k) == rows[k] # None /\ rows[k].id # tx[r].gone
-----------------------------------------------------------------------------
(* claim *)

\* The key has a claim that counts: _answer gives 422, 409 or the stored answer
\* from it, and nothing runs.
Answered(k) == rows[k] # None /\ ~Expired(rows[k])

\* The key is looked up, and is new or new again.
Arrive(r, k, h) ==
    /\ tx[r].at = "idle"
    /\ Len(runs) + Cardinality({s \in Requests : tx[s].at \notin {"idle", "sent", "settle"}})
         < MaxRuns
    /\ ~Answered(k)
    /\ tx' = [tx EXCEPT ![r] = [Idle EXCEPT !.key = k, !.hash = h,
                !.at = IF rows[k] = None THEN "insert" ELSE "delete",
                !.seen = IF rows[k] = None THEN None ELSE rows[k].id]]
    /\ UNCHANGED <<rows, runs>>

\* An expired row is deleted by its id, unless somebody else has.
ClaimDelete(r) ==
    /\ tx[r].at = "delete" /\ ~DeleteHeld(r, tx[r].key)
    /\ LET k == tx[r].key
           hit == rows[k] # None /\ rows[k].id = tx[r].seen
       IN  tx' = [tx EXCEPT ![r].at = "insert", ![r].seen = None,
                            ![r].gone = IF hit THEN tx[r].seen ELSE None]
    /\ UNCHANGED <<rows, runs>>

\* The insert, in a savepoint; it waits for whoever is at the same key.
ClaimInsert(r) ==
    /\ tx[r].at = "insert"
    /\ ~DeleteHeld(r, tx[r].key) /\ ~InsertHeld(r, tx[r].key)
    /\ tx' = [tx EXCEPT ![r].at = IF Visible(r, tx[r].key) THEN "refind" ELSE "run",
                        ![r].age = 0]
    /\ UNCHANGED <<rows, runs>>

\* The loser answers from the row it finds, or with 409 when there is none.
ClaimRefind(r) ==
    /\ tx[r].at = "refind"
    /\ Done(r)
    /\ UNCHANGED <<rows, runs>>
-----------------------------------------------------------------------------
(* The handler, and the answer it sends. *)

\* The handler ends; what it wrote is committed or not, and the answer goes.
Finish(r, o) ==
    LET k == tx[r].key
    IN  /\ tx[r].at = "run"
        /\ rows' = IF Effective(o)
                     THEN [rows EXCEPT ![k] = [id |-> ClaimId(Len(runs) + 1), hash |-> tx[r].hash,
                                               answer |-> None, age |-> tx[r].age,
                                               orphan |-> FALSE]]
                     ELSE rows
        /\ runs' = Append(runs, [key |-> k, hash |-> tx[r].hash, out |-> o,
                                 age |-> IF Effective(o) THEN tx[r].age ELSE 0, dropped |-> FALSE])
        /\ tx' = [tx EXCEPT ![r].at = "sent", ![r].gone = None, ![r].run = Len(runs) + 1]
-----------------------------------------------------------------------------
(* _settle *)

\* Mutant: whose claim the row is does not matter.
SameAsOursNever(r) == TRUE

\* The row is this request's, or an identical one's.
SameAsOurs(r) == rows[tx[r].key].hash = tx[r].hash

\* The row is looked up; another request's claim is left alone.
SettleRead(r) ==
    LET k == tx[r].key
    IN  /\ tx[r].at = "sent"
        /\ IF rows[k] = None
             THEN tx' = [tx EXCEPT ![r].at = "settle"]
             ELSE IF SameAsOurs(r)
                    THEN tx' = [tx EXCEPT ![r].at = "settle", ![r].seen = rows[k].id,
                                          ![r].open = rows[k].answer = None]
                    ELSE Done(r)
        /\ UNCHANGED <<rows, runs>>

\* The row that was found is still there.
Hit(r) == rows[tx[r].key] # None /\ rows[tx[r].key].id = tx[r].seen

\* The answer is stored in the row that was found; one that has gone is an error, logged.
SettleStore(r) ==
    /\ tx[r].at = "settle" /\ Storable(runs[tx[r].run].out)
    /\ tx[r].seen # None /\ ~DeleteHeld(r, tx[r].key)
    /\ rows' = IF Hit(r) THEN [rows EXCEPT ![tx[r].key].answer = tx[r].run] ELSE rows
    /\ Done(r)
    /\ UNCHANGED runs

\* With no row found, which is how a refusal is kept, one is inserted with
\* the answer; a row somebody else has inserted meanwhile is an error, logged.
SettleInsert(r) ==
    LET k == tx[r].key
    IN  /\ tx[r].at = "settle" /\ Storable(runs[tx[r].run].out)
        /\ tx[r].seen = None /\ ~InsertHeld(r, k) /\ ~DeleteHeld(r, k)
        /\ rows' = IF rows[k] = None
                     THEN [rows EXCEPT ![k] = [id |-> AnswerId(tx[r].run), hash |-> tx[r].hash,
                                               answer |-> tx[r].run, age |-> 0,
                                               orphan |-> FALSE]]
                     ELSE rows
        /\ Done(r)
        /\ UNCHANGED runs

\* Mutant: the claim is kept when there is nothing to store.
DropNothing(r) == rows

\* The table without the claim that was found, if it had no answer then.
Drop(r) == IF tx[r].open /\ Hit(r) THEN [rows EXCEPT ![tx[r].key] = None] ELSE rows

\* An answer that is not stored drops the claim.
SettleDrop(r) ==
    /\ tx[r].at = "settle" /\ ~Storable(runs[tx[r].run].out)
    /\ tx[r].seen # None => ~DeleteHeld(r, tx[r].key)
    /\ rows' = Drop(r)
    /\ runs' = [i \in DOMAIN runs |->
                  IF rows' # rows /\ ClaimId(i) = tx[r].seen
                    THEN [runs[i] EXCEPT !.dropped = TRUE] ELSE runs[i]]
    /\ Done(r)
-----------------------------------------------------------------------------
(* The process, the nightly job and the clock. *)

\* The process stops, or _settle fails and is logged.  History: orphan, that this
\* happened to the row before it was settled.
Crash(r) ==
    /\ tx[r].at # "idle"
    /\ rows' = IF tx[r].at \in {"sent", "settle"} /\ rows[tx[r].key] # None
                 THEN [rows EXCEPT ![tx[r].key].orphan = TRUE] ELSE rows
    /\ Done(r)
    /\ UNCHANGED runs

\* purge_expired
PurgeExpired ==
    LET old == {k \in Keys : rows[k] # None /\ rows[k].age > Retention}
    IN  /\ old # {} /\ \A k \in old : ~DeleteHeld(None, k)
        /\ rows' = [k \in Keys |-> IF k \in old THEN None ELSE rows[k]]
        /\ UNCHANGED <<tx, runs>>

Older(age) == IF age > Retention THEN age ELSE age + 1

\* An hour passes.
Hour ==
    /\ rows' = [k \in Keys |-> IF rows[k] = None THEN None
                                 ELSE [rows[k] EXCEPT !.age = Older(@)]]
    /\ tx' = [r \in Requests |-> IF tx[r].at = "run" THEN [tx[r] EXCEPT !.age = Older(@)]
                                   ELSE tx[r]]
    /\ runs' = [i \in DOMAIN runs |-> IF Effective(runs[i].out)
                                       THEN [runs[i] EXCEPT !.age = Older(@)] ELSE runs[i]]

\* A request the server has taken on goes on.
Advance(r) ==
    \/ ClaimDelete(r) \/ ClaimInsert(r) \/ ClaimRefind(r)
    \/ \E o \in Outcomes : Finish(r, o)
    \/ SettleRead(r) \/ SettleStore(r) \/ SettleInsert(r) \/ SettleDrop(r)

KeyNext ==
    \/ \E r \in Requests, k \in Keys, h \in Hashes : Arrive(r, k, h)
    \/ \E r \in Requests : Advance(r) \/ Crash(r)
    \/ PurgeExpired \/ Hour

KeySpec == KeyInit /\ [][KeyNext]_keyVars
-----------------------------------------------------------------------------
(* What it promises. *)

\* The handlers that left an effect within the window.
Recent(k) == {i \in DOMAIN runs :
                 runs[i].key = k /\ Effective(runs[i].out) /\ runs[i].age < Retention}

\* A second effect under one key within the window comes only of a claim
\* that a request with nothing to store has dropped; the unique constraint and the
\* claim's place in the effect's own transaction leave no other way.
OnlyADropRepeats ==
    \A k \in Keys : \A i, j \in Recent(k) : i < j => runs[i].dropped

\* What a key replays is an answer to the very request it was claimed with,
\* however late it was recorded and whoever claimed the key meanwhile.
AnswersAreTheirOwn ==
    \A k \in Keys : rows[k] # None /\ rows[k].answer # None =>
        LET run == runs[rows[k].answer]
        IN  run.key = k /\ run.hash = rows[k].hash /\ Storable(run.out)

\* A key says "still running" only while a request that will settle it is there, or
\* after a process stopped before it had: no other order of the steps leaves a
\* claim without an answer.
OpenClaimsAreAttended ==
    \A k \in Keys : rows[k] # None /\ rows[k].answer = None /\ ~rows[k].orphan =>
        \E r \in Requests : tx[r].key = k /\ tx[r].at \in {"sent", "settle"}
=============================================================================
