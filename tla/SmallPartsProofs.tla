-------------------------- MODULE SmallPartsProofs --------------------------
(***************************************************************************)
(* Proofs about RateLimit, Idempotency and Sockets: for any number of      *)
(* requests at once, every limit, window and retention; and for any number *)
(* of instances, people, connections and messages, that nobody hears an    *)
(* event twice, only a failed send takes the entry of a working            *)
(* connection, and a deactivated person is left with no socket but one     *)
(* that was being identified.                                              *)
(***************************************************************************)
EXTENDS RateLimit, Idempotency, Sockets, FiniteSetTheorems, SequenceTheorems, TLAPS
-----------------------------------------------------------------------------
(* The budget.  A request that has passed guard and not yet spent counts as *)
(* spent: then what is through never passes the bound.                      *)

Passed == {c \in Callers : calls[c] = "guarded"}

BudgetTypeOK ==
    /\ count \in Nat /\ slipped \in Nat
    /\ ttl \in (Nat \ {0}) \cup {NoExpiry}
    /\ calls \in [Callers -> {"idle", "guarded", "expiring"}]

\* What is spent, and what may yet be, stays within the bound.
PassedBounded == count + Cardinality(Passed) <= Limit - 1 + Cardinality(Callers) + slipped

BudgetInv == BudgetTypeOK /\ PassedBounded

\* The requests that have passed are finitely many, and no more than there are.
LEMMA PassedFinite ==
    /\ IsFiniteSet(Passed) /\ Cardinality(Passed) \in Nat /\ Cardinality(Callers) \in Nat
    /\ Cardinality(Passed) <= Cardinality(Callers)
<1>1. Passed \in SUBSET Callers  BY DEF Passed
<1> QED BY <1>1, BudgetAssumption, FS_Subset, FS_CardinalityType

\* One request passes guard: one more has passed.
LEMMA OnePasses ==
    ASSUME BudgetTypeOK, NEW c \in Callers, calls[c] # "guarded",
           calls' = [calls EXCEPT ![c] = "guarded"]
    PROVE  Cardinality(Passed') = Cardinality(Passed) + 1
<1>1. Passed' = Passed \cup {c} /\ c \notin Passed  BY DEF Passed, BudgetTypeOK
<1> QED BY <1>1, PassedFinite, FS_AddElement

\* One request leaves: one fewer has passed.
LEMMA OneLeaves ==
    ASSUME BudgetTypeOK, NEW c \in Callers, NEW next \in {"idle", "expiring"},
           calls[c] = "guarded", calls' = [calls EXCEPT ![c] = next]
    PROVE  Cardinality(Passed') = Cardinality(Passed) - 1
<1>1. Passed' = Passed \ {c} /\ c \in Passed  BY DEF Passed, BudgetTypeOK
<1> QED BY <1>1, PassedFinite, FS_RemoveElement

\* A request that had not passed goes back to idle.
LEMMA NonePasses ==
    ASSUME BudgetTypeOK, NEW c \in Callers, calls[c] # "guarded",
           calls' = [calls EXCEPT ![c] = "idle"]
    PROVE  Passed' = Passed
BY DEF Passed, BudgetTypeOK

\* Every step keeps the types.
LEMMA BudgetTypeKept == BudgetTypeOK /\ [BudgetNext]_budget => BudgetTypeOK'
<1> SUFFICES ASSUME BudgetTypeOK, [BudgetNext]_budget PROVE BudgetTypeOK'
  OBVIOUS
<1> USE DEF BudgetTypeOK
<1>1. ASSUME NEW c \in Callers, Guard(c) \/ GuardUnreachable(c) \/ NotCounted(c) \/ Lose(c)
      PROVE BudgetTypeOK'
  BY <1>1 DEF Guard, GuardUnreachable, NotCounted, Lose
<1>2. ASSUME NEW c \in Callers, Spend(c) PROVE BudgetTypeOK'
  BY <1>2 DEF Spend
<1>3. ASSUME NEW c \in Callers, Expire(c) PROVE BudgetTypeOK'
  BY <1>3, BudgetAssumption DEF Expire
<1>4. CASE Lapse
  <2>1. ttl \in Nat \ {0}  BY <1>4 DEF Lapse
  <2>2. CASE ttl = 1  BY <1>4, <2>2 DEF Lapse
  <2>3. CASE ttl # 1
    <3>1. ttl' = ttl - 1 /\ count' = count /\ UNCHANGED <<calls, slipped>>
      BY <1>4, <2>3 DEF Lapse
    <3>2. ttl' \in Nat \ {0}  BY <2>1, <2>3, <3>1
    <3> QED BY <3>1, <3>2
  <2> QED BY <2>2, <2>3
<1>5. CASE UNCHANGED budget  BY <1>5 DEF budget
<1> QED BY <1>1, <1>2, <1>3, <1>4, <1>5 DEF BudgetNext

\* Every step keeps the bound.
LEMMA BudgetKept == BudgetInv /\ [BudgetNext]_budget => BudgetInv'
<1> SUFFICES ASSUME BudgetTypeOK, PassedBounded, [BudgetNext]_budget PROVE PassedBounded'
  BY BudgetTypeKept DEF BudgetInv
<1> DEFINE P == Cardinality(Passed)
           N == Cardinality(Callers)
<1>1. /\ P \in Nat /\ N \in Nat /\ P <= N /\ Limit \in Nat \ {0}
      /\ count \in Nat /\ slipped \in Nat /\ count + P <= Limit - 1 + N + slipped
  BY PassedFinite, BudgetAssumption DEF BudgetTypeOK, PassedBounded
<1>2. P' \in Nat /\ P' <= N
  <2>1. Passed' \in SUBSET Callers  BY DEF Passed
  <2> QED BY <2>1, BudgetAssumption, FS_Subset, FS_CardinalityType
<1>3. PassedBounded' <=> count' + P' <= Limit - 1 + N + slipped'  BY DEF PassedBounded
<1> HIDE DEF P, N
<1>4. ASSUME NEW c \in Callers, Guard(c) PROVE PassedBounded'
  <2>1. count' = count /\ count < Limit /\ slipped' = slipped  BY <1>4 DEF Guard, Within
  <2>2. count <= Limit - 1 /\ count \in Nat /\ Limit - 1 \in Nat  BY <1>1, <2>1
  <2>3. count + P' <= Limit - 1 + N  BY <1>1, <1>2, <2>2 DEF P, N
  <2>4. count + P' <= Limit - 1 + N + slipped  BY <1>1, <1>2, <2>2, <2>3 DEF P, N
  <2> QED BY <1>3, <2>1, <2>4
<1>5. ASSUME NEW c \in Callers, GuardUnreachable(c) PROVE PassedBounded'
  <2>1. P' = P + 1 /\ slipped' = slipped + 1 /\ count' = count
    BY <1>5, OnePasses DEF GuardUnreachable, P
  <2> QED BY <1>1, <1>3, <2>1
<1>6. ASSUME NEW c \in Callers, NotCounted(c) PROVE PassedBounded'
  <2>1. P' = P - 1 /\ count' = count /\ slipped' = slipped
    BY <1>6, OneLeaves DEF NotCounted, P
  <2> QED BY <1>1, <1>3, <2>1
<1>7. ASSUME NEW c \in Callers, Spend(c) PROVE PassedBounded'
  <2>1. PICK next \in {"idle", "expiring"} : calls' = [calls EXCEPT ![c] = next]
    BY <1>7 DEF Spend
  <2>2. P' = P - 1 /\ count' = count + 1 /\ slipped' = slipped
    BY <1>7, <2>1, OneLeaves DEF Spend, P
  <2> QED BY <1>1, <1>3, <2>2
<1>8. ASSUME NEW c \in Callers, Expire(c) \/ Lose(c) PROVE PassedBounded'
  <2>1. P' = P /\ count' = count /\ slipped' = slipped
    BY <1>8, NonePasses DEF Expire, Lose, P
  <2> QED BY <1>1, <1>3, <2>1
<1>9. CASE Lapse
  <2>1. P' = P /\ (count' = 0 \/ count' = count) /\ slipped' = slipped
    BY <1>9 DEF Lapse, P, Passed
  <2> QED BY <1>1, <1>3, <2>1
<1>10. CASE UNCHANGED budget
  <2>1. P' = P /\ count' = count /\ slipped' = slipped  BY <1>10 DEF budget, P, Passed
  <2> QED BY <1>1, <1>3, <2>1
<1> QED BY <1>4, <1>5, <1>6, <1>7, <1>8, <1>9, <1>10 DEF BudgetNext

\* "The overshoot is bounded by how many requests one caller can have in flight
\* at once" (rate_limit.py), whatever is lost and whenever the key lapses.
THEOREM OvershootIsBounded == BudgetSpec => []OvershootBounded
<1>1. BudgetInit => BudgetInv
  <2> SUFFICES ASSUME BudgetInit PROVE BudgetInv
    OBVIOUS
  <2>1. BudgetTypeOK  BY DEF BudgetInit, BudgetTypeOK
  <2>2. Passed = {}  BY DEF BudgetInit, Passed
  <2>3. Cardinality(Passed) = 0 /\ Cardinality(Callers) \in Nat
    BY <2>2, PassedFinite, FS_EmptySet
  <2> QED BY <2>1, <2>3, BudgetAssumption DEF BudgetInv, PassedBounded, BudgetInit
<1>2. BudgetInv => OvershootBounded
  BY PassedFinite, BudgetAssumption DEF BudgetInv, BudgetTypeOK, PassedBounded, OvershootBounded
<1> QED BY <1>1, <1>2, BudgetKept, PTL DEF BudgetSpec
-----------------------------------------------------------------------------
(* The keys.  A row is known by its id, which names the handler it came of, *)
(* so a late writer that finds the id it read finds the row it read.        *)

Run == [key : Keys, hash : Hashes, out : AllOutcomes, age : Nat, dropped : BOOLEAN]

Stages == {"idle", "delete", "insert", "refind", "run", "sent", "settle"}

Request == [at : Stages, key : Keys \cup {None}, hash : Hashes \cup {None},
            gone : Nat \cup {None}, age : Nat, run : Nat \cup {None},
            seen : Nat \cup {None}, open : BOOLEAN]

\* Types of the table, of the history and of what a request keeps.
KeyTypeOK ==
    /\ rows \in [Keys -> Row \cup {None}]
    /\ runs \in Seq(Run)
    /\ tx \in [Requests -> Request]
    /\ \A r \in Requests :
         /\ tx[r].at # "idle" => tx[r].key \in Keys /\ tx[r].hash \in Hashes
         /\ tx[r].at = "idle" => tx[r].gone = None

\* The row with this id came of a handler that ran for this key and content.
OfRun(id, k, h) ==
    \E i \in DOMAIN runs : id \in {ClaimId(i), AnswerId(i)} /\ runs[i].key = k /\ runs[i].hash = h

\* Rows, and what a request settles, come of handlers that ran.
Genuine ==
    /\ \A k \in Keys : rows[k] # None =>
         /\ OfRun(rows[k].id, k, rows[k].hash)
         /\ rows[k].answer # None => rows[k].answer \in DOMAIN runs
    /\ \A r \in Requests :
         /\ tx[r].at \in {"sent", "settle"} =>
              /\ tx[r].run \in DOMAIN runs
              /\ runs[tx[r].run].key = tx[r].key /\ runs[tx[r].run].hash = tx[r].hash
         /\ tx[r].at \in {"insert", "run", "sent"} => tx[r].seen = None
         /\ tx[r].at = "settle" /\ tx[r].seen # None => OfRun(tx[r].seen, tx[r].key, tx[r].hash)

\* The ids of rows a claim means to delete, or has deleted.
Doomed(x) == (IF x.at = "delete" THEN {x.seen, x.gone} ELSE {x.gone}) \ {None}

\* A claim deletes only the row it found expired, if the row is a claim too.
DeletesStale(x) ==
    \A id \in Doomed(x) :
        /\ id <= AnswerId(Len(runs))
        /\ \A i \in Nat : id = ClaimId(i) /\ rows[x.key] # None /\ rows[x.key].id = id
                          => Expired(rows[x.key])

OnlyTheStaleGo == \A r \in Requests : DeletesStale(tx[r])

\* The unique constraint: a handler that runs under a key has the key to itself.
HasTheKey(r, x) ==
    /\ rows[x.key] = None \/ rows[x.key].id = x.gone
    /\ \A s \in Requests \ {r} : tx[s].at = "run" => tx[s].key # x.key

RunsAlone == \A r \in Requests : tx[r].at = "run" => HasTheKey(r, tx[r])

\* An effect within the window whose claim was not dropped still has its claim.
Holds(i) == Effective(runs[i].out) /\ runs[i].age < Retention /\ ~runs[i].dropped

EffectsKeepTheirClaim ==
    \A i \in DOMAIN runs : Holds(i) =>
        LET k == runs[i].key
        IN  rows[k] # None /\ rows[k].id = ClaimId(i) /\ rows[k].age = runs[i].age

Open(k) == rows[k] # None /\ rows[k].answer = None /\ ~rows[k].orphan

\* This request will settle the row the key has now.
Attends(x, k) ==
    /\ x.key = k /\ x.hash = rows[k].hash
    /\ x.at = "sent" \/ (x.at = "settle" /\ x.seen = rows[k].id /\ x.open)

Attended == \A k \in Keys : Open(k) => \E r \in Requests : Attends(tx[r], k)

KeyInv ==
    /\ KeyTypeOK /\ Genuine /\ OnlyTheStaleGo /\ RunsAlone /\ EffectsKeepTheirClaim /\ Attended
    /\ OnlyADropRepeats /\ AnswersAreTheirOwn

\* An id names one handler.
LEMMA IdsNameRuns ==
    ASSUME NEW i \in Nat, NEW j \in Nat
    PROVE  /\ ClaimId(i) # AnswerId(j)
           /\ ClaimId(i) = ClaimId(j) => i = j
           /\ AnswerId(i) = AnswerId(j) => i = j
           /\ ClaimId(i) \in Nat /\ AnswerId(i) \in Nat
           /\ i <= j => ClaimId(i) <= AnswerId(j) /\ AnswerId(i) <= AnswerId(j)
           /\ i < j => AnswerId(i) < ClaimId(j)
BY DEF ClaimId, AnswerId

\* So the content of the request a row came of is the row's.
LEMMA IdsNameContents ==
    ASSUME runs \in Seq(Run), NEW id, NEW k, NEW g, NEW h, OfRun(id, k, g), OfRun(id, k, h)
    PROVE  g = h
<1>1. DOMAIN runs \subseteq Nat  OBVIOUS
<1> QED BY <1>1, IdsNameRuns DEF OfRun

LEMMA NoRequest ==
    /\ Idle \in Request /\ Idle.at = "idle" /\ Idle.gone = None /\ Doomed(Idle) = {}
    /\ \A k \in Keys : ~Attends(Idle, k)
<1>1. Idle \in Request /\ Idle.at = "idle" /\ Idle.gone = None  BY DEF Idle, Request, Stages
<1> QED BY <1>1 DEF Doomed, Attends

\* The fields of a handler's history.
LEMMA RunTyped ==
    ASSUME KeyInv, NEW i \in DOMAIN runs
    PROVE  /\ runs[i] \in Run /\ i \in 1..Len(runs) /\ runs[i].key \in Keys
           /\ runs[i].hash \in Hashes /\ runs[i].age \in Nat /\ runs[i].dropped \in BOOLEAN
<1>1. runs \in Seq(Run)  BY DEF KeyInv, KeyTypeOK
<1>2. runs[i] \in Run /\ i \in 1..Len(runs)  BY <1>1
<1> QED BY <1>2 DEF Run

\* A step of one request that writes no row keeps the invariant, when what it
\* goes on with is right and a row it was to settle is still to be settled by it.
LEMMA KeyMovesOn ==
    ASSUME KeyInv, NEW r \in Requests, NEW x \in Request,
           tx' = [tx EXCEPT ![r] = x], UNCHANGED <<rows, runs>>,
           x.at # "idle" => x.key \in Keys /\ x.hash \in Hashes,
           x.at = "idle" => x.gone = None,
           x.at \in {"sent", "settle"} =>
               /\ x.run \in DOMAIN runs
               /\ runs[x.run].key = x.key /\ runs[x.run].hash = x.hash,
           x.at \in {"insert", "run", "sent"} => x.seen = None,
           x.at = "settle" /\ x.seen # None => OfRun(x.seen, x.key, x.hash),
           DeletesStale(x),
           x.at = "run" => HasTheKey(r, x),
           \A k \in Keys : Open(k) /\ Attends(tx[r], k) => Attends(x, k)
    PROVE  KeyInv'
<1>1. /\ tx'[r] = x /\ \A s \in Requests \ {r} : tx'[s] = tx[s]
      /\ tx' \in [Requests -> Request]
  BY DEF KeyInv, KeyTypeOK
<1>2. KeyTypeOK'  BY <1>1 DEF KeyInv, KeyTypeOK
<1>3. Genuine'  BY <1>1 DEF KeyInv, Genuine, OfRun
<1>4. OnlyTheStaleGo'
  <2> SUFFICES ASSUME NEW s \in Requests PROVE DeletesStale(tx[s])'
    BY DEF OnlyTheStaleGo
  <2>1. PICK y : y = tx'[s] /\ DeletesStale(y)  BY <1>1 DEF KeyInv, OnlyTheStaleGo
  <2> QED BY <2>1 DEF DeletesStale, Doomed, Expired
<1>5. RunsAlone'  BY <1>1 DEF KeyInv, RunsAlone, HasTheKey
<1>6. EffectsKeepTheirClaim'  BY DEF KeyInv, EffectsKeepTheirClaim, Holds
<1>7. Attended'
  <2> SUFFICES ASSUME NEW k \in Keys, Open(k) PROVE \E s \in Requests : Attends(tx[s], k)'
    BY DEF Attended, Open
  <2>1. PICK s \in Requests : Attends(tx[s], k)  BY DEF KeyInv, Attended
  <2>2. CASE s = r  BY <1>1, <2>1, <2>2 DEF Attends
  <2>3. CASE s # r  BY <1>1, <2>1, <2>3 DEF Attends
  <2> QED BY <2>2, <2>3
<1>8. OnlyADropRepeats' /\ AnswersAreTheirOwn'
  BY DEF KeyInv, OnlyADropRepeats, Recent, AnswersAreTheirOwn
<1> QED BY <1>2, <1>3, <1>4, <1>5, <1>6, <1>7, <1>8 DEF KeyInv

\* A request that ends with nothing written, and no row left to it.
LEMMA KeyEnds ==
    ASSUME KeyInv, NEW r \in Requests, Done(r), UNCHANGED <<rows, runs>>,
           \A k \in Keys : Open(k) => ~Attends(tx[r], k)
    PROVE  KeyInv'
<1>1. DeletesStale(Idle)  BY NoRequest DEF DeletesStale
<1> QED BY <1>1, NoRequest, KeyMovesOn DEF Done

\* claim looks a key up that is new, or whose row has expired.
LEMMA ArriveKeeps ==
    ASSUME KeyInv, NEW r \in Requests, NEW k \in Keys, NEW h \in Hashes, Arrive(r, k, h)
    PROVE  KeyInv'
<1> DEFINE x == [Idle EXCEPT !.key = k, !.hash = h,
                   !.at = IF rows[k] = None THEN "insert" ELSE "delete",
                   !.seen = IF rows[k] = None THEN None ELSE rows[k].id]
<1>1. tx' = [tx EXCEPT ![r] = x] /\ UNCHANGED <<rows, runs>> /\ tx[r].at = "idle" /\ ~Answered(k)
  BY DEF Arrive
<1>2. rows[k] # None => rows[k] \in Row /\ rows[k].id \in Nat  BY DEF KeyInv, KeyTypeOK, Row
<1>3. /\ x \in Request /\ x.key = k /\ x.hash = h /\ x.gone = None
      /\ \/ x.at = "insert" /\ x.seen = None
         \/ x.at = "delete" /\ rows[k] # None /\ x.seen = rows[k].id
  BY <1>2 DEF Idle, Request, Stages
<1> HIDE DEF x
<1>4. ASSUME x.at = "delete" PROVE DeletesStale(x)
  <2>1. Doomed(x) = {rows[k].id} \ {None}  BY <1>3, <1>4 DEF Doomed
  <2>2. Expired(rows[k])  BY <1>1, <1>3, <1>4 DEF Answered
  <2>3. rows[k].id <= AnswerId(Len(runs))
    <3>1. PICK i \in DOMAIN runs : rows[k].id \in {ClaimId(i), AnswerId(i)}
      BY <1>3, <1>4 DEF KeyInv, Genuine, OfRun
    <3>2. i \in Nat /\ Len(runs) \in Nat /\ i <= Len(runs)  BY DEF KeyInv, KeyTypeOK
    <3> DEFINE n == Len(runs)
    <3>3. i \in Nat /\ n \in Nat /\ i <= n  BY <3>2
    <3> HIDE DEF n
    <3>4. ClaimId(i) <= AnswerId(n) /\ AnswerId(i) <= AnswerId(n)  BY <3>3 DEF ClaimId, AnswerId
    <3>5. rows[k].id <= AnswerId(n)  BY <3>1, <3>4
    <3> QED BY <3>5 DEF n
  <2> QED BY <1>3, <2>1, <2>2, <2>3 DEF DeletesStale
<1>5. ASSUME x.at = "insert" PROVE DeletesStale(x)
  BY <1>3, <1>5 DEF DeletesStale, Doomed
<1>6. \A l \in Keys : ~Attends(tx[r], l)  BY <1>1 DEF Attends
<1> QED BY <1>1, <1>3, <1>4, <1>5, <1>6, KeyMovesOn

\* The expired row is deleted, if it is the one that was read.
LEMMA ClaimDeleteKeeps ==
    ASSUME KeyInv, NEW r \in Requests, ClaimDelete(r)
    PROVE  KeyInv'
<1> DEFINE g == IF rows[tx[r].key] # None /\ rows[tx[r].key].id = tx[r].seen
                THEN tx[r].seen ELSE None
           x == [tx[r] EXCEPT !.at = "insert", !.seen = None, !.gone = g]
<1>1. tx[r] \in Request /\ tx[r].at = "delete"  BY DEF KeyInv, KeyTypeOK, ClaimDelete
<1>2. tx' = [tx EXCEPT ![r] = x] /\ UNCHANGED <<rows, runs>>
  BY DEF ClaimDelete, KeyInv, KeyTypeOK
<1>3. g = tx[r].seen \/ g = None  OBVIOUS
<1> HIDE DEF g
<1>4. /\ x \in Request /\ x.at = "insert" /\ x.key = tx[r].key /\ x.hash = tx[r].hash /\ x.gone = g
      /\ x.seen = None
  BY <1>1, <1>3 DEF Request, Stages
<1> HIDE DEF x
<1>5. Doomed(x) \subseteq Doomed(tx[r])  BY <1>1, <1>3, <1>4 DEF Doomed
<1>6. DeletesStale(x)  BY <1>4, <1>5 DEF KeyInv, OnlyTheStaleGo, DeletesStale
<1>7. x.key \in Keys /\ x.hash \in Hashes  BY <1>1, <1>4 DEF KeyInv, KeyTypeOK
<1>8. \A k \in Keys : ~Attends(tx[r], k)  BY <1>1 DEF Attends
<1> QED BY <1>2, <1>4, <1>6, <1>7, <1>8, KeyMovesOn

\* The insert wins the key, or loses it to a row that is there.
LEMMA ClaimInsertKeeps ==
    ASSUME KeyInv, NEW r \in Requests, ClaimInsert(r)
    PROVE  KeyInv'
<1> DEFINE a == IF Visible(r, tx[r].key) THEN "refind" ELSE "run"
           x == [tx[r] EXCEPT !.at = a, !.age = 0]
<1>1. tx[r] \in Request /\ tx[r].at = "insert"  BY DEF KeyInv, KeyTypeOK, ClaimInsert
<1>2. tx' = [tx EXCEPT ![r] = x] /\ UNCHANGED <<rows, runs>>
  BY DEF ClaimInsert, KeyInv, KeyTypeOK
<1>3. a \in {"refind", "run"} /\ (a = "run" => ~Visible(r, tx[r].key))  OBVIOUS
<1> HIDE DEF a
<1>4. /\ x \in Request /\ x.at = a /\ x.key = tx[r].key /\ x.hash = tx[r].hash
      /\ x.gone = tx[r].gone /\ x.seen = None
  BY <1>1, <1>3 DEF Request, Stages, KeyInv, Genuine
<1> HIDE DEF x
<1>5. Doomed(x) = Doomed(tx[r])  BY <1>1, <1>3, <1>4 DEF Doomed
<1>6. DeletesStale(x)  BY <1>4, <1>5 DEF KeyInv, OnlyTheStaleGo, DeletesStale
<1>7. x.key \in Keys /\ x.hash \in Hashes  BY <1>1, <1>4 DEF KeyInv, KeyTypeOK
<1>8. \A k \in Keys : ~Attends(tx[r], k)  BY <1>1 DEF Attends
<1>9. x.at = "run" => HasTheKey(r, x)
  BY <1>3, <1>4 DEF ClaimInsert, InsertHeld, Visible, HasTheKey
<1> QED BY <1>2, <1>3, <1>4, <1>6, <1>7, <1>8, <1>9, KeyMovesOn

\* _settle looks the row up.
LEMMA SettleReadKeeps ==
    ASSUME KeyInv, NEW r \in Requests, SettleRead(r)
    PROVE  KeyInv'
<1> DEFINE k == tx[r].key
<1>1. /\ tx[r] \in Request /\ tx[r].at = "sent" /\ k \in Keys /\ tx[r].hash \in Hashes
      /\ UNCHANGED <<rows, runs>>
  BY DEF KeyInv, KeyTypeOK, SettleRead
<1>2. DeletesStale(tx[r])  BY DEF KeyInv, OnlyTheStaleGo
<1>3. CASE rows[k] = None
  <2> DEFINE x == [tx[r] EXCEPT !.at = "settle"]
  <2>1. tx' = [tx EXCEPT ![r] = x]  BY <1>3 DEF SettleRead, KeyInv, KeyTypeOK
  <2>2. /\ x \in Request /\ x.at = "settle" /\ x.key = k /\ x.hash = tx[r].hash
        /\ x.gone = tx[r].gone /\ x.run = tx[r].run /\ x.seen = tx[r].seen
    BY <1>1 DEF Request, Stages
  <2> HIDE DEF x
  <2>3. x.seen = None  BY <1>1, <2>2 DEF KeyInv, Genuine
  <2>4. DeletesStale(x)  BY <1>1, <1>2, <2>2 DEF DeletesStale, Doomed
  <2>5. \A l \in Keys : Open(l) => ~Attends(tx[r], l)  BY <1>3 DEF Open, Attends
  <2>6. /\ x.run \in DOMAIN runs
        /\ runs[x.run].key = x.key /\ runs[x.run].hash = x.hash
    BY <1>1, <2>2 DEF KeyInv, Genuine
  <2> QED BY <1>1, <2>1, <2>2, <2>3, <2>4, <2>5, <2>6, KeyMovesOn
<1>4. CASE rows[k] # None /\ SameAsOurs(r)
  <2> DEFINE o == rows[k].answer = None
             x == [tx[r] EXCEPT !.at = "settle", !.seen = rows[k].id, !.open = o]
  <2>1. tx' = [tx EXCEPT ![r] = x]  BY <1>4 DEF SettleRead, KeyInv, KeyTypeOK
  <2>2. rows[k] \in Row /\ rows[k].id \in Nat  BY <1>1, <1>4 DEF KeyInv, KeyTypeOK, Row
  <2>3. o \in BOOLEAN  OBVIOUS
  <2>4. Open(k) => o  BY DEF Open
  <2> HIDE DEF o
  <2>5. /\ x \in Request /\ x.at = "settle" /\ x.key = k /\ x.hash = tx[r].hash
        /\ x.gone = tx[r].gone /\ x.run = tx[r].run /\ x.seen = rows[k].id /\ x.open = o
    BY <1>1, <2>2, <2>3 DEF Request, Stages
  <2> HIDE DEF x
  <2>6. rows[k].hash = tx[r].hash  BY <1>4 DEF SameAsOurs
  <2>7. OfRun(x.seen, x.key, x.hash)  BY <1>1, <1>4, <2>5, <2>6 DEF KeyInv, Genuine
  <2>8. DeletesStale(x)  BY <1>1, <1>2, <2>5 DEF DeletesStale, Doomed
  <2>9. \A l \in Keys : Open(l) /\ Attends(tx[r], l) => Attends(x, l)
    BY <2>4, <2>5, <2>6 DEF Attends
  <2>10. /\ x.run \in DOMAIN runs
         /\ runs[x.run].key = x.key /\ runs[x.run].hash = x.hash
    BY <1>1, <2>5 DEF KeyInv, Genuine
  <2> QED BY <1>1, <2>1, <2>5, <2>7, <2>8, <2>9, <2>10, KeyMovesOn
<1>5. CASE rows[k] # None /\ ~SameAsOurs(r)
  <2>1. Done(r)  BY <1>5 DEF SettleRead
  <2>2. \A l \in Keys : ~Attends(tx[r], l)  BY <1>5 DEF SameAsOurs, Attends
  <2> QED BY <1>1, <2>1, <2>2, KeyEnds
<1> QED BY <1>3, <1>4, <1>5

\* The history of handlers, with perhaps some claims dropped.
DropsOnly ==
    /\ runs' \in Seq(Run) /\ Len(runs') = Len(runs)
    /\ \A i \in DOMAIN runs :
         /\ runs'[i].key = runs[i].key /\ runs'[i].hash = runs[i].hash
         /\ runs'[i].out = runs[i].out /\ runs'[i].age = runs[i].age
         /\ runs[i].dropped => runs'[i].dropped

\* A request ends, having written the row of its key: one that was there, marked or
\* with its answer; a new one for an answer alone; or none, a claim dropped.
LEMMA WritesItsRow ==
    ASSUME KeyInv, NEW r \in Requests, NEW k \in Keys, NEW y \in Row \cup {None},
           tx[r].key = k, Done(r), rows' = [rows EXCEPT ![k] = y], DropsOnly,
           y # None =>
             /\ OfRun(y.id, k, y.hash)
             /\ y.answer # None => /\ y.answer \in DOMAIN runs /\ runs[y.answer].key = k
                                   /\ runs[y.answer].hash = y.hash
                                   /\ Storable(runs[y.answer].out)
             /\ \/ rows[k] # None /\ y.id = rows[k].id /\ y.age = rows[k].age /\ y.hash = rows[k].hash
                \/ /\ rows[k] = None /\ \A s \in Requests \ {r} : tx[s].at = "run" => tx[s].key # k
                   /\ \E i \in Nat : y.id = AnswerId(i)
             /\ y.answer = None /\ ~y.orphan => Open(k) /\ ~Attends(tx[r], k),
           y = None => \A i \in DOMAIN runs : runs[i].key = k /\ Holds(i) => runs'[i].dropped
    PROVE  KeyInv'
<1>1. /\ tx'[r] = Idle /\ \A s \in Requests \ {r} : tx'[s] = tx[s]
      /\ tx' \in [Requests -> Request]
  BY NoRequest DEF Done, KeyInv, KeyTypeOK
<1>2. /\ rows'[k] = y /\ \A l \in Keys \ {k} : rows'[l] = rows[l]
      /\ rows' \in [Keys -> Row \cup {None}]
  BY DEF KeyInv, KeyTypeOK
<1>3. DOMAIN runs' = DOMAIN runs /\ DOMAIN runs \subseteq Nat  BY DEF DropsOnly, KeyInv, KeyTypeOK
<1>4. KeyTypeOK'
  BY <1>1, <1>2, NoRequest DEF KeyInv, KeyTypeOK, DropsOnly
<1>5. Genuine'
  <2>1. ASSUME NEW l \in Keys, rows'[l] # None
        PROVE  /\ OfRun(rows[l].id, l, rows[l].hash)'
               /\ rows'[l].answer # None => rows'[l].answer \in DOMAIN runs'
    <3>1. CASE l = k  BY <1>2, <1>3, <2>1, <3>1 DEF OfRun, DropsOnly
    <3>2. CASE l # k  BY <1>2, <1>3, <2>1, <3>2 DEF KeyInv, Genuine, OfRun, DropsOnly
    <3> QED BY <3>1, <3>2
  <2>2. ASSUME NEW s \in Requests, s # r, tx[s].at \in {"sent", "settle"}
        PROVE  /\ tx'[s].run \in DOMAIN runs'
               /\ runs'[tx'[s].run].key = tx'[s].key /\ runs'[tx'[s].run].hash = tx'[s].hash
    BY <1>1, <1>3, <2>2 DEF KeyInv, Genuine, DropsOnly
  <2>3. ASSUME NEW s \in Requests, s # r, tx[s].at = "settle", tx[s].seen # None
        PROVE  OfRun(tx[s].seen, tx[s].key, tx[s].hash)'
    BY <1>1, <1>3, <2>3 DEF KeyInv, Genuine, OfRun, DropsOnly
  <2>4. ASSUME NEW s \in Requests, s # r, tx[s].at \in {"insert", "run", "sent"}
        PROVE  tx'[s].seen = None
    BY <1>1, <2>4 DEF KeyInv, Genuine
  <2> QED BY <1>1, <2>1, <2>2, <2>3, <2>4, NoRequest DEF Genuine
<1>6. OnlyTheStaleGo'
  <2> SUFFICES ASSUME NEW s \in Requests PROVE DeletesStale(tx[s])'
    BY DEF OnlyTheStaleGo
  <2>1. CASE s = r  BY <1>1, <2>1, NoRequest DEF DeletesStale, Doomed
  <2>2. CASE s # r
    <3>1. PICK z : z = tx'[s] /\ z = tx[s] /\ DeletesStale(z)
      BY <1>1, <2>2 DEF KeyInv, OnlyTheStaleGo
    <3>2. ASSUME NEW id \in Doomed(z) PROVE id <= AnswerId(Len(runs'))
      BY <3>1, <3>2 DEF DeletesStale, DropsOnly
    <3>3. ASSUME NEW id \in Doomed(z), NEW i \in Nat, id = ClaimId(i),
                 rows'[z.key] # None, rows'[z.key].id = id
          PROVE  Expired(rows'[z.key])
      <4>1. CASE z.key = k
        <5>1. y # None /\ y.id = ClaimId(i)  BY <1>2, <3>3, <4>1
        <5>2. rows[k] # None /\ y.id = rows[k].id /\ y.age = rows[k].age
          BY <5>1, IdsNameRuns
        <5>3. Expired(rows[k])  BY <3>1, <3>3, <4>1, <5>1, <5>2 DEF DeletesStale
        <5> QED BY <1>2, <4>1, <5>2, <5>3 DEF Expired
      <4>2. CASE z.key # k
        <5>1. z.key \in Keys  BY <3>1, <3>3 DEF Doomed, KeyInv, KeyTypeOK
        <5>2. rows'[z.key] = rows[z.key]  BY <1>2, <4>2, <5>1
        <5> QED BY <3>1, <3>3, <5>2 DEF DeletesStale
      <4> QED BY <4>1, <4>2
    <3> QED BY <3>1, <3>2, <3>3 DEF DeletesStale, Doomed, Expired
  <2> QED BY <2>1, <2>2
<1>7. RunsAlone'
  <2> SUFFICES ASSUME NEW s \in Requests, s # r, tx[s].at = "run" PROVE HasTheKey(s, tx[s])'
    BY <1>1, NoRequest DEF RunsAlone
  <2>1. HasTheKey(s, tx[s]) /\ tx[s].key \in Keys  BY DEF KeyInv, RunsAlone, KeyTypeOK
  <2>2. rows'[tx[s].key] = None \/ rows'[tx[s].key].id = tx[s].gone
    <3>1. CASE tx[s].key = k  BY <1>2, <2>1, <3>1 DEF HasTheKey
    <3>2. CASE tx[s].key # k  BY <1>2, <2>1, <3>2 DEF HasTheKey
    <3> QED BY <3>1, <3>2
  <2> QED BY <1>1, <2>1, <2>2, NoRequest DEF HasTheKey
<1>8. EffectsKeepTheirClaim'
  <2> SUFFICES ASSUME NEW i \in DOMAIN runs, Holds(i)'
               PROVE  /\ rows'[runs'[i].key] # None
                      /\ rows'[runs'[i].key].id = ClaimId(i)
                      /\ rows'[runs'[i].key].age = runs'[i].age
    BY <1>3 DEF EffectsKeepTheirClaim
  <2>1. Holds(i) /\ ~runs'[i].dropped /\ runs'[i].key = runs[i].key /\ runs'[i].age = runs[i].age
    BY DEF Holds, DropsOnly
  <2>2. /\ rows[runs[i].key] # None /\ rows[runs[i].key].id = ClaimId(i)
        /\ rows[runs[i].key].age = runs[i].age
    BY <2>1 DEF KeyInv, EffectsKeepTheirClaim
  <2>3. runs[i].key \in Keys  BY RunTyped
  <2>4. CASE runs[i].key = k
    <3>1. y # None  BY <2>1, <2>4
    <3>2. y.id = rows[k].id /\ y.age = rows[k].age  BY <2>2, <2>4, <3>1
    <3> QED BY <1>2, <2>1, <2>2, <2>4, <3>1, <3>2
  <2>5. CASE runs[i].key # k  BY <1>2, <2>1, <2>2, <2>3, <2>5
  <2> QED BY <2>4, <2>5
<1>9. Attended'
  <2> SUFFICES ASSUME NEW l \in Keys, Open(l)' PROVE \E s \in Requests : Attends(tx[s], l)'
    BY DEF Attended
  <2>1. Open(l) /\ (l = k => ~Attends(tx[r], k))
        /\ rows'[l].id = rows[l].id /\ rows'[l].hash = rows[l].hash
    <3>1. CASE l = k  BY <1>2, <3>1 DEF Open
    <3>2. CASE l # k  BY <1>2, <3>2 DEF Open
    <3> QED BY <3>1, <3>2
  <2>2. PICK s \in Requests : Attends(tx[s], l)  BY <2>1 DEF KeyInv, Attended
  <2>3. s # r  BY <2>1, <2>2 DEF Attends
  <2> QED BY <1>1, <2>1, <2>2, <2>3 DEF Attends
<1>10. OnlyADropRepeats'
  <2> SUFFICES ASSUME NEW l \in Keys, NEW i \in Recent(l)', NEW j \in Recent(l)', i < j
               PROVE  runs'[i].dropped
    BY DEF OnlyADropRepeats
  <2>1. i \in Recent(l) /\ j \in Recent(l)  BY <1>3 DEF Recent, DropsOnly
  <2>2. runs[i].dropped /\ i \in DOMAIN runs  BY <2>1 DEF KeyInv, OnlyADropRepeats, Recent
  <2> QED BY <2>2 DEF DropsOnly
<1>11. AnswersAreTheirOwn'
  <2> SUFFICES ASSUME NEW l \in Keys, rows'[l] # None, rows'[l].answer # None
               PROVE  /\ runs'[rows'[l].answer].key = l
                      /\ runs'[rows'[l].answer].hash = rows'[l].hash
                      /\ Storable(runs'[rows'[l].answer].out)
    BY DEF AnswersAreTheirOwn, Storable
  <2>1. CASE l = k  BY <1>2, <2>1 DEF DropsOnly
  <2>2. CASE l # k
    <3>1. rows'[l] = rows[l] /\ rows[l].answer \in DOMAIN runs
      BY <1>2, <2>2 DEF KeyInv, Genuine
    <3> QED BY <3>1 DEF KeyInv, AnswersAreTheirOwn, DropsOnly
  <2> QED BY <2>1, <2>2
<1> QED BY <1>4, <1>5, <1>6, <1>7, <1>8, <1>9, <1>10, <1>11 DEF KeyInv

\* What a request that settles knows.
LEMMA Settling ==
    ASSUME KeyInv, NEW r \in Requests, tx[r].at \in {"sent", "settle"}
    PROVE  /\ tx[r].key \in Keys /\ tx[r].hash \in Hashes
           /\ tx[r].run \in DOMAIN runs /\ tx[r].run \in Nat /\ tx[r].run # None
           /\ runs[tx[r].run].key = tx[r].key /\ runs[tx[r].run].hash = tx[r].hash
<1>1. tx[r].run \in DOMAIN runs  BY DEF KeyInv, Genuine
<1>2. tx[r].run \in Nat  BY <1>1, RunTyped
<1> QED BY <1>1, <1>2, IdempotencyAssumption DEF KeyInv, KeyTypeOK, Genuine

\* Nothing dropped is a history with nothing changed.
LEMMA NoneDropped ==
    ASSUME KeyInv, UNCHANGED runs
    PROVE  DropsOnly
BY DEF DropsOnly, KeyInv, KeyTypeOK

\* The answer is stored in the row that was read, if it is still there.
LEMMA SettleStoreKeeps ==
    ASSUME KeyInv, NEW r \in Requests, SettleStore(r)
    PROVE  KeyInv'
<1> DEFINE k == tx[r].key
           y == [rows[k] EXCEPT !.answer = tx[r].run]
<1>1. /\ tx[r].at = "settle" /\ tx[r].seen # None /\ Storable(runs[tx[r].run].out)
      /\ Done(r) /\ UNCHANGED runs
  BY DEF SettleStore
<1>2. k \in Keys /\ tx[r].run \in Nat  BY <1>1, Settling
<1>3. CASE Hit(r)
  <2>1. rows' = [rows EXCEPT ![k] = y]  BY <1>3 DEF SettleStore, KeyInv, KeyTypeOK
  <2>2. rows[k] # None /\ rows[k].id = tx[r].seen /\ rows[k] \in Row
    BY <1>2, <1>3 DEF Hit, KeyInv, KeyTypeOK
  <2>3. /\ y \in Row /\ y.id = rows[k].id /\ y.age = rows[k].age /\ y.hash = rows[k].hash
        /\ y.answer = tx[r].run /\ y # None
    BY <1>2, <2>2, IdempotencyAssumption DEF Row
  <2> HIDE DEF y
  <2>4. OfRun(tx[r].seen, k, tx[r].hash) /\ OfRun(rows[k].id, k, rows[k].hash)
    BY <1>1, <1>2, <2>2 DEF KeyInv, Genuine
  <2>5. rows[k].hash = tx[r].hash
    BY <2>2, <2>4, IdsNameContents DEF KeyInv, KeyTypeOK
  <2>6. OfRun(y.id, k, y.hash)  BY <2>3, <2>4
  <2>7. /\ y.answer \in DOMAIN runs /\ runs[y.answer].key = k /\ y.answer # None
        /\ runs[y.answer].hash = y.hash /\ Storable(runs[y.answer].out)
    BY <1>1, <2>3, <2>5, Settling
  <2> QED BY <1>1, <1>2, <2>1, <2>2, <2>3, <2>6, <2>7, NoneDropped, WritesItsRow
<1>4. CASE ~Hit(r)
  <2>1. UNCHANGED rows  BY <1>4 DEF SettleStore
  <2>2. \A l \in Keys : Open(l) => ~Attends(tx[r], l)  BY <1>1, <1>4 DEF Open, Attends, Hit
  <2> QED BY <1>1, <2>1, <2>2, KeyEnds
<1> QED BY <1>3, <1>4

\* An answer with no row gets one, unless somebody else's is there by now.
LEMMA SettleInsertKeeps ==
    ASSUME KeyInv, NEW r \in Requests, SettleInsert(r)
    PROVE  KeyInv'
<1> DEFINE k == tx[r].key
           y == [id |-> AnswerId(tx[r].run), hash |-> tx[r].hash, answer |-> tx[r].run, age |-> 0,
                 orphan |-> FALSE]
<1>1. /\ tx[r].at = "settle" /\ tx[r].seen = None /\ Storable(runs[tx[r].run].out)
      /\ Done(r) /\ UNCHANGED runs /\ ~InsertHeld(r, k)
  BY DEF SettleInsert
<1>2. k \in Keys /\ tx[r].run \in Nat /\ tx[r].hash \in Hashes  BY <1>1, Settling
<1>3. CASE rows[k] = None
  <2>1. rows' = [rows EXCEPT ![k] = y]  BY <1>3 DEF SettleInsert
  <2>2. AnswerId(tx[r].run) \in Nat  BY <1>2, IdsNameRuns
  <2>3. /\ y.id = AnswerId(tx[r].run) /\ y.hash = tx[r].hash /\ y.answer = tx[r].run
        /\ y \in Row /\ y # None
    <3>1. y \in Row  BY <1>2, <2>2 DEF Row
    <3> QED BY <3>1, IdempotencyAssumption
  <2> HIDE DEF y
  <2>4. OfRun(y.id, k, y.hash)  BY <1>1, <2>3, Settling DEF OfRun
  <2>5. \A s \in Requests \ {r} : tx[s].at = "run" => tx[s].key # k  BY <1>1 DEF InsertHeld
  <2> QED BY <1>1, <1>2, <1>3, <2>1, <2>3, <2>4, <2>5, Settling, NoneDropped, WritesItsRow
<1>4. CASE rows[k] # None
  <2>1. UNCHANGED rows  BY <1>4 DEF SettleInsert
  <2>2. rows[k].id # None
    BY <1>2, <1>4, IdempotencyAssumption DEF KeyInv, KeyTypeOK, Row
  <2>3. \A l \in Keys : ~Attends(tx[r], l)  BY <1>1, <2>2 DEF Attends
  <2> QED BY <1>1, <2>1, <2>3, KeyEnds
<1> QED BY <1>3, <1>4

\* An answer that is not stored drops the claim that was read.
LEMMA SettleDropKeeps ==
    ASSUME KeyInv, NEW r \in Requests, SettleDrop(r)
    PROVE  KeyInv'
<1> DEFINE k == tx[r].key
<1>1. tx[r].at = "settle" /\ Done(r) /\ rows' = Drop(r)  BY DEF SettleDrop
<1>2. k \in Keys  BY <1>1, Settling
<1>3. CASE tx[r].open /\ Hit(r)
  <2>1. rows' = [rows EXCEPT ![k] = None]  BY <1>1, <1>3 DEF Drop
  <2>2. rows[k] # None /\ rows[k].id = tx[r].seen  BY <1>3 DEF Hit
  <2>3. rows' # rows  BY <1>2, <2>1, <2>2 DEF KeyInv, KeyTypeOK
  <2> DEFINE new(i) == IF ClaimId(i) = tx[r].seen THEN [runs[i] EXCEPT !.dropped = TRUE]
                       ELSE runs[i]
  <2>4. runs' = [i \in DOMAIN runs |-> new(i)]  BY <2>3 DEF SettleDrop
  <2>5. ASSUME NEW i \in DOMAIN runs
        PROVE  /\ new(i) \in Run /\ new(i).key = runs[i].key /\ new(i).hash = runs[i].hash
               /\ new(i).out = runs[i].out /\ new(i).age = runs[i].age
               /\ runs[i].dropped => new(i).dropped
               /\ ClaimId(i) = tx[r].seen => new(i).dropped
    <3>1. runs[i] \in Run  BY RunTyped
    <3> QED BY <3>1 DEF Run
  <2> HIDE DEF new
  <2>6. DOMAIN runs = 1..Len(runs) /\ Len(runs) \in Nat  BY DEF KeyInv, KeyTypeOK
  <2>7. runs' \in [1..Len(runs) -> Run]  BY <2>4, <2>5, <2>6
  <2>8. runs' \in Seq(Run) /\ Len(runs') = Len(runs)  BY <2>6, <2>7
  <2>9. DropsOnly  BY <2>4, <2>5, <2>8 DEF DropsOnly
  <2>10. ASSUME NEW i \in DOMAIN runs, runs[i].key = k, Holds(i) PROVE runs'[i].dropped
    <3>1. rows[k].id = ClaimId(i)  BY <2>10 DEF KeyInv, EffectsKeepTheirClaim
    <3> QED BY <2>2, <2>4, <2>5, <3>1
  <2> QED BY <1>1, <1>2, <2>1, <2>9, <2>10, WritesItsRow
<1>4. CASE ~(tx[r].open /\ Hit(r))
  <2>1. UNCHANGED rows  BY <1>1, <1>4 DEF Drop
  <2>2. runs' = [i \in DOMAIN runs |-> runs[i]]  BY <2>1 DEF SettleDrop
  <2>3. UNCHANGED runs  BY <2>2 DEF KeyInv, KeyTypeOK
  <2>4. \A l \in Keys : Open(l) => ~Attends(tx[r], l)  BY <1>1, <1>4 DEF Open, Attends, Hit
  <2> QED BY <1>1, <2>1, <2>3, <2>4, KeyEnds
<1> QED BY <1>3, <1>4

\* A process that stops after its answer has gone leaves the row, marked.
LEMMA CrashKeeps ==
    ASSUME KeyInv, NEW r \in Requests, Crash(r)
    PROVE  KeyInv'
<1> DEFINE k == tx[r].key
           y == [rows[k] EXCEPT !.orphan = TRUE]
<1>1. Done(r) /\ UNCHANGED runs /\ k \in Keys  BY DEF Crash, KeyInv, KeyTypeOK
<1>2. CASE tx[r].at \in {"sent", "settle"} /\ rows[k] # None
  <2>1. rows' = [rows EXCEPT ![k] = y]  BY <1>2 DEF Crash, KeyInv, KeyTypeOK
  <2>2. rows[k] \in Row  BY <1>1, <1>2 DEF KeyInv, KeyTypeOK
  <2>3. /\ y \in Row /\ y.id = rows[k].id /\ y.hash = rows[k].hash /\ y.age = rows[k].age
        /\ y.answer = rows[k].answer /\ y.orphan = TRUE /\ y # None
    BY <2>2, IdempotencyAssumption DEF Row
  <2> HIDE DEF y
  <2>4. OfRun(y.id, k, y.hash)  BY <1>1, <1>2, <2>3 DEF KeyInv, Genuine
  <2>5. y.answer # None => /\ y.answer \in DOMAIN runs /\ runs[y.answer].key = k
                           /\ runs[y.answer].hash = y.hash
                           /\ Storable(runs[y.answer].out)
    BY <1>1, <1>2, <2>3 DEF KeyInv, Genuine, AnswersAreTheirOwn
  <2> QED BY <1>1, <1>2, <2>1, <2>3, <2>4, <2>5, NoneDropped, WritesItsRow
<1>3. CASE ~(tx[r].at \in {"sent", "settle"} /\ rows[k] # None)
  <2>1. UNCHANGED rows  BY <1>3 DEF Crash
  <2>2. \A l \in Keys : Open(l) => ~Attends(tx[r], l)  BY <1>3 DEF Open, Attends
  <2> QED BY <1>1, <2>1, <2>2, KeyEnds
<1> QED BY <1>2, <1>3

\* The handler ends: its claim, if it left an effect, becomes the key's row.
LEMMA FinishKeeps ==
    ASSUME KeyInv, NEW r \in Requests, NEW o \in Outcomes, Finish(r, o)
    PROVE  KeyInv'
<1> DEFINE k == tx[r].key
           h == tx[r].hash
           n == Len(runs) + 1
           x == [tx[r] EXCEPT !.at = "sent", !.gone = None, !.run = n]
           y == [id |-> ClaimId(n), hash |-> h, answer |-> None, age |-> tx[r].age,
                 orphan |-> FALSE]
           a == IF Effective(o) THEN tx[r].age ELSE 0
           new == [key |-> k, hash |-> h, out |-> o, age |-> a, dropped |-> FALSE]
<1>1. /\ tx[r] \in Request /\ tx[r].at = "run" /\ k \in Keys /\ h \in Hashes /\ n \in Nat
      /\ tx[r].age \in Nat /\ tx[r].seen = None
  BY DEF KeyInv, KeyTypeOK, Genuine, Finish, Request
<1>2. x \in Request /\ x.at = "sent" /\ x.key = k /\ x.hash = h /\ x.gone = None /\ x.run = n
      /\ x.seen = None
  BY <1>1 DEF Request, Stages
<1>3. /\ tx' \in [Requests -> Request] /\ tx'[r] = x /\ \A s \in Requests \ {r} : tx'[s] = tx[s]
  BY <1>2 DEF Finish, KeyInv, KeyTypeOK
<1>4. o \in AllOutcomes /\ a \in Nat /\ (Effective(o) => a = tx[r].age)
  BY <1>1, IdempotencyAssumption
<1> HIDE DEF a
<1>5. /\ new \in Run /\ new.key = k /\ new.hash = h /\ new.out = o /\ new.age = a
      /\ new.dropped = FALSE
  BY <1>1, <1>4 DEF Run
<1>6. runs' = Append(runs, new)  BY DEF Finish, a
<1> HIDE DEF x, new
<1>7. /\ runs' \in Seq(Run) /\ Len(runs') = n /\ DOMAIN runs' = DOMAIN runs \cup {n}
      /\ runs'[n] = new /\ n \notin DOMAIN runs
      /\ \A i \in DOMAIN runs : runs'[i] = runs[i] /\ i \in Nat /\ i < n
  <2>1. runs \in Seq(Run)  BY DEF KeyInv, KeyTypeOK
  <2> QED BY <1>5, <1>6, <2>1
<1>8. ClaimId(n) \in Nat  BY <1>1, IdsNameRuns
<1>9. y \in Row /\ y # None /\ y.id = ClaimId(n) /\ y.hash = h /\ y.answer = None
      /\ y.age = tx[r].age
  <2>1. y \in Row  BY <1>1, <1>8 DEF Row
  <2> QED BY <2>1, IdempotencyAssumption
<1>10. /\ rows' \in [Keys -> Row \cup {None}] /\ \A l \in Keys \ {k} : rows'[l] = rows[l]
       /\ Effective(o) => rows'[k] = y
       /\ ~Effective(o) => rows'[k] = rows[k]
  BY <1>1, <1>9 DEF Finish, KeyInv, KeyTypeOK
<1> HIDE DEF y, k, h, n
<1>11. KeyTypeOK'  BY <1>1, <1>2, <1>3, <1>7, <1>10 DEF KeyInv, KeyTypeOK
<1>12. Genuine'
  <2>1. ASSUME NEW l \in Keys, rows'[l] # None
        PROVE  /\ OfRun(rows[l].id, l, rows[l].hash)'
               /\ rows'[l].answer # None => rows'[l].answer \in DOMAIN runs'
    <3>1. CASE rows'[l] = rows[l]  BY <1>7, <2>1, <3>1 DEF KeyInv, Genuine, OfRun
    <3>2. CASE l = k /\ rows'[l] = y  BY <1>5, <1>7, <1>9, <3>2 DEF OfRun
    <3> QED BY <1>10, <3>1, <3>2
  <2>2. ASSUME NEW s \in Requests, s # r, tx[s].at \in {"sent", "settle"}
        PROVE  /\ tx'[s].run \in DOMAIN runs'
               /\ runs'[tx'[s].run].key = tx'[s].key /\ runs'[tx'[s].run].hash = tx'[s].hash
    BY <1>3, <1>7, <2>2 DEF KeyInv, Genuine
  <2>3. ASSUME NEW s \in Requests, s # r, tx[s].at = "settle", tx[s].seen # None
        PROVE  OfRun(tx[s].seen, tx[s].key, tx[s].hash)'
    BY <1>3, <1>7, <2>3 DEF KeyInv, Genuine, OfRun
  <2>4. ASSUME NEW s \in Requests, s # r, tx[s].at \in {"insert", "run", "sent"}
        PROVE  tx'[s].seen = None
    BY <1>3, <2>4 DEF KeyInv, Genuine
  <2>5. x.run \in DOMAIN runs' /\ runs'[x.run].key = x.key /\ runs'[x.run].hash = x.hash
    BY <1>2, <1>5, <1>7
  <2> QED BY <1>2, <1>3, <2>1, <2>2, <2>3, <2>4, <2>5 DEF Genuine
<1>13. OnlyTheStaleGo'
  <2> SUFFICES ASSUME NEW s \in Requests PROVE DeletesStale(tx[s])'
    BY DEF OnlyTheStaleGo
  <2>1. CASE s = r  BY <1>2, <1>3, <2>1 DEF DeletesStale, Doomed
  <2>2. CASE s # r
    <3>1. PICK z : z = tx'[s] /\ z = tx[s] /\ DeletesStale(z)
      BY <1>3, <2>2 DEF KeyInv, OnlyTheStaleGo
    <3>2. ASSUME NEW id \in Doomed(z) PROVE id <= AnswerId(Len(runs')) /\ id < ClaimId(n)
      <4>1. id <= AnswerId(Len(runs)) /\ id \in Nat
        BY <3>1, <3>2 DEF DeletesStale, Doomed, KeyInv, KeyTypeOK, Request
      <4>2. Len(runs) \in Nat /\ Len(runs) < n /\ n \in Nat /\ Len(runs') = n
        BY <1>1, <1>7 DEF n, KeyInv, KeyTypeOK
      <4>3. /\ AnswerId(Len(runs)) < ClaimId(n) /\ AnswerId(Len(runs)) <= AnswerId(n)
            /\ AnswerId(n) \in Nat /\ AnswerId(Len(runs)) \in Nat /\ ClaimId(n) \in Nat
        BY <4>2, IdsNameRuns
      <4> QED BY <4>1, <4>2, <4>3
    <3>3. ASSUME NEW id \in Doomed(z), NEW i \in Nat, id = ClaimId(i),
                 rows'[z.key] # None, rows'[z.key].id = id
          PROVE  Expired(rows'[z.key])
      <4>1. z.key \in Keys  BY <3>1, <3>3 DEF Doomed, KeyInv, KeyTypeOK
      <4>2. rows'[z.key] = rows[z.key] \/ rows'[z.key] = y
        BY <1>10, <4>1
      <4>3. rows'[z.key] # y
        <5>1. id \in Nat /\ id < ClaimId(n)  BY <3>2, <3>3, IdsNameRuns
        <5> QED BY <1>8, <1>9, <3>3, <5>1
      <4> QED BY <3>1, <3>3, <4>2, <4>3 DEF DeletesStale
    <3> QED BY <3>1, <3>2, <3>3 DEF DeletesStale, Doomed, Expired
  <2> QED BY <2>1, <2>2
<1>14. RunsAlone'
  <2> SUFFICES ASSUME NEW s \in Requests, s # r, tx[s].at = "run" PROVE HasTheKey(s, tx[s])'
    BY <1>2, <1>3 DEF RunsAlone
  <2>1. HasTheKey(s, tx[s]) /\ HasTheKey(r, tx[r]) /\ tx[s].key \in Keys
    BY <1>1 DEF KeyInv, RunsAlone, KeyTypeOK
  <2>2. tx[s].key # k  BY <2>1 DEF HasTheKey, k
  <2> QED BY <1>2, <1>3, <1>10, <2>1, <2>2 DEF HasTheKey
<1>15. ASSUME Effective(o), NEW i \in DOMAIN runs, runs[i].key = k PROVE ~Holds(i)
  <2> SUFFICES ASSUME Holds(i) PROVE FALSE
    OBVIOUS
  <2>1. rows[k] # None /\ rows[k].id = ClaimId(i) /\ rows[k].age = runs[i].age
    BY <1>15 DEF KeyInv, EffectsKeepTheirClaim
  <2>2. rows[k].id = tx[r].gone  BY <1>1, <2>1 DEF KeyInv, RunsAlone, HasTheKey, k
  <2>3. i \in Nat /\ ClaimId(i) \in Nat  BY <1>7, IdsNameRuns
  <2>4. ClaimId(i) \in Doomed(tx[r])  BY <1>1, <2>1, <2>2, <2>3, IdempotencyAssumption DEF Doomed
  <2>5. Expired(rows[k])  BY <2>1, <2>3, <2>4 DEF KeyInv, OnlyTheStaleGo, DeletesStale, k
  <2>6. runs[i].age \in Nat /\ Retention \in Nat  BY RunTyped, IdempotencyAssumption
  <2> QED BY <2>1, <2>5, <2>6 DEF Expired, Holds
<1>16. EffectsKeepTheirClaim'
  <2> SUFFICES ASSUME NEW i \in DOMAIN runs', Holds(i)'
               PROVE  /\ rows'[runs'[i].key] # None
                      /\ rows'[runs'[i].key].id = ClaimId(i)
                      /\ rows'[runs'[i].key].age = runs'[i].age
    BY DEF EffectsKeepTheirClaim
  <2>1. CASE i = n
    <3>1. Effective(o)  BY <1>5, <1>7, <2>1 DEF Holds
    <3> QED BY <1>4, <1>5, <1>7, <1>9, <1>10, <2>1, <3>1
  <2>2. CASE i \in DOMAIN runs
    <3>1. runs'[i] = runs[i] /\ Holds(i)  BY <1>7, <2>2 DEF Holds
    <3>2. rows'[runs[i].key] = rows[runs[i].key]
      BY <1>10, <1>15, <2>2, <3>1, RunTyped
    <3> QED BY <2>2, <3>1, <3>2 DEF KeyInv, EffectsKeepTheirClaim
  <2> QED BY <1>7, <2>1, <2>2
<1>17. Attended'
  <2> SUFFICES ASSUME NEW l \in Keys, Open(l)' PROVE \E s \in Requests : Attends(tx[s], l)'
    BY DEF Attended
  <2>1. CASE rows'[l] = y /\ l = k
    BY <1>2, <1>3, <1>9, <2>1 DEF Attends
  <2>2. CASE rows'[l] = rows[l]
    <3>1. PICK s \in Requests : Attends(tx[s], l)  BY <2>2 DEF KeyInv, Attended, Open
    <3>2. s # r  BY <1>1, <3>1 DEF Attends
    <3> QED BY <1>3, <2>2, <3>1, <3>2 DEF Attends
  <2> QED BY <1>10, <2>1, <2>2
<1>18. OnlyADropRepeats'
  <2> SUFFICES ASSUME NEW l \in Keys, NEW i \in Recent(l)', NEW j \in Recent(l)', i < j
               PROVE  runs'[i].dropped
    BY DEF OnlyADropRepeats
  <2>1. i \in DOMAIN runs' /\ j \in DOMAIN runs' /\ i \in Nat /\ j \in Nat /\ n \in Nat
    BY <1>1, <1>7 DEF Recent
  <2>2. i # n /\ i \in DOMAIN runs  BY <1>7, <2>1
  <2>3. i \in Recent(l) /\ runs'[i] = runs[i]  BY <1>7, <2>2 DEF Recent
  <2>4. CASE j = n
    <3>1. l = k /\ Effective(o)  BY <1>5, <1>7, <2>4 DEF Recent
    <3> QED BY <1>15, <2>2, <2>3, <3>1, RunTyped DEF Recent, Holds
  <2>5. CASE j \in DOMAIN runs
    <3>1. j \in Recent(l)  BY <1>7, <2>5 DEF Recent
    <3> QED BY <2>3, <3>1 DEF KeyInv, OnlyADropRepeats
  <2> QED BY <1>7, <2>1, <2>4, <2>5
<1>19. AnswersAreTheirOwn'
  <2> SUFFICES ASSUME NEW l \in Keys, rows'[l] # None, rows'[l].answer # None
               PROVE  /\ runs'[rows'[l].answer].key = l
                      /\ runs'[rows'[l].answer].hash = rows'[l].hash
                      /\ Storable(runs'[rows'[l].answer].out)
    BY DEF AnswersAreTheirOwn, Storable
  <2>1. rows'[l] = rows[l]  BY <1>9, <1>10
  <2>2. rows[l].answer \in DOMAIN runs  BY <2>1 DEF KeyInv, Genuine
  <2> QED BY <1>7, <2>1, <2>2 DEF KeyInv, AnswersAreTheirOwn
<1> QED BY <1>11, <1>12, <1>13, <1>14, <1>16, <1>17, <1>18, <1>19 DEF KeyInv

\* Rows past the window are purged.
LEMMA PurgeKeeps ==
    ASSUME KeyInv, PurgeExpired
    PROVE  KeyInv'
<1> DEFINE old == {k \in Keys : rows[k] # None /\ rows[k].age > Retention}
<1>1. rows' = [k \in Keys |-> IF k \in old THEN None ELSE rows[k]] /\ UNCHANGED <<tx, runs>>
  BY DEF PurgeExpired
<1>2. \A k \in Keys : rows'[k] = rows[k]
                      \/ (rows'[k] = None /\ rows[k] # None /\ rows[k].age > Retention)
  BY <1>1
<1>3. KeyTypeOK'  BY <1>1 DEF KeyInv, KeyTypeOK
<1> HIDE DEF old
<1>4. Genuine'
  <2>1. ASSUME NEW k \in Keys, rows'[k] # None
        PROVE  /\ OfRun(rows[k].id, k, rows[k].hash)'
               /\ rows'[k].answer # None => rows'[k].answer \in DOMAIN runs'
    BY <1>1, <1>2, <2>1 DEF KeyInv, Genuine, OfRun
  <2> QED BY <1>1, <2>1 DEF KeyInv, Genuine, OfRun
<1>5. OnlyTheStaleGo'
  <2> SUFFICES ASSUME NEW s \in Requests PROVE DeletesStale(tx[s])'
    BY DEF OnlyTheStaleGo
  <2>1. PICK z : z = tx'[s] /\ z = tx[s] /\ DeletesStale(z)
    BY <1>1 DEF KeyInv, OnlyTheStaleGo
  <2>2. Doomed(z) # {} => z.key \in Keys  BY <2>1 DEF Doomed, KeyInv, KeyTypeOK
  <2> QED BY <1>1, <1>2, <2>1, <2>2 DEF DeletesStale, Doomed, Expired
<1>6. RunsAlone'
  <2> SUFFICES ASSUME NEW s \in Requests, tx[s].at = "run" PROVE HasTheKey(s, tx[s])'
    BY <1>1 DEF RunsAlone
  <2>1. HasTheKey(s, tx[s]) /\ tx[s].key \in Keys  BY DEF KeyInv, RunsAlone, KeyTypeOK
  <2> QED BY <1>1, <1>2, <2>1 DEF HasTheKey
<1>7. EffectsKeepTheirClaim'
  <2> SUFFICES ASSUME NEW i \in DOMAIN runs, Holds(i)
               PROVE  rows'[runs[i].key] = rows[runs[i].key]
    BY <1>1 DEF KeyInv, EffectsKeepTheirClaim, Holds
  <2>1. runs[i].key \in Keys /\ runs[i].age \in Nat /\ Retention \in Nat
    BY RunTyped, IdempotencyAssumption
  <2>2. rows[runs[i].key].age = runs[i].age /\ runs[i].age < Retention
    BY DEF KeyInv, EffectsKeepTheirClaim, Holds
  <2> QED BY <1>2, <2>1, <2>2
<1>8. Attended'
  <2> SUFFICES ASSUME NEW k \in Keys, Open(k)' PROVE \E s \in Requests : Attends(tx[s], k)'
    BY DEF Attended
  <2>1. rows'[k] = rows[k] /\ Open(k)  BY <1>2 DEF Open
  <2> QED BY <1>1, <2>1 DEF KeyInv, Attended, Attends
<1>9. OnlyADropRepeats' /\ AnswersAreTheirOwn'
  BY <1>1, <1>2 DEF KeyInv, OnlyADropRepeats, Recent, AnswersAreTheirOwn
<1> QED BY <1>3, <1>4, <1>5, <1>6, <1>7, <1>8, <1>9 DEF KeyInv

\* Everything grows older together, a claim and the effect it stands for.
LEMMA HourKeeps ==
    ASSUME KeyInv, Hour
    PROVE  KeyInv'
<1>1. /\ Retention \in Nat
      /\ \A age \in Nat : Older(age) \in Nat /\ age <= Older(age)
  BY IdempotencyAssumption DEF Older
<1>2. ASSUME NEW k \in Keys
      PROVE  /\ rows'[k] \in Row \cup {None} /\ (rows[k] = None => rows'[k] = None)
             /\ rows[k] # None =>
                  /\ rows'[k] # None /\ rows'[k].id = rows[k].id /\ rows'[k].hash = rows[k].hash
                  /\ rows'[k].answer = rows[k].answer /\ rows'[k].orphan = rows[k].orphan
                  /\ rows[k].age \in Nat /\ rows'[k].age = Older(rows[k].age)
  <2>1. CASE rows[k] = None  BY <2>1 DEF Hour
  <2>2. CASE rows[k] # None
    <3>1. rows[k] \in Row /\ rows'[k] = [rows[k] EXCEPT !.age = Older(@)]
      BY <2>2 DEF Hour, KeyInv, KeyTypeOK
    <3>2. rows[k].age \in Nat /\ Older(rows[k].age) \in Nat  BY <1>1, <3>1 DEF Row
    <3>3. rows'[k] \in Row  BY <3>1, <3>2 DEF Row
    <3>4. rows'[k] # None  BY <3>3, IdempotencyAssumption
    <3> QED BY <2>2, <3>1, <3>2, <3>3, <3>4 DEF Row
  <2> QED BY <2>1, <2>2
<1>3. ASSUME NEW r \in Requests
      PROVE  /\ tx'[r] \in Request /\ tx'[r].at = tx[r].at /\ tx'[r].key = tx[r].key
             /\ tx'[r].hash = tx[r].hash /\ tx'[r].gone = tx[r].gone /\ tx'[r].run = tx[r].run
             /\ tx'[r].seen = tx[r].seen /\ tx'[r].open = tx[r].open
  <2>1. tx[r] \in Request /\ tx[r].age \in Nat /\ Older(tx[r].age) \in Nat
    BY <1>1 DEF KeyInv, KeyTypeOK, Request
  <2>2. tx'[r] = tx[r] \/ tx'[r] = [tx[r] EXCEPT !.age = Older(@)]  BY DEF Hour
  <2> QED BY <2>1, <2>2 DEF Request
<1>4. ASSUME NEW i \in DOMAIN runs
      PROVE  /\ runs'[i] \in Run /\ runs'[i].key = runs[i].key /\ runs'[i].hash = runs[i].hash
             /\ runs'[i].out = runs[i].out /\ runs'[i].dropped = runs[i].dropped
             /\ runs[i].age <= runs'[i].age
             /\ Effective(runs[i].out) => runs'[i].age = Older(runs[i].age)
  <2>1. runs[i] \in Run /\ runs[i].age \in Nat /\ Older(runs[i].age) \in Nat
        /\ runs[i].age <= Older(runs[i].age)
    BY <1>1, RunTyped
  <2>2. CASE Effective(runs[i].out)
    <3>1. runs'[i] = [runs[i] EXCEPT !.age = Older(@)]  BY <2>2 DEF Hour
    <3> QED BY <2>1, <3>1 DEF Run
  <2>3. CASE ~Effective(runs[i].out)
    <3>1. runs'[i] = runs[i]  BY <2>3 DEF Hour
    <3> QED BY <2>1, <2>3, <3>1
  <2> QED BY <2>2, <2>3
<1>5. DOMAIN runs' = DOMAIN runs /\ runs' \in Seq(Run) /\ Len(runs') = Len(runs)
  <2>1. DOMAIN runs = 1..Len(runs) /\ Len(runs) \in Nat  BY DEF KeyInv, KeyTypeOK
  <2>2. DOMAIN runs' = DOMAIN runs /\ runs' = [i \in DOMAIN runs |-> runs'[i]]  BY DEF Hour
  <2>3. runs' \in [1..Len(runs) -> Run]  BY <1>4, <2>1, <2>2
  <2> QED BY <2>1, <2>2, <2>3
<1>6. KeyTypeOK'
  <2>1. rows' \in [Keys -> Row \cup {None}]  BY <1>2 DEF Hour
  <2>2. tx' \in [Requests -> Request]  BY <1>3 DEF Hour
  <2> QED BY <1>3, <1>5, <2>1, <2>2 DEF KeyInv, KeyTypeOK
<1>7. Genuine'
  <2>1. ASSUME NEW k \in Keys, rows'[k] # None
        PROVE  /\ OfRun(rows[k].id, k, rows[k].hash)'
               /\ rows'[k].answer # None => rows'[k].answer \in DOMAIN runs'
    BY <1>2, <1>4, <1>5, <2>1 DEF KeyInv, Genuine, OfRun
  <2>2. ASSUME NEW s \in Requests
        PROVE  /\ tx'[s].at \in {"sent", "settle"} =>
                    /\ tx'[s].run \in DOMAIN runs'
                    /\ runs'[tx'[s].run].key = tx'[s].key /\ runs'[tx'[s].run].hash = tx'[s].hash
               /\ tx'[s].at \in {"insert", "run", "sent"} => tx'[s].seen = None
    BY <1>3, <1>4, <1>5 DEF KeyInv, Genuine
  <2>3. ASSUME NEW s \in Requests, tx[s].at = "settle", tx[s].seen # None
        PROVE  OfRun(tx[s].seen, tx[s].key, tx[s].hash)'
    BY <1>3, <1>4, <1>5, <2>3 DEF KeyInv, Genuine, OfRun
  <2> QED BY <1>3, <2>1, <2>2, <2>3 DEF Genuine
<1>8. OnlyTheStaleGo'
  <2> SUFFICES ASSUME NEW s \in Requests PROVE DeletesStale(tx[s])'
    BY DEF OnlyTheStaleGo
  <2>1. PICK z : z = tx'[s] /\ z.key = tx[s].key
                 /\ z.gone = tx[s].gone /\ z.seen = tx[s].seen /\ z.at = tx[s].at
    BY <1>3
  <2>2. Doomed(z) = Doomed(tx[s])  BY <2>1 DEF Doomed
  <2>3. ASSUME NEW id \in Doomed(z) PROVE id <= AnswerId(Len(runs')) /\ z.key \in Keys
    BY <1>5, <2>1, <2>2, <2>3 DEF KeyInv, OnlyTheStaleGo, DeletesStale, Doomed, KeyTypeOK
  <2>4. ASSUME NEW id \in Doomed(z), NEW i \in Nat, id = ClaimId(i),
               rows'[z.key] # None, rows'[z.key].id = id
        PROVE  Expired(rows'[z.key])
    <3>1. z.key \in Keys  BY <2>3, <2>4
    <3>2. rows[z.key] # None /\ rows[z.key].id = id  BY <1>2, <2>4, <3>1
    <3>3. Expired(rows[z.key])
      BY <2>1, <2>2, <2>4, <3>2 DEF KeyInv, OnlyTheStaleGo, DeletesStale
    <3>4. rows[z.key].age \in Nat /\ rows'[z.key].age = Older(rows[z.key].age)
      BY <1>2, <3>1, <3>2
    <3>5. rows[z.key].age <= rows'[z.key].age /\ rows'[z.key].age \in Nat  BY <1>1, <3>4
    <3> QED BY <1>1, <3>3, <3>4, <3>5 DEF Expired
  <2> QED BY <2>1, <2>3, <2>4 DEF DeletesStale, Doomed, Expired
<1>9. RunsAlone'
  <2> SUFFICES ASSUME NEW s \in Requests, tx[s].at = "run" PROVE HasTheKey(s, tx[s])'
    BY <1>3 DEF RunsAlone
  <2>1. HasTheKey(s, tx[s]) /\ tx[s].key \in Keys  BY DEF KeyInv, RunsAlone, KeyTypeOK
  <2> QED BY <1>2, <1>3, <2>1 DEF HasTheKey
<1>10. EffectsKeepTheirClaim'
  <2> SUFFICES ASSUME NEW i \in DOMAIN runs, Holds(i)'
               PROVE  /\ rows'[runs'[i].key] # None
                      /\ rows'[runs'[i].key].id = ClaimId(i)
                      /\ rows'[runs'[i].key].age = runs'[i].age
    BY <1>5 DEF EffectsKeepTheirClaim
  <2>1. runs[i].age \in Nat /\ runs'[i].age \in Nat /\ runs[i].key \in Keys
    BY <1>4, RunTyped DEF Run
  <2>2. runs[i].age < Retention  BY <1>1, <1>4, <2>1 DEF Holds
  <2>3. Holds(i)  BY <1>4, <2>2 DEF Holds
  <2>4. /\ rows[runs[i].key] # None /\ rows[runs[i].key].id = ClaimId(i)
        /\ rows[runs[i].key].age = runs[i].age
    BY <2>3 DEF KeyInv, EffectsKeepTheirClaim
  <2> QED BY <1>2, <1>4, <2>1, <2>3, <2>4 DEF Holds
<1>11. Attended'
  <2> SUFFICES ASSUME NEW k \in Keys, Open(k)' PROVE \E s \in Requests : Attends(tx[s], k)'
    BY DEF Attended
  <2>1. Open(k) /\ rows'[k].id = rows[k].id /\ rows'[k].hash = rows[k].hash
    BY <1>2 DEF Open
  <2>2. PICK s \in Requests : Attends(tx[s], k)  BY <2>1 DEF KeyInv, Attended
  <2> QED BY <1>3, <2>1, <2>2 DEF Attends
<1>12. OnlyADropRepeats'
  <2> SUFFICES ASSUME NEW l \in Keys, NEW i \in Recent(l)', NEW j \in Recent(l)', i < j
               PROVE  runs'[i].dropped
    BY DEF OnlyADropRepeats
  <2>1. ASSUME NEW m \in Recent(l)' PROVE m \in Recent(l)
    <3>1. m \in DOMAIN runs  BY <1>5 DEF Recent
    <3>2. runs[m].age \in Nat /\ runs'[m].age \in Nat  BY <1>4, <3>1, RunTyped DEF Run
    <3>3. runs[m].age < Retention  BY <1>1, <1>4, <3>1, <3>2 DEF Recent
    <3> QED BY <1>4, <3>1, <3>3 DEF Recent
  <2>2. i \in DOMAIN runs /\ runs[i].dropped
    BY <2>1 DEF KeyInv, OnlyADropRepeats, Recent
  <2> QED BY <1>4, <2>2
<1>13. AnswersAreTheirOwn'
  <2> SUFFICES ASSUME NEW l \in Keys, rows'[l] # None, rows'[l].answer # None
               PROVE  /\ runs'[rows'[l].answer].key = l
                      /\ runs'[rows'[l].answer].hash = rows'[l].hash
                      /\ Storable(runs'[rows'[l].answer].out)
    BY DEF AnswersAreTheirOwn, Storable
  <2>1. rows[l] # None /\ rows[l].answer # None /\ rows[l].answer \in DOMAIN runs
    BY <1>2 DEF KeyInv, Genuine
  <2> QED BY <1>2, <1>4, <2>1 DEF KeyInv, AnswersAreTheirOwn
<1> QED BY <1>6, <1>7, <1>8, <1>9, <1>10, <1>11, <1>12, <1>13 DEF KeyInv

LEMMA KeyInitInv == KeyInit => KeyInv
<1> SUFFICES ASSUME KeyInit PROVE KeyInv
  OBVIOUS
<1>1. /\ \A k \in Keys : rows[k] = None
      /\ \A r \in Requests : tx[r] = Idle
      /\ runs = <<>> /\ runs \in Seq(Run) /\ DOMAIN runs = {}
  BY DEF KeyInit
<1>2. KeyTypeOK  BY <1>1, NoRequest DEF KeyInit, KeyTypeOK
<1>3. Genuine /\ RunsAlone /\ Attended /\ AnswersAreTheirOwn
  BY <1>1, NoRequest DEF Genuine, RunsAlone, Attended, Open, AnswersAreTheirOwn
<1>4. OnlyTheStaleGo  BY <1>1, NoRequest DEF OnlyTheStaleGo, DeletesStale
<1>5. EffectsKeepTheirClaim /\ OnlyADropRepeats
  BY <1>1 DEF EffectsKeepTheirClaim, OnlyADropRepeats, Recent
<1> QED BY <1>2, <1>3, <1>4, <1>5 DEF KeyInv

LEMMA KeyNextInv == KeyInv /\ [KeyNext]_keyVars => KeyInv'
<1> SUFFICES ASSUME KeyInv, [KeyNext]_keyVars PROVE KeyInv'
  OBVIOUS
<1>1. ASSUME NEW r \in Requests, NEW k \in Keys, NEW h \in Hashes, Arrive(r, k, h) PROVE KeyInv'
  BY <1>1, ArriveKeeps
<1>2. ASSUME NEW r \in Requests, Advance(r) PROVE KeyInv'
  <2>1. CASE ClaimRefind(r)
    <3>1. \A k \in Keys : ~Attends(tx[r], k)  BY <2>1 DEF ClaimRefind, Attends
    <3> QED BY <2>1, <3>1, KeyEnds DEF ClaimRefind
  <2> QED BY <1>2, <2>1, ClaimDeleteKeeps, ClaimInsertKeeps, FinishKeeps, SettleReadKeeps,
             SettleStoreKeeps, SettleInsertKeeps, SettleDropKeeps DEF Advance
<1>3. ASSUME NEW r \in Requests, Crash(r) PROVE KeyInv'  BY <1>3, CrashKeeps
<1>4. CASE PurgeExpired \/ Hour  BY <1>4, PurgeKeeps, HourKeeps
<1>5. CASE UNCHANGED keyVars
  <2> USE <1>5 DEF keyVars, KeyInv
  <2>1. KeyTypeOK' /\ Genuine'  BY DEF KeyTypeOK, Genuine, OfRun
  <2>2. OnlyTheStaleGo'  BY DEF OnlyTheStaleGo, DeletesStale, Doomed, Expired
  <2>3. RunsAlone' /\ EffectsKeepTheirClaim'
    BY DEF RunsAlone, HasTheKey, EffectsKeepTheirClaim, Holds
  <2>4. Attended'  BY DEF Attended, Attends, Open
  <2>5. OnlyADropRepeats' /\ AnswersAreTheirOwn'  BY DEF OnlyADropRepeats, Recent, AnswersAreTheirOwn
  <2> QED BY <2>1, <2>2, <2>3, <2>4, <2>5
<1> QED BY <1>1, <1>2, <1>3, <1>4, <1>5 DEF KeyNext

\* The invariant of the keys holds throughout.
THEOREM KeysInvariance == KeySpec => []KeyInv
BY KeyInitInv, KeyNextInv, PTL DEF KeySpec

\* The unique constraint, and the claim in the effect's own transaction, let an effect
\* repeat within the window only where a claim was dropped.
THEOREM EffectsRepeatOnlyAfterADrop == KeySpec => []OnlyADropRepeats
<1>1. KeyInv => OnlyADropRepeats  BY DEF KeyInv
<1> QED BY <1>1, KeysInvariance, PTL

\* A replayed answer is the answer to the request the key was claimed with.
THEOREM ReplaysAreTheirOwn == KeySpec => []AnswersAreTheirOwn
<1>1. KeyInv => AnswersAreTheirOwn  BY DEF KeyInv
<1> QED BY <1>1, KeysInvariance, PTL

\* A key that says "still running" has a request that will settle it, unless its
\* process stopped.
THEOREM OpenClaimsHaveAnOwner == KeySpec => []OpenClaimsAreAttended
<1>1. KeyInv => OpenClaimsAreAttended
  BY DEF KeyInv, Attended, Open, Attends, OpenClaimsAreAttended
<1> QED BY <1>1, KeysInvariance, PTL
-----------------------------------------------------------------------------
(* Sockets. *)


Entry == People \X (Conns \cup {NULL})
Job == [inst : Instances \cup {NULL}, msg : Message \cup {NULL}, queue : Seq(Entry), publish : BOOLEAN]
Conn == [at : {"none", "auth", "checked", "in", "gone"}, inst : Instances \cup {NULL},
         user : People \cup {NULL}, open : BOOLEAN, late : BOOLEAN, evicted : BOOLEAN, newest : BOOLEAN]

TypeOK ==
    /\ active \in [Instances -> [People -> Conns \cup {NULL}]]
    /\ conn \in [Conns -> Conn]
    /\ out \in [People -> BOOLEAN] /\ up \in [Instances -> BOOLEAN]
    /\ inbox \in [Instances -> Seq(Message)]
    /\ job \in [Jobs -> Job]
    /\ sent \in 0..MaxMessages
    /\ heard \in [Conns -> [1..MaxMessages -> Nat]]
    /\ missed \subseteq Instances

Busy(j) == job[j].publish \/ job[j].queue # <<>>

\* An entry is a connection of that instance and that person, and is in.
Registered ==
    /\ \A c \in Conns : conn[c].at # "none" => conn[c].inst \in Instances /\ conn[c].user \in People
    /\ \A i \in Instances, p \in People, c \in Conns :
         active[i][p] = c => conn[c].at = "in" /\ conn[c].inst = i /\ conn[c].user = p

\* What a job that has something to do has in hand.
InHand(j) ==
    /\ job[j].msg \in Message /\ job[j].inst \in Instances /\ job[j].msg.id <= sent
    /\ j \in Instances => job[j].inst = j /\ ~job[j].publish /\ job[j].msg.origin # j
    /\ j \in Tasks => job[j].publish /\ job[j].inst = job[j].msg.origin
    /\ job[j].msg.close =>
         /\ job[j].msg.to \in People
         /\ \A n \in DOMAIN job[j].queue : n = 1 /\ job[j].queue[n] = <<job[j].msg.to, NULL>>
    /\ ~job[j].msg.close =>
         /\ \A n \in DOMAIN job[j].queue :
              /\ job[j].queue[n][2] \in Conns
              /\ conn[job[j].queue[n][2]].at \in {"in", "gone"}
              /\ conn[job[j].queue[n][2]].inst = job[j].inst
         /\ \A m, n \in DOMAIN job[j].queue : job[j].queue[m][2] = job[j].queue[n][2] => m = n

Handled == \A j \in Jobs : Busy(j) => InHand(j)

\* A message is in one place of its way to an instance.
OneCopy ==
    /\ \A i \in Instances : \A n \in DOMAIN inbox[i] :
         inbox[i][n].id <= sent /\ (inbox[i][n].close => inbox[i][n].to \in People)
    /\ \A i \in Instances : \A m, n \in DOMAIN inbox[i] : inbox[i][m].id = inbox[i][n].id => m = n
    /\ \A j \in Tasks, k \in Jobs : j # k /\ Busy(j) /\ Busy(k) => job[j].msg.id # job[k].msg.id
    /\ \A j \in Tasks, i \in Instances : Busy(j) => \A n \in DOMAIN inbox[i] : inbox[i][n].id # job[j].msg.id
    /\ \A i \in Instances : Busy(i) => \A n \in DOMAIN inbox[i] : inbox[i][n].id # job[i].msg.id

\* Whoever may still be sent a message has not heard it.
Unheard ==
    /\ \A c \in Conns, m \in 1..MaxMessages :
         conn[c].at \in {"none", "auth", "checked"} \/ sent < m => heard[c][m] = 0
    /\ \A j \in Jobs, c \in Conns :
         Busy(j) /\ (\E n \in DOMAIN job[j].queue : job[j].queue[n][2] = c) => heard[c][job[j].msg.id] = 0
    /\ \A j \in Tasks, c \in Conns :
         Busy(j) /\ conn[c].inst # job[j].inst => heard[c][job[j].msg.id] = 0
    /\ \A i \in Instances, c \in Conns : \A n \in DOMAIN inbox[i] :
         inbox[i][n].origin # i /\ conn[c].inst = i => heard[c][inbox[i][n].id] = 0

\* A close that has still to be carried out at the instance.
Due(i, p) ==
    \/ \E j \in Jobs : /\ Busy(j) /\ job[j].msg.close /\ job[j].msg.to = p
                       /\ \/ job[j].inst = i /\ job[j].queue # <<>>
                          \/ job[j].inst # i /\ job[j].publish
    \/ \E n \in DOMAIN inbox[i] : inbox[i][n].close /\ inbox[i][n].to = p /\ inbox[i][n].origin # i

\* Where it has been, the person's socket came late.
ClosedOrLate ==
    \A i \in Instances, p \in People, c \in Conns :
        out[p] /\ i \notin missed /\ ~Due(i, p) /\ active[i][p] = c => conn[c].late

Basics == TypeOK /\ Registered /\ Handled /\ OneCopy

Inv == Basics /\ Unheard /\ HeardOnce /\ OnlyAFailedSendEvicts /\ ClosedOrLate
-----------------------------------------------------------------------------
(* Connections and entries. *)

\* What may happen to connections: they come, are registered and go, and stay
\* with their instance and their person.
ConnMoves ==
    \A c \in Conns :
        /\ conn[c].at # "none" => conn'[c].inst = conn[c].inst /\ conn'[c].user = conn[c].user
        /\ conn[c].at \in {"in", "gone"} => conn'[c].at \in {"in", "gone"}
        /\ conn'[c].at \in {"none", "auth", "checked"} => conn[c].at \in {"none", "auth", "checked"}

\* Connections and entries after a step.
Seated == conn' \in [Conns -> Conn] /\ active' \in [Instances -> [People -> Conns \cup {NULL}]]
          /\ Registered' /\ ConnMoves

LEMMA ConnIs ==
    ASSUME TypeOK, NEW c \in Conns
    PROVE  /\ conn[c] \in Conn
           /\ conn[c].at \in {"none", "auth", "checked", "in", "gone"}
           /\ conn[c].inst \in Instances \cup {NULL} /\ conn[c].user \in People \cup {NULL}
           /\ conn[c].open \in BOOLEAN /\ conn[c].late \in BOOLEAN /\ conn[c].evicted \in BOOLEAN
           /\ conn[c].newest \in BOOLEAN
BY DEF TypeOK, Conn

LEMMA ConnStays == ASSUME TypeOK, Registered, UNCHANGED <<conn, active>> PROVE Seated
BY DEF TypeOK, Registered, Seated, ConnMoves

\* A step that changes one connection, and takes entries away at most: its
\* own, if it goes.
LEMMA OneConn ==
    ASSUME TypeOK, Registered, NEW c \in Conns, NEW x \in Conn, conn' = [conn EXCEPT ![c] = x],
           active' \in [Instances -> [People -> Conns \cup {NULL}]],
           \A i \in Instances, p \in People : active'[i][p] \in {active[i][p], NULL},
           x.at # "none" => x.inst \in Instances /\ x.user \in People,
           conn[c].at # "none" => x.inst = conn[c].inst /\ x.user = conn[c].user,
           conn[c].at \in {"in", "gone"} => x.at \in {"in", "gone"},
           x.at \in {"none", "auth", "checked"} => conn[c].at \in {"none", "auth", "checked"},
           conn[c].at = "in" => x.at = "in" \/ active'[conn[c].inst][conn[c].user] # c
    PROVE  Seated
<1>1. conn' \in [Conns -> Conn] /\ conn'[c] = x /\ \A d \in Conns : d # c => conn'[d] = conn[d]
    BY DEF TypeOK
<1>2. ASSUME NEW d \in Conns, conn'[d].at # "none" PROVE conn'[d].inst \in Instances /\ conn'[d].user \in People
    BY <1>1, <1>2 DEF Registered
<1>3. ASSUME NEW i \in Instances, NEW p \in People, NEW d \in Conns, active'[i][p] = d
      PROVE  conn'[d].at = "in" /\ conn'[d].inst = i /\ conn'[d].user = p
  <2>1. active[i][p] = d
      BY <1>3, SocketsAssumption
  <2>2. conn[d].at = "in" /\ conn[d].inst = i /\ conn[d].user = p
      BY <2>1 DEF Registered
  <2> QED
      BY <1>1, <1>3, <2>2
<1>4. ConnMoves
    BY <1>1 DEF ConnMoves
<1> QED
    BY <1>1, <1>2, <1>3, <1>4 DEF Seated, Registered

\* A step that takes entries away and leaves the connections alone.
LEMMA EntriesGo ==
    ASSUME TypeOK, Registered, UNCHANGED conn, active' \in [Instances -> [People -> Conns \cup {NULL}]],
           \A i \in Instances, p \in People : active'[i][p] \in {active[i][p], NULL}
    PROVE  Seated
<1>1. conn' \in [Conns -> Conn] /\ ConnMoves
    BY DEF TypeOK, ConnMoves
<1>2. ASSUME NEW d \in Conns, conn'[d].at # "none" PROVE conn'[d].inst \in Instances /\ conn'[d].user \in People
    BY <1>2 DEF Registered
<1>3. ASSUME NEW i \in Instances, NEW p \in People, NEW d \in Conns, active'[i][p] = d
      PROVE  conn'[d].at = "in" /\ conn'[d].inst = i /\ conn'[d].user = p
  <2>1. active[i][p] = d
      BY <1>3, SocketsAssumption
  <2> QED
      BY <2>1 DEF Registered
<1> QED
    BY <1>1, <1>2, <1>3 DEF Seated, Registered

LEMMA AcceptSeated ==
    ASSUME TypeOK, Registered, NEW c \in Conns, NEW i \in Instances, NEW p \in People, Accept(c, i, p)
    PROVE  Seated
<1> DEFINE x == [NoConn EXCEPT !.at = "auth", !.inst = i, !.user = p, !.open = TRUE]
<1>1. x \in Conn /\ x.at = "auth" /\ x.inst = i /\ x.user = p
    BY DEF NoConn, Conn
<1>2. conn' = [conn EXCEPT ![c] = x] /\ conn[c].at = "none" /\ active' = active
    BY DEF Accept
<1> HIDE DEF x
<1>3. active' \in [Instances -> [People -> Conns \cup {NULL}]]
    BY <1>2 DEF TypeOK
<1> QED
    BY <1>1, <1>2, <1>3, OneConn

LEMMA IdentifySeated == ASSUME TypeOK, Registered, NEW c \in Conns, Identify(c) PROVE Seated
<1>1. conn[c] \in Conn /\ conn[c].at = "auth" /\ active' = active /\ conn[c].inst \in Instances /\ conn[c].user \in People
    BY ConnIs DEF Identify, Registered
<1>2. PICK x \in {[conn[c] EXCEPT !.at = "checked"], [conn[c] EXCEPT !.at = "gone", !.open = FALSE]} :
        conn' = [conn EXCEPT ![c] = x]
  <2>1. \/ conn' = [conn EXCEPT ![c] = [conn[c] EXCEPT !.at = "checked"]]
        \/ conn' = [conn EXCEPT ![c] = [conn[c] EXCEPT !.at = "gone", !.open = FALSE]]
    <3>1. CASE conn' = [conn EXCEPT ![c].at = "checked"]
        BY <3>1
    <3>2. CASE conn' = [conn EXCEPT ![c].at = "gone", ![c].open = FALSE]
        BY <3>2 DEF TypeOK
    <3> QED
        BY <3>1, <3>2 DEF Identify
  <2> QED
      BY <2>1
<1>3. x \in Conn /\ x.at \in {"checked", "gone"} /\ x.inst = conn[c].inst /\ x.user = conn[c].user
    BY <1>1 DEF Conn
<1>4. active' \in [Instances -> [People -> Conns \cup {NULL}]]
    BY <1>1 DEF TypeOK
<1> QED
    BY <1>1, <1>2, <1>3, <1>4, OneConn

LEMMA HangUpSeated == ASSUME TypeOK, Registered, NEW c \in Conns, HangUp(c) PROVE Seated
<1> DEFINE x == [conn[c] EXCEPT !.open = FALSE]
<1>1. conn[c] \in Conn /\ active' = active /\ conn' = [conn EXCEPT ![c] = x]
    BY ConnIs DEF HangUp
<1>2. x \in Conn /\ x.at = conn[c].at /\ x.inst = conn[c].inst /\ x.user = conn[c].user
    BY <1>1 DEF Conn
<1> HIDE DEF x
<1>3. active' \in [Instances -> [People -> Conns \cup {NULL}]]
    BY <1>1 DEF TypeOK
<1>4. conn[c].at # "none" => conn[c].inst \in Instances /\ conn[c].user \in People
    BY DEF Registered
<1>5. x.at = "in" => conn[c].at = "in"
    BY <1>2
<1> QED
    BY <1>1, <1>2, <1>3, <1>4, <1>5, ConnIs, OneConn

LEMMA Forgetting ==
    ASSUME TypeOK, NEW i \in Instances, NEW p \in People
    PROVE  LET a == [active EXCEPT ![i][p] = NULL]
           IN  /\ a \in [Instances -> [People -> Conns \cup {NULL}]]
               /\ a[i][p] = NULL
               /\ \A k \in Instances, q \in People : k # i \/ q # p => a[k][q] = active[k][q]
               /\ \A k \in Instances, q \in People : a[k][q] \in {active[k][q], NULL}
BY DEF TypeOK

LEMMA DisconnectedSeated == ASSUME TypeOK, Registered, NEW c \in Conns, Disconnected(c) PROVE Seated
<1> DEFINE x == [conn[c] EXCEPT !.at = "gone"]
<1>1. conn[c] \in Conn /\ conn[c].at = "in" /\ conn' = [conn EXCEPT ![c] = x]
    BY ConnIs DEF Disconnected
<1>2. x \in Conn /\ x.at = "gone" /\ x.inst = conn[c].inst /\ x.user = conn[c].user
    BY <1>1 DEF Conn
<1> HIDE DEF x
<1>3. conn[c].inst \in Instances /\ conn[c].user \in People
    BY <1>1 DEF Registered
<1>4. /\ active' \in [Instances -> [People -> Conns \cup {NULL}]]
      /\ \A i \in Instances, p \in People : active'[i][p] \in {active[i][p], NULL}
      /\ active'[conn[c].inst][conn[c].user] # c
  <2>1. CASE active[conn[c].inst][conn[c].user] = c
    <3>1. active' = [active EXCEPT ![conn[c].inst][conn[c].user] = NULL]
        BY <2>1 DEF Disconnected, TerminateSession
    <3> QED
        BY <1>3, <3>1, Forgetting, SocketsAssumption
  <2>2. CASE active[conn[c].inst][conn[c].user] # c
    <3>1. active' = active
        BY <2>2 DEF Disconnected, TerminateSession
    <3> QED
        BY <1>3, <2>2, <3>1 DEF TypeOK
  <2> QED
      BY <2>1, <2>2
<1> QED
    BY <1>1, <1>2, <1>3, <1>4, OneConn
\* What registering does.
LEMMA RegisterDoes ==
    ASSUME TypeOK, Registered, NEW c \in Conns, RegisterSession(c)
    PROVE  /\ conn[c].at = "checked" /\ conn[c].inst \in Instances /\ conn[c].user \in People
           /\ active' \in [Instances -> [People -> Conns \cup {NULL}]]
           /\ active'[conn[c].inst][conn[c].user] = c
           /\ \A i \in Instances, p \in People :
                i # conn[c].inst \/ p # conn[c].user => active'[i][p] = active[i][p]
           /\ conn' \in [Conns -> Conn]
           /\ conn'[c].at = "in" /\ conn'[c].inst = conn[c].inst /\ conn'[c].user = conn[c].user
           /\ conn'[c].late = out[conn[c].user]
           /\ \A d \in Conns : d # c =>
                /\ conn'[d].at = conn[d].at /\ conn'[d].inst = conn[d].inst /\ conn'[d].user = conn[d].user
                /\ conn'[d].open = conn[d].open /\ conn'[d].late = conn[d].late
                /\ conn'[d].evicted = conn[d].evicted
                /\ conn'[d].newest = (conn[d].newest /\ ~(conn[d].inst = conn[c].inst /\ conn[d].user = conn[c].user))
<1> DEFINE x == conn[c]
<1>1. x \in Conn /\ x.at = "checked" /\ x.inst \in Instances /\ x.user \in People /\ out[x.user] \in BOOLEAN
    BY ConnIs DEF RegisterSession, Registered, TypeOK
<1>2. active' = [active EXCEPT ![x.inst][x.user] = c]
    BY DEF RegisterSession
<1>3. /\ active' \in [Instances -> [People -> Conns \cup {NULL}]]
      /\ active'[x.inst][x.user] = c
      /\ \A i \in Instances, p \in People : i # x.inst \/ p # x.user => active'[i][p] = active[i][p]
    BY <1>1, <1>2 DEF TypeOK
<1> DEFINE y == [x EXCEPT !.at = "in", !.late = out[x.user], !.newest = TRUE]
<1>4. y \in Conn /\ y.at = "in" /\ y.inst = x.inst /\ y.user = x.user /\ y.late = out[x.user]
    BY <1>1 DEF Conn
<1> DEFINE z(d) == IF conn[d].inst = x.inst /\ conn[d].user = x.user
                   THEN [conn[d] EXCEPT !.newest = FALSE] ELSE conn[d]
<1>5. conn' = [d \in Conns |-> IF d = c THEN y ELSE z(d)]
    BY DEF RegisterSession
<1>6. ASSUME NEW d \in Conns
      PROVE  /\ z(d) \in Conn /\ z(d).at = conn[d].at /\ z(d).inst = conn[d].inst /\ z(d).user = conn[d].user
             /\ z(d).open = conn[d].open /\ z(d).late = conn[d].late /\ z(d).evicted = conn[d].evicted
             /\ z(d).newest = (conn[d].newest /\ ~(conn[d].inst = x.inst /\ conn[d].user = x.user))
  <2>1. conn[d] \in Conn /\ conn[d].newest \in BOOLEAN
      BY ConnIs
  <2> DEFINE n == [conn[d] EXCEPT !.newest = FALSE]
  <2>2. /\ n \in Conn /\ n.at = conn[d].at /\ n.inst = conn[d].inst /\ n.user = conn[d].user
        /\ n.open = conn[d].open /\ n.late = conn[d].late /\ n.evicted = conn[d].evicted /\ n.newest = FALSE
      BY <2>1 DEF Conn
  <2> HIDE DEF n
  <2>3. CASE conn[d].inst = x.inst /\ conn[d].user = x.user
    <3>1. z(d) = n
        BY <2>3 DEF n
    <3> HIDE DEF z
    <3> QED
        BY <2>2, <2>3, <3>1
  <2>4. CASE ~(conn[d].inst = x.inst /\ conn[d].user = x.user)
    <3>1. z(d) = conn[d]
        BY <2>4
    <3> HIDE DEF z
    <3> QED
        BY <2>1, <2>4, <3>1
  <2> QED
      BY <2>3, <2>4
<1> HIDE DEF y, z
<1>7. conn' \in [Conns -> Conn] /\ conn'[c] = y /\ \A d \in Conns : d # c => conn'[d] = z(d)
    BY <1>4, <1>5, <1>6
<1> QED
    BY <1>1, <1>3, <1>4, <1>6, <1>7

LEMMA RegisterSeated == ASSUME TypeOK, Registered, NEW c \in Conns, RegisterSession(c) PROVE Seated
<1>1. conn' \in [Conns -> Conn] /\ active' \in [Instances -> [People -> Conns \cup {NULL}]]
    BY RegisterDoes
<1>2. ASSUME NEW d \in Conns, conn'[d].at # "none" PROVE conn'[d].inst \in Instances /\ conn'[d].user \in People
    BY <1>2, RegisterDoes DEF Registered
<1>3. ASSUME NEW i \in Instances, NEW p \in People, NEW d \in Conns, active'[i][p] = d
      PROVE  conn'[d].at = "in" /\ conn'[d].inst = i /\ conn'[d].user = p
  <2>1. CASE i = conn[c].inst /\ p = conn[c].user
      BY <1>3, <2>1, RegisterDoes
  <2>2. CASE ~(i = conn[c].inst /\ p = conn[c].user)
    <3>1. active[i][p] = d
        BY <1>3, <2>2, RegisterDoes
    <3>2. conn[d].at = "in" /\ conn[d].inst = i /\ conn[d].user = p
        BY <3>1 DEF Registered
    <3> QED
        BY <3>2, RegisterDoes
  <2> QED
      BY <2>1, <2>2
<1>4. ConnMoves
    BY RegisterDoes DEF ConnMoves
<1> QED
    BY <1>1, <1>2, <1>3, <1>4 DEF Seated, Registered

-----------------------------------------------------------------------------
(* Jobs. *)

LEMMA JobIs ==
    ASSUME TypeOK, NEW j \in Jobs
    PROVE  /\ job[j] \in Job /\ job[j].queue \in Seq(Entry) /\ job[j].publish \in BOOLEAN
           /\ job[j].inst \in Instances \cup {NULL} /\ job[j].msg \in Message \cup {NULL}
           /\ DOMAIN job[j].queue = 1..Len(job[j].queue) /\ Len(job[j].queue) \in Nat
<1>1. job[j] \in Job
    BY DEF TypeOK
<1>2. job[j].queue \in Seq(Entry)
    BY <1>1 DEF Job
<1> QED
    BY <1>1, <1>2 DEF Job

\* A job with one less to do.
LEMMA QueueShrinks ==
    ASSUME TypeOK, NEW j \in Jobs, job[j].queue # <<>>, job' = [job EXCEPT ![j].queue = Tail(@)]
    PROVE  /\ job' \in [Jobs -> Job] /\ \A k \in Jobs : k # j => job'[k] = job[k]
           /\ job'[j].inst = job[j].inst /\ job'[j].msg = job[j].msg /\ job'[j].publish = job[j].publish
           /\ Head(job[j].queue) = job[j].queue[1] /\ job[j].queue[1] \in Entry /\ 1 \in DOMAIN job[j].queue
           /\ DOMAIN job'[j].queue = 1..(Len(job[j].queue) - 1)
           /\ \A n \in DOMAIN job'[j].queue :
                n \in Nat /\ n + 1 \in DOMAIN job[j].queue /\ job'[j].queue[n] = job[j].queue[n + 1]
           /\ Len(job[j].queue) = 1 => job'[j].queue = <<>>
<1> DEFINE q == job[j].queue
<1>1. job[j] \in Job /\ q \in Seq(Entry) /\ DOMAIN q = 1..Len(q) /\ Len(q) \in Nat /\ q # <<>>
    BY JobIs
<1>2. /\ Tail(q) \in Seq(Entry) /\ Len(Tail(q)) = Len(q) - 1 /\ Head(q) = q[1] /\ Len(q) \in Nat \ {0}
      /\ \A n \in 1..Len(Tail(q)) : Tail(q)[n] = q[n + 1]
    BY <1>1
<1> DEFINE x == [job[j] EXCEPT !.queue = Tail(q)]
<1>3. x \in Job /\ x.inst = job[j].inst /\ x.msg = job[j].msg /\ x.publish = job[j].publish /\ x.queue = Tail(q)
    BY <1>1, <1>2 DEF Job
<1>4. job' = [job EXCEPT ![j] = x]
    OBVIOUS
<1> HIDE DEF x
<1>5. job' \in [Jobs -> Job] /\ job'[j] = x /\ \A k \in Jobs : k # j => job'[k] = job[k]
    BY <1>3, <1>4 DEF TypeOK
<1>6. q[1] \in Entry /\ 1 \in DOMAIN q
    BY <1>1, <1>2
<1>7. DOMAIN Tail(q) = 1..(Len(q) - 1)
    BY <1>2
<1>8. \A n \in 1..(Len(q) - 1) : n \in Nat /\ n + 1 \in DOMAIN q /\ Tail(q)[n] = q[n + 1]
    BY <1>1, <1>2
<1>9. Len(q) = 1 => Tail(q) = <<>>
    BY <1>2
<1> QED
    BY <1>2, <1>3, <1>5, <1>6, <1>7, <1>8, <1>9

\* What closing does: the person's entry goes, and the socket in it is closed.
LEMMA CloseDoes ==
    ASSUME TypeOK, Handled, NEW j \in Jobs, CloseHere(j)
    PROVE  /\ job[j].queue # <<>> /\ job[j].msg.close /\ Busy(j) /\ InHand(j)
           /\ job[j].inst \in Instances /\ job[j].msg.to \in People
           /\ Len(job[j].queue) = 1
           /\ active' = [active EXCEPT ![job[j].inst][job[j].msg.to] = NULL]
           /\ \/ UNCHANGED conn /\ active[job[j].inst][job[j].msg.to] = NULL
              \/ /\ active[job[j].inst][job[j].msg.to] \in Conns
                 /\ conn' = [conn EXCEPT ![active[job[j].inst][job[j].msg.to]].open = FALSE]
           /\ job' = [job EXCEPT ![j].queue = Tail(@)]
           /\ UNCHANGED <<out, up, inbox, sent, heard, missed>>
<1>1. job[j].queue # <<>> /\ job[j].msg.close /\ job' = [job EXCEPT ![j].queue = Tail(@)]
      /\ UNCHANGED <<out, up, inbox, sent, heard, missed>>
    BY DEF CloseHere
<1>2. Busy(j) /\ InHand(j)
    BY <1>1 DEF Busy, Handled
<1>3. job[j].inst \in Instances /\ job[j].msg.to \in People
      /\ \A n \in DOMAIN job[j].queue : n = 1 /\ job[j].queue[n] = <<job[j].msg.to, NULL>>
    BY <1>1, <1>2 DEF InHand
<1>4. /\ job[j].queue \in Seq(Entry) /\ DOMAIN job[j].queue = 1..Len(job[j].queue)
      /\ Len(job[j].queue) \in Nat \ {0}
    BY <1>1, JobIs
<1>5. Len(job[j].queue) = 1
  <2>1. Len(job[j].queue) \in DOMAIN job[j].queue
      BY <1>4
  <2> QED
      BY <1>3, <2>1
<1>6. job[j].queue[1] = <<job[j].msg.to, NULL>> /\ Head(job[j].queue) = job[j].queue[1]
    BY <1>3, <1>4
<1>8. Head(job[j].queue)[1] = job[j].msg.to
    BY <1>6
<1>9. active[job[j].inst][job[j].msg.to] \in Conns \cup {NULL}
    BY <1>3 DEF TypeOK
<1> QED
    BY <1>1, <1>2, <1>3, <1>5, <1>8, <1>9 DEF CloseHere

LEMMA CloseSeated == ASSUME TypeOK, Registered, Handled, NEW j \in Jobs, CloseHere(j) PROVE Seated
<1> DEFINE i == job[j].inst
<1> DEFINE p == job[j].msg.to
<1>1. i \in Instances /\ p \in People /\ active' = [active EXCEPT ![i][p] = NULL]
    BY CloseDoes
<1> HIDE DEF i, p
<1>2. /\ active' \in [Instances -> [People -> Conns \cup {NULL}]]
      /\ \A k \in Instances, q \in People : active'[k][q] \in {active[k][q], NULL}
    BY <1>1, Forgetting
<1>3. CASE UNCHANGED conn
    BY <1>2, <1>3, EntriesGo
<1>4. CASE active[i][p] \in Conns /\ conn' = [conn EXCEPT ![active[i][p]].open = FALSE]
  <2>1. PICK c \in Conns : c = active[i][p]
      BY <1>4
  <2> DEFINE x == [conn[c] EXCEPT !.open = FALSE]
  <2>2. conn[c] \in Conn /\ conn' = [conn EXCEPT ![c] = x]
      BY <1>4, <2>1, ConnIs
  <2>3. x \in Conn /\ x.at = conn[c].at /\ x.inst = conn[c].inst /\ x.user = conn[c].user
      BY <2>2 DEF Conn
  <2> HIDE DEF x
  <2>4. conn[c].at = "in" /\ conn[c].inst \in Instances /\ conn[c].user \in People
      BY <1>1, <2>1 DEF Registered
  <2> QED
      BY <1>2, <2>2, <2>3, <2>4, OneConn
<1> QED
    BY <1>3, <1>4, CloseDoes DEF i, p

\* What sending does.
LEMMA SendDoes ==
    ASSUME TypeOK, Handled, NEW j \in Jobs, SendText(j)
    PROVE  \E p \in People, c \in Conns :
             /\ job[j].queue # <<>> /\ ~job[j].msg.close /\ Busy(j) /\ InHand(j)
             /\ job[j].inst \in Instances /\ 1 \in DOMAIN job[j].queue /\ job[j].queue[1] = <<p, c>>
             /\ job[j].queue[1][2] = c
             /\ \/ conn[c].open /\ heard' = [heard EXCEPT ![c][job[j].msg.id] = @ + 1] /\ UNCHANGED <<active, conn>>
                \/ /\ ~conn[c].open /\ UNCHANGED heard
                   /\ active' = [active EXCEPT ![job[j].inst][p] = NULL]
                   /\ \/ active[job[j].inst][p] \in {NULL, c} /\ UNCHANGED conn
                      \/ /\ active[job[j].inst][p] \in Conns /\ active[job[j].inst][p] # c
                         /\ conn' = [conn EXCEPT ![active[job[j].inst][p]].evicted = TRUE]
             /\ job' = [job EXCEPT ![j].queue = Tail(@)]
             /\ UNCHANGED <<out, up, inbox, sent, missed>>
<1>1. job[j].queue # <<>> /\ ~job[j].msg.close /\ job' = [job EXCEPT ![j].queue = Tail(@)]
      /\ UNCHANGED <<out, up, inbox, sent, missed>>
    BY DEF SendText
<1>2. Busy(j) /\ InHand(j)
    BY <1>1 DEF Busy, Handled
<1>3. Head(job[j].queue) = job[j].queue[1] /\ job[j].queue[1] \in Entry /\ 1 \in DOMAIN job[j].queue
    BY <1>1, QueueShrinks
<1>4. job[j].inst \in Instances /\ job[j].queue[1][2] \in Conns
    BY <1>1, <1>2, <1>3 DEF InHand
<1>5. PICK p \in People, c \in Conns : job[j].queue[1] = <<p, c>>
    BY <1>3, <1>4 DEF Entry
<1>6. Head(job[j].queue)[1] = p /\ Head(job[j].queue)[2] = c /\ job[j].queue[1][2] = c
    BY <1>3, <1>5
<1>7. active[job[j].inst][p] \in Conns \cup {NULL} /\ conn[c].open \in BOOLEAN
    BY <1>4, ConnIs DEF TypeOK
<1>8. \/ conn[c].open /\ heard' = [heard EXCEPT ![c][job[j].msg.id] = @ + 1] /\ UNCHANGED <<active, conn>>
      \/ /\ ~conn[c].open /\ UNCHANGED heard
         /\ active' = [active EXCEPT ![job[j].inst][p] = NULL]
         /\ conn' = IF active[job[j].inst][p] \notin {NULL, c}
                    THEN [conn EXCEPT ![active[job[j].inst][p]].evicted = TRUE] ELSE conn
    BY <1>6 DEF SendText, Forget
<1> QED
    BY <1>1, <1>2, <1>3, <1>4, <1>5, <1>6, <1>7, <1>8

LEMMA SendSeated == ASSUME TypeOK, Registered, Handled, NEW j \in Jobs, SendText(j) PROVE Seated
<1> DEFINE i == job[j].inst
<1>1. PICK p \in People, c \in Conns :
        /\ i \in Instances
        /\ \/ UNCHANGED <<active, conn>>
           \/ /\ active' = [active EXCEPT ![i][p] = NULL]
              /\ \/ UNCHANGED conn
                 \/ /\ active[i][p] \in Conns
                    /\ conn' = [conn EXCEPT ![active[i][p]].evicted = TRUE]
    BY SendDoes
<1>2. CASE UNCHANGED <<active, conn>>
    BY <1>2, ConnStays
<1>3. CASE active' = [active EXCEPT ![i][p] = NULL]
  <2>1. /\ active' \in [Instances -> [People -> Conns \cup {NULL}]]
        /\ \A k \in Instances, q \in People : active'[k][q] \in {active[k][q], NULL}
      BY <1>1, <1>3, Forgetting
  <2>2. CASE UNCHANGED conn
      BY <2>1, <2>2, EntriesGo
  <2>3. CASE active[i][p] \in Conns /\ conn' = [conn EXCEPT ![active[i][p]].evicted = TRUE]
    <3>1. PICK d \in Conns : d = active[i][p]
        BY <2>3
    <3> DEFINE x == [conn[d] EXCEPT !.evicted = TRUE]
    <3>2. conn[d] \in Conn /\ conn' = [conn EXCEPT ![d] = x]
        BY <2>3, <3>1, ConnIs
    <3>3. x \in Conn /\ x.at = conn[d].at /\ x.inst = conn[d].inst /\ x.user = conn[d].user
        BY <3>2 DEF Conn
    <3> HIDE DEF x
    <3>4. conn[d].at = "in" /\ conn[d].inst \in Instances /\ conn[d].user \in People
        BY <1>1, <3>1 DEF Registered
    <3> QED
        BY <2>1, <3>2, <3>3, <3>4, OneConn
  <2>4. UNCHANGED conn \/ (active[i][p] \in Conns /\ conn' = [conn EXCEPT ![active[i][p]].evicted = TRUE])
      BY <1>1, <1>3
  <2> QED
      BY <2>2, <2>3, <2>4
<1> QED
    BY <1>1, <1>2, <1>3

LEMMA EveryoneSeated == ASSUME TypeOK, Registered, Handled, [Next]_vars PROVE Seated
<1>1. CASE UNCHANGED <<conn, active>>
    BY <1>1, ConnStays
<1> QED
    BY <1>1, AcceptSeated, IdentifySeated, HangUpSeated, RegisterSeated, DisconnectedSeated, CloseSeated,
       SendSeated DEF Next, vars, Forward, DeactivateUser, Publish, Relay, RelayDown, RelayUp

-----------------------------------------------------------------------------
(* Whom a message is for. *)

\* The entries of a finite set in some order, each once.
LEMMA Ordered ==
    ASSUME NEW S, IsFiniteSet(S)
    PROVE  /\ SetToSeq(S) \in [1..Cardinality(S) -> S] /\ Cardinality(S) \in Nat
           /\ \A m, n \in 1..Cardinality(S) : SetToSeq(S)[m] = SetToSeq(S)[n] => m = n
<1>1. Cardinality(S) \in Nat /\ ExistsBijection(1..Cardinality(S), S)
    BY FS_CardinalityType
<1>2. PICK f : f \in Bijection(1..Cardinality(S), S)
    BY <1>1 DEF ExistsBijection
<1>3. f \in [1..Cardinality(S) -> S] /\ IsInjective(f)
    BY <1>2 DEF Bijection, Injection
<1>4. SetToSeq(S) \in [1..Cardinality(S) -> S] /\ IsInjective(SetToSeq(S))
    BY <1>3 DEF SetToSeq
<1> QED
    BY <1>1, <1>4 DEF IsInjective

\* A message goes to entries of the instance, and to no connection twice.
LEMMA RecipientsAre ==
    ASSUME TypeOK, Registered, NEW i \in Instances, NEW to \in People \cup {NULL}
    PROVE  /\ Recipients(i, to) \in Seq(Entry)
           /\ \A n \in DOMAIN Recipients(i, to) :
                /\ Recipients(i, to)[n][2] \in Conns
                /\ conn[Recipients(i, to)[n][2]].at = "in" /\ conn[Recipients(i, to)[n][2]].inst = i
           /\ \A m, n \in DOMAIN Recipients(i, to) : Recipients(i, to)[m][2] = Recipients(i, to)[n][2] => m = n
<1> DEFINE Q == {q \in People : active[i][q] # NULL /\ (to = NULL \/ to = q)}
<1> DEFINE S == {<<p, active[i][p]>> : p \in Q}
<1> DEFINE r == Recipients(i, to)
<1>1. r = SetToSeq(S)
    BY DEF Recipients
<1>2. IsFiniteSet(S)
  <2>1. IsFiniteSet(Q)
    <3>1. IsFiniteSet(People) /\ Q \in SUBSET People
        BY SocketsAssumption
    <3> HIDE DEF Q
    <3> QED
        BY <3>1, FS_Subset
  <2> DEFINE f == [p \in Q |-> <<p, active[i][p]>>]
  <2> HIDE DEF Q
  <2>2. f \in Surjection(Q, S)
      BY DEF Surjection
  <2> HIDE DEF f, S
  <2> QED
      BY <2>1, <2>2, FS_Surjection DEF ExistsSurjection
<1>3. ASSUME NEW e \in S
      PROVE  /\ e \in Entry /\ e[2] \in Conns /\ active[i][e[1]] = e[2] /\ e = <<e[1], e[2]>>
             /\ conn[e[2]].at = "in" /\ conn[e[2]].inst = i /\ conn[e[2]].user = e[1]
  <2>1. PICK p \in Q : e = <<p, active[i][p]>>
      OBVIOUS
  <2>2. p \in People /\ active[i][p] \in Conns
      BY <2>1 DEF TypeOK
  <2> HIDE DEF Q
  <2>3. e[1] = p /\ e[2] = active[i][p]
      BY <2>1
  <2>4. PICK c \in Conns : c = active[i][p]
      BY <2>2
  <2>5. conn[c].at = "in" /\ conn[c].inst = i /\ conn[c].user = p
      BY <2>2, <2>4 DEF Registered
  <2> QED
      BY <2>1, <2>2, <2>3, <2>4, <2>5 DEF Entry
<1> HIDE DEF S
<1>4. /\ r \in [1..Cardinality(S) -> S] /\ Cardinality(S) \in Nat
      /\ \A m, n \in 1..Cardinality(S) : r[m] = r[n] => m = n
    BY <1>1, <1>2, Ordered
<1> HIDE DEF r
<1>5. r \in [1..Cardinality(S) -> Entry] /\ DOMAIN r = 1..Cardinality(S)
    BY <1>3, <1>4
<1>6. r \in Seq(Entry)
    BY <1>4, <1>5
<1>7. ASSUME NEW n \in DOMAIN r PROVE r[n] \in S
    BY <1>4, <1>5
<1>8. ASSUME NEW m \in DOMAIN r, NEW n \in DOMAIN r, r[m][2] = r[n][2] PROVE m = n
  <2>1. r[m][1] = r[n][1]
      BY <1>3, <1>7, <1>8
  <2>2. r[m] = r[n]
      BY <1>3, <1>7, <1>8, <2>1
  <2> QED
      BY <1>4, <1>5, <2>2
<1> QED
    BY <1>3, <1>6, <1>7, <1>8 DEF r

-----------------------------------------------------------------------------
(* What each step does to the jobs, the inboxes and the count. *)

LEMMA InboxIs ==
    ASSUME TypeOK, NEW i \in Instances
    PROVE  /\ inbox[i] \in Seq(Message) /\ DOMAIN inbox[i] = 1..Len(inbox[i]) /\ Len(inbox[i]) \in Nat
           /\ \A n \in DOMAIN inbox[i] : inbox[i][n] \in Message /\ inbox[i][n].id \in 1..MaxMessages
<1>1. inbox[i] \in Seq(Message)
    BY DEF TypeOK
<1>2. ASSUME NEW n \in DOMAIN inbox[i] PROVE inbox[i][n] \in Message
    BY <1>1
<1> QED
    BY <1>1, <1>2 DEF Message

LEMMA NoJobIs == NoJob \in Job /\ NoJob.queue = <<>> /\ NoJob.publish = FALSE
<1>1. <<>> \in Seq(Entry)
    OBVIOUS
<1> QED
    BY <1>1 DEF NoJob, Job

\* Of the jobs that have something to do only an instance's own has nothing to publish.
LEMMA WhoPublishes ==
    ASSUME Handled, NEW j \in Jobs, Busy(j)
    PROVE  /\ InHand(j) /\ job[j].msg \in Message /\ job[j].msg.id \in 1..MaxMessages
           /\ job[j].publish => j \in Tasks
           /\ job[j].queue = <<>> => j \in Tasks
BY DEF Handled, InHand, Busy, Jobs, Message

\* A job that is left as it is, whatever happens to the connections.
LEMMA StaysInHand ==
    ASSUME TypeOK, ConnMoves, NEW k \in Jobs, InHand(k), job'[k] = job[k], sent' \in Nat, sent <= sent'
    PROVE  InHand(k)'
<1>1. job[k].msg \in Message /\ job[k].msg.id \in Nat /\ job[k].msg.id <= sent /\ sent \in Nat
    BY DEF InHand, Message, TypeOK
<1>2. job'[k].msg.id <= sent'
    BY <1>1
<1>3. ASSUME ~job[k].msg.close, NEW n \in DOMAIN job[k].queue
      PROVE  /\ job[k].queue[n][2] \in Conns
             /\ conn'[job[k].queue[n][2]].at \in {"in", "gone"}
             /\ conn'[job[k].queue[n][2]].inst = job[k].inst
    BY <1>3 DEF InHand, ConnMoves
<1> QED
    BY <1>2, <1>3 DEF InHand

\* A job that starts.
Starts(j) ==
    /\ j \in Tasks /\ ~Busy(j) /\ sent < MaxMessages /\ sent' = sent + 1 /\ inbox' = inbox
    /\ job' \in [Jobs -> Job] /\ \A k \in Jobs : k # j => job'[k] = job[k]
    /\ Busy(j)' /\ InHand(j)' /\ job'[j].msg.id = sent + 1 /\ job'[j].publish
    /\ UNCHANGED <<active, conn, heard, up, missed>>

LEMMA ForwardStarts ==
    ASSUME TypeOK, Registered, NEW j \in Tasks, NEW i \in Instances, NEW to \in People \cup {NULL}, Forward(j, i, to)
    PROVE  Starts(j) /\ ~job'[j].msg.close /\ out' = out
<1> DEFINE m == [id |-> sent + 1, origin |-> i, to |-> to, close |-> FALSE]
<1> DEFINE r == Recipients(i, to)
<1> DEFINE x == [inst |-> i, queue |-> r, publish |-> TRUE, msg |-> m]
<1>1. job[j] = NoJob /\ sent < MaxMessages /\ sent' = sent + 1 /\ job' = [job EXCEPT ![j] = x] /\ j \in Jobs
      /\ UNCHANGED <<active, conn, out, up, inbox, heard, missed>>
    BY DEF Forward, Jobs
<1>2. sent \in Nat /\ MaxMessages \in Nat /\ sent + 1 \in 1..MaxMessages
    BY <1>1, SocketsAssumption DEF TypeOK
<1>3. m \in Message /\ m.id = sent + 1 /\ m.origin = i /\ m.close = FALSE
    BY <1>2 DEF Message
<1>4. /\ r \in Seq(Entry)
      /\ \A n \in DOMAIN r : r[n][2] \in Conns /\ conn[r[n][2]].at = "in" /\ conn[r[n][2]].inst = i
      /\ \A a, b \in DOMAIN r : r[a][2] = r[b][2] => a = b
    BY RecipientsAre
<1> HIDE DEF r, m
<1>5. x \in Job /\ x.inst = i /\ x.queue = r /\ x.publish = TRUE /\ x.msg = m
    BY <1>3, <1>4 DEF Job
<1> HIDE DEF x
<1>6. job' \in [Jobs -> Job] /\ job'[j] = x /\ \A k \in Jobs : k # j => job'[k] = job[k]
    BY <1>1, <1>5 DEF TypeOK
<1>7. ~Busy(j)
    BY <1>1, NoJobIs DEF Busy
<1>8. j \notin Instances
    BY SocketsAssumption
<1>9. InHand(j)'
  <2>1. sent + 1 <= sent'
      BY <1>1, <1>2
  <2> QED
      BY <1>1, <1>3, <1>4, <1>5, <1>6, <1>8, <2>1 DEF InHand
<1> QED
    BY <1>1, <1>3, <1>5, <1>6, <1>7, <1>9 DEF Starts, Busy

LEMMA DeactivateStarts ==
    ASSUME TypeOK, Registered, NEW j \in Tasks, NEW i \in Instances, NEW p \in People, DeactivateUser(j, i, p)
    PROVE  /\ Starts(j) /\ job'[j].msg.close /\ job'[j].msg.to = p /\ job'[j].inst = i /\ job'[j].queue # <<>>
           /\ out' = [out EXCEPT ![p] = TRUE]
<1> DEFINE m == [id |-> sent + 1, origin |-> i, to |-> p, close |-> TRUE]
<1> DEFINE r == <<<<p, NULL>>>>
<1> DEFINE x == [inst |-> i, queue |-> r, publish |-> TRUE, msg |-> m]
<1>1. job[j] = NoJob /\ sent < MaxMessages /\ sent' = sent + 1 /\ job' = [job EXCEPT ![j] = x] /\ j \in Jobs
      /\ out' = [out EXCEPT ![p] = TRUE] /\ UNCHANGED <<active, conn, up, inbox, heard, missed>>
    BY DEF DeactivateUser, Jobs
<1>2. sent \in Nat /\ MaxMessages \in Nat /\ sent + 1 \in 1..MaxMessages
    BY <1>1, SocketsAssumption DEF TypeOK
<1>3. m \in Message /\ m.id = sent + 1 /\ m.origin = i /\ m.to = p /\ m.close = TRUE
    BY <1>2 DEF Message
<1>4. r \in Seq(Entry) /\ r # <<>> /\ DOMAIN r = {1} /\ r[1] = <<p, NULL>>
  <2>1. <<p, NULL>> \in Entry
      BY DEF Entry
  <2>2. DOMAIN r = 1..1 /\ Len(r) = 1
      OBVIOUS
  <2> QED
      BY <2>1, <2>2
<1> HIDE DEF r, m
<1>5. x \in Job /\ x.inst = i /\ x.queue = r /\ x.publish = TRUE /\ x.msg = m
    BY <1>3, <1>4 DEF Job
<1> HIDE DEF x
<1>6. job' \in [Jobs -> Job] /\ job'[j] = x /\ \A k \in Jobs : k # j => job'[k] = job[k]
    BY <1>1, <1>5 DEF TypeOK
<1>7. ~Busy(j)
    BY <1>1, NoJobIs DEF Busy
<1>8. j \notin Instances
    BY SocketsAssumption
<1>9. InHand(j)'
  <2>1. sent + 1 <= sent'
      BY <1>1, <1>2
  <2> QED
      BY <1>1, <1>3, <1>4, <1>5, <1>6, <1>8, <2>1 DEF InHand
<1> QED
    BY <1>1, <1>3, <1>4, <1>5, <1>6, <1>7, <1>9 DEF Starts, Busy

\* A job that is done with the first of its queue.
Advances(j) ==
    /\ Busy(j) /\ job' \in [Jobs -> Job] /\ \A k \in Jobs : k # j => job'[k] = job[k]
    /\ job'[j].inst = job[j].inst /\ job'[j].msg = job[j].msg /\ job'[j].publish = job[j].publish
    /\ InHand(j)' /\ \A n \in DOMAIN job'[j].queue : \E l \in DOMAIN job[j].queue : l # 1 /\ job'[j].queue[n] = job[j].queue[l]
    /\ UNCHANGED <<out, up, inbox, sent, missed>>

LEMMA QueueAdvances ==
    ASSUME TypeOK, ConnMoves, Handled, NEW j \in Jobs, job[j].queue # <<>>, job' = [job EXCEPT ![j].queue = Tail(@)],
           UNCHANGED <<out, up, inbox, sent, missed>>
    PROVE  Advances(j)
<1>1. Busy(j) /\ InHand(j)
    BY DEF Busy, Handled
<1>2. /\ job' \in [Jobs -> Job] /\ \A k \in Jobs : k # j => job'[k] = job[k]
      /\ job'[j].inst = job[j].inst /\ job'[j].msg = job[j].msg /\ job'[j].publish = job[j].publish
      /\ 1 \in DOMAIN job[j].queue
      /\ \A n \in DOMAIN job'[j].queue :
           n \in Nat /\ n + 1 \in DOMAIN job[j].queue /\ job'[j].queue[n] = job[j].queue[n + 1]
    BY QueueShrinks
<1>3. \A n \in DOMAIN job'[j].queue : n >= 1
  <2>1. DOMAIN job'[j].queue = 1..(Len(job[j].queue) - 1)
      BY QueueShrinks
  <2> QED
      BY <2>1, JobIs
<1>4. ASSUME NEW n \in DOMAIN job'[j].queue PROVE n + 1 # 1
    BY <1>2, <1>3
<1>5. ASSUME job[j].msg.close, NEW n \in DOMAIN job'[j].queue PROVE FALSE
  <2>1. n + 1 = 1
      BY <1>1, <1>2, <1>5 DEF InHand
  <2> QED
      BY <1>4, <2>1
<1>6. ASSUME ~job[j].msg.close, NEW n \in DOMAIN job'[j].queue
      PROVE  /\ job'[j].queue[n][2] \in Conns
             /\ conn'[job'[j].queue[n][2]].at \in {"in", "gone"}
             /\ conn'[job'[j].queue[n][2]].inst = job'[j].inst
  <2>1. n + 1 \in DOMAIN job[j].queue /\ job'[j].queue[n] = job[j].queue[n + 1]
      BY <1>2
  <2>2. PICK c \in Conns : c = job'[j].queue[n][2] /\ conn[c].at \in {"in", "gone"} /\ conn[c].inst = job[j].inst
      BY <1>1, <1>6, <2>1 DEF InHand
  <2> QED
      BY <1>2, <2>2 DEF ConnMoves
<1>7. ASSUME ~job[j].msg.close, NEW m \in DOMAIN job'[j].queue, NEW n \in DOMAIN job'[j].queue,
             job'[j].queue[m][2] = job'[j].queue[n][2]
      PROVE  m = n
  <2>1. m + 1 = n + 1
      BY <1>1, <1>2, <1>7 DEF InHand
  <2> QED
      BY <1>2, <2>1
<1>8. InHand(j)'
    BY <1>1, <1>2, <1>5, <1>6, <1>7 DEF InHand
<1> QED
    BY <1>1, <1>2, <1>4, <1>8 DEF Advances

\* A step of a connection alone.
Quiet == UNCHANGED <<job, inbox, sent, heard, missed>>

\* A message that goes to the instances that hear it.
Publishes(j, is) ==
    /\ j \in Tasks /\ Busy(j) /\ job[j].queue = <<>> /\ job[j].publish /\ is \subseteq Instances
    /\ job' \in [Jobs -> Job] /\ ~Busy(j)' /\ \A k \in Jobs : k # j => job'[k] = job[k]
    /\ inbox' \in [Instances -> Seq(Message)]
    /\ \A i \in Instances \ is : inbox'[i] = inbox[i]
    /\ \A i \in is :
         /\ Len(inbox[i]) + 1 \in DOMAIN inbox'[i] /\ inbox'[i][Len(inbox[i]) + 1] = job[j].msg
         /\ \A n \in DOMAIN inbox[i] : n \in DOMAIN inbox'[i] /\ inbox'[i][n] = inbox[i][n]
         /\ \A n \in DOMAIN inbox'[i] : n \in DOMAIN inbox[i] \/ n = Len(inbox[i]) + 1
    /\ missed' \subseteq Instances /\ missed \subseteq missed'
    /\ job[j].msg.close => Instances \ (is \cup {job[j].msg.origin}) \subseteq missed'
    /\ UNCHANGED <<active, conn, out, up, sent, heard>>

LEMMA PublishDoes ==
    ASSUME TypeOK, Handled, NEW j \in Jobs, Publish(j)
    PROVE  \E is \in SUBSET Instances : Publishes(j, is)
<1>1. job[j].publish /\ job[j].queue = <<>> /\ job' = [job EXCEPT ![j] = NoJob]
      /\ UNCHANGED <<active, conn, out, up, sent, heard>>
    BY DEF Publish
<1>2. Busy(j) /\ InHand(j) /\ j \in Tasks /\ job[j].msg \in Message
    BY <1>1, WhoPublishes DEF Busy
<1> DEFINE m == job[j].msg
<1>3. PICK is \in SUBSET Instances :
        /\ inbox' = [i \in Instances |-> IF i \in is THEN Append(inbox[i], m) ELSE inbox[i]]
        /\ missed' = IF m.close THEN missed \cup (Instances \ (is \cup {m.origin})) ELSE missed
  <2>1. \A is \in IF up[job[j].inst] THEN {{i \in Instances : up[i]}, {}} ELSE {{}} : is \in SUBSET Instances
      OBVIOUS
  <2> QED
      BY <2>1 DEF Publish
<1>4. job' \in [Jobs -> Job] /\ job'[j] = NoJob /\ \A k \in Jobs : k # j => job'[k] = job[k]
    BY <1>1, NoJobIs DEF TypeOK
<1>5. ~Busy(j)'
    BY <1>4, NoJobIs DEF Busy
<1> HIDE DEF m
<1>6. ASSUME NEW i \in is
      PROVE  /\ inbox'[i] \in Seq(Message)
             /\ Len(inbox[i]) + 1 \in DOMAIN inbox'[i] /\ inbox'[i][Len(inbox[i]) + 1] = m
             /\ \A n \in DOMAIN inbox[i] : n \in DOMAIN inbox'[i] /\ inbox'[i][n] = inbox[i][n]
             /\ \A n \in DOMAIN inbox'[i] : n \in DOMAIN inbox[i] \/ n = Len(inbox[i]) + 1
  <2> DEFINE s == inbox[i]
  <2>1. inbox'[i] = Append(s, m)
      BY <1>3
  <2>2. s \in Seq(Message) /\ DOMAIN s = 1..Len(s) /\ Len(s) \in Nat /\ m \in Message
      BY <1>2, InboxIs DEF m
  <2> HIDE DEF s
  <2>3. /\ Append(s, m) \in Seq(Message) /\ DOMAIN Append(s, m) = 1..(Len(s) + 1)
        /\ Append(s, m)[Len(s) + 1] = m /\ \A n \in 1..Len(s) : Append(s, m)[n] = s[n]
      BY <2>2
  <2>4. \A n \in 1..(Len(s) + 1) : n \in 1..Len(s) \/ n = Len(s) + 1
      BY <2>2
  <2>5. Len(s) + 1 \in 1..(Len(s) + 1) /\ \A n \in 1..Len(s) : n \in 1..(Len(s) + 1)
      BY <2>2
  <2> QED
      BY <2>1, <2>2, <2>3, <2>4, <2>5 DEF s
<1>7. ASSUME NEW i \in Instances \ is PROVE inbox'[i] = inbox[i] /\ inbox'[i] \in Seq(Message)
    BY <1>3, <1>7, InboxIs
<1>8. inbox' \in [Instances -> Seq(Message)]
  <2>1. \A i \in Instances : inbox'[i] \in Seq(Message)
      BY <1>6, <1>7
  <2>2. inbox' = [i \in Instances |-> inbox'[i]]
      BY <1>3
  <2> QED
      BY <2>1, <2>2
<1>9. missed' \subseteq Instances /\ missed \subseteq missed'
      /\ (m.close => Instances \ (is \cup {m.origin}) \subseteq missed')
    BY <1>3 DEF TypeOK
<1>10. Publishes(j, is)
    BY <1>1, <1>2, <1>4, <1>5, <1>6, <1>7, <1>8, <1>9 DEF Publishes, m
<1> QED
    BY <1>10

\* An instance that takes the first message of its inbox.
Hears(i) ==
    /\ inbox[i] # <<>> /\ 1 \in DOMAIN inbox[i] /\ ~Busy(i) /\ i \in Jobs
    /\ inbox' \in [Instances -> Seq(Message)] /\ \A k \in Instances \ {i} : inbox'[k] = inbox[k]
    /\ \A n \in DOMAIN inbox'[i] :
         n \in Nat /\ n + 1 \in DOMAIN inbox[i] /\ n + 1 # 1 /\ inbox'[i][n] = inbox[i][n + 1]
    /\ \A n \in DOMAIN inbox[i] : n # 1 => \E l \in DOMAIN inbox'[i] : inbox'[i][l] = inbox[i][n]
    /\ job' \in [Jobs -> Job] /\ \A k \in Jobs \ {i} : job'[k] = job[k]
    /\ UNCHANGED <<active, conn, out, up, sent, heard, missed>>

\* What it does with one that another instance has published.
TakesUp(i, m) ==
    /\ m.origin # i /\ job'[i].inst = i /\ job'[i].msg = m /\ ~job'[i].publish
    /\ m.close => job'[i].queue = <<<<m.to, NULL>>>>
    /\ ~m.close => job'[i].queue = Recipients(i, m.to)

LEMMA RelayDoes ==
    ASSUME TypeOK, Registered, Handled, OneCopy, NEW i \in Instances, Relay(i)
    PROVE  Hears(i) /\ (TakesUp(i, inbox[i][1]) \/ (inbox[i][1].origin = i /\ job' = job))
<1> DEFINE s == inbox[i]
<1> DEFINE m == s[1]
<1>1. s # <<>> /\ job[i].queue = <<>> /\ inbox' = [inbox EXCEPT ![i] = Tail(s)] /\ i \in Jobs
      /\ UNCHANGED <<active, conn, out, up, sent, heard, missed>>
    BY DEF Relay, Jobs
<1>2. s \in Seq(Message) /\ DOMAIN s = 1..Len(s) /\ Len(s) \in Nat \ {0} /\ Head(s) = m
    BY <1>1, InboxIs
<1>3. m \in Message /\ 1 \in DOMAIN s /\ m.to \in People \cup {NULL} /\ (m.close => m.to \in People)
  <2>1. 1 \in DOMAIN s /\ m \in Message
      BY <1>2
  <2> QED
      BY <2>1 DEF Message, OneCopy
<1>4. ~Busy(i)
  <2>1. i \notin Tasks
      BY SocketsAssumption
  <2> QED
      BY <1>1, <2>1, WhoPublishes
<1>5. Tail(s) \in Seq(Message) /\ DOMAIN Tail(s) = 1..(Len(s) - 1) /\ \A n \in 1..(Len(s) - 1) : Tail(s)[n] = s[n + 1]
  <2> HIDE DEF s
  <2>1. Tail(s) \in Seq(Message) /\ Len(Tail(s)) = Len(s) - 1
      BY <1>1, <1>2
  <2> QED
      BY <1>1, <1>2, <2>1
<1>6. inbox' \in [Instances -> Seq(Message)] /\ inbox'[i] = Tail(s) /\ \A k \in Instances \ {i} : inbox'[k] = inbox[k]
    BY <1>1, <1>5 DEF TypeOK
<1>7. ASSUME NEW n \in DOMAIN inbox'[i]
      PROVE  n \in Nat /\ n + 1 \in DOMAIN s /\ n + 1 # 1 /\ inbox'[i][n] = s[n + 1]
  <2>1. n \in 1..(Len(s) - 1)
      BY <1>5, <1>6
  <2>2. n \in Nat /\ n + 1 \in 1..Len(s) /\ n + 1 # 1
      BY <1>2, <2>1
  <2> QED
      BY <1>2, <1>5, <1>6, <2>1, <2>2
<1>8. ASSUME NEW n \in DOMAIN s, n # 1 PROVE \E l \in DOMAIN inbox'[i] : inbox'[i][l] = s[n]
  <2>1. n - 1 \in 1..(Len(s) - 1) /\ (n - 1) + 1 = n
      BY <1>2, <1>8
  <2> QED
      BY <1>5, <1>6, <2>1
<1>9. CASE m.origin = i
  <2>1. job' = job
      BY <1>2, <1>9 DEF Relay, FromElsewhere
  <2> QED
      BY <1>1, <1>3, <1>4, <1>6, <1>7, <1>8, <1>9, <2>1 DEF Hears, TypeOK
<1>10. CASE m.origin # i
  <2> DEFINE q == IF m.close THEN <<<<m.to, NULL>>>> ELSE Recipients(i, m.to)
  <2> DEFINE x == [inst |-> i, queue |-> q, msg |-> m, publish |-> FALSE]
  <2>1. job' = [job EXCEPT ![i] = x]
      BY <1>2, <1>10 DEF Relay, FromElsewhere, Relayed
  <2>2. q \in Seq(Entry) /\ (m.close => q = <<<<m.to, NULL>>>>) /\ (~m.close => q = Recipients(i, m.to))
    <3>1. CASE m.close
      <4>1. <<m.to, NULL>> \in Entry
          BY <1>3, <3>1 DEF Entry
      <4> QED
          BY <3>1, <4>1
    <3>2. CASE ~m.close
        BY <1>3, <3>2, RecipientsAre
    <3> QED
        BY <3>1, <3>2
  <2> HIDE DEF q, m
  <2>3. x \in Job /\ x.inst = i /\ x.queue = q /\ x.msg = m /\ x.publish = FALSE
      BY <1>3, <2>2 DEF Job
  <2> HIDE DEF x
  <2>4. job' \in [Jobs -> Job] /\ job'[i] = x /\ \A k \in Jobs \ {i} : job'[k] = job[k]
      BY <1>1, <2>1, <2>3 DEF TypeOK
  <2>5. TakesUp(i, m)
      BY <1>10, <2>2, <2>3, <2>4 DEF TakesUp
  <2>6. Hears(i)
      BY <1>1, <1>3, <1>4, <1>6, <1>7, <1>8, <2>4 DEF Hears
  <2> QED
      BY <2>5, <2>6 DEF m
<1> QED
    BY <1>9, <1>10

\* An instance that has taken up a message has it in hand.
LEMMA TakenInHand ==
    ASSUME TypeOK, Registered, OneCopy, NEW i \in Instances, Hears(i), NEW m \in Message, m = inbox[i][1], TakesUp(i, m)
    PROVE  InHand(i)'
<1>1. i \notin Tasks /\ i \in Jobs /\ m.to \in People \cup {NULL}
    BY SocketsAssumption DEF Hears, Message
<1>2. m.id <= sent /\ (m.close => m.to \in People)
    BY DEF OneCopy, Hears
<1>3. ASSUME m.close, NEW n \in DOMAIN job'[i].queue PROVE n = 1 /\ job'[i].queue[n] = <<m.to, NULL>>
    BY <1>3 DEF TakesUp
<1>4. ASSUME ~m.close
      PROVE  /\ \A n \in DOMAIN job'[i].queue :
                  /\ job'[i].queue[n][2] \in Conns
                  /\ conn'[job'[i].queue[n][2]].at \in {"in", "gone"}
                  /\ conn'[job'[i].queue[n][2]].inst = i
             /\ \A a, b \in DOMAIN job'[i].queue : job'[i].queue[a][2] = job'[i].queue[b][2] => a = b
  <2>1. job'[i].queue = Recipients(i, m.to) /\ conn' = conn
      BY <1>4 DEF TakesUp, Hears
  <2> QED
      BY <1>1, <2>1, RecipientsAre
<1>5. job'[i].inst = i /\ job'[i].msg = m /\ ~job'[i].publish /\ m.origin # i /\ sent' = sent
    BY DEF TakesUp, Hears
<1> QED
    BY <1>1, <1>2, <1>3, <1>4, <1>5 DEF InHand

\* An instance that is cut off, and loses what it has not heard.
CutOff(i) ==
    /\ inbox' \in [Instances -> Seq(Message)] /\ inbox'[i] = <<>> /\ \A k \in Instances \ {i} : inbox'[k] = inbox[k]
    /\ missed' \subseteq Instances /\ missed \subseteq missed'
    /\ (\E n \in DOMAIN inbox[i] : inbox[i][n].close /\ inbox[i][n].origin # i) => i \in missed'
    /\ UNCHANGED <<active, conn, out, job, sent, heard>>

LEMMA RelayDownDoes == ASSUME TypeOK, NEW i \in Instances, RelayDown(i) PROVE CutOff(i)
<1>1. inbox' = [inbox EXCEPT ![i] = <<>>] /\ UNCHANGED <<active, conn, out, job, sent, heard>>
    BY DEF RelayDown
<1>2. inbox' \in [Instances -> Seq(Message)] /\ inbox'[i] = <<>> /\ \A k \in Instances \ {i} : inbox'[k] = inbox[k]
  <2>1. <<>> \in Seq(Message)
      OBVIOUS
  <2> QED
      BY <1>1, <2>1 DEF TypeOK
<1>3. missed' = IF \E m \in Range(inbox[i]) : m.close /\ m.origin # i THEN missed \cup {i} ELSE missed
    BY DEF RelayDown
<1>4. ASSUME NEW n \in DOMAIN inbox[i], inbox[i][n].close, inbox[i][n].origin # i PROVE i \in missed'
  <2>1. inbox[i][n] \in Range(inbox[i])
      BY DEF Range
  <2> QED
      BY <1>3, <1>4, <2>1
<1> QED
    BY <1>1, <1>2, <1>3, <1>4 DEF CutOff, TypeOK

\* Every step is one of these.
Moves ==
    \/ Quiet
    \/ \E j \in Tasks : Starts(j)
    \/ \E j \in Jobs : Advances(j)
    \/ \E j \in Jobs, is \in SUBSET Instances : Publishes(j, is)
    \/ \E i \in Instances : Hears(i) /\ (TakesUp(i, inbox[i][1]) \/ (inbox[i][1].origin = i /\ job' = job))
    \/ \E i \in Instances : CutOff(i)

LEMMA EveryStepMoves == ASSUME Basics, [Next]_vars PROVE Seated /\ Moves
<1> USE DEF Basics
<1>1. Seated /\ ConnMoves
    BY EveryoneSeated DEF Seated
<1>2. CASE \/ \E c \in Conns, i \in Instances, p \in People : Accept(c, i, p)
           \/ \E c \in Conns : Identify(c) \/ RegisterSession(c) \/ HangUp(c) \/ Disconnected(c)
           \/ \E i \in Instances : RelayUp(i)
           \/ UNCHANGED vars
  <2>1. Quiet
      BY <1>2 DEF Accept, Identify, RegisterSession, HangUp, Disconnected, RelayUp, vars, Quiet
  <2> QED
      BY <1>1, <2>1 DEF Moves
<1>3. CASE \E j \in Tasks, i \in Instances, to \in People \cup {NULL} : Forward(j, i, to)
    BY <1>1, <1>3, ForwardStarts DEF Moves
<1>4. CASE \E j \in Tasks, i \in Instances, p \in People : DeactivateUser(j, i, p)
    BY <1>1, <1>4, DeactivateStarts DEF Moves
<1>5. CASE \E j \in Jobs : CloseHere(j) \/ SendText(j)
  <2>1. PICK j \in Jobs : CloseHere(j) \/ SendText(j)
      BY <1>5
  <2>2. job[j].queue # <<>> /\ job' = [job EXCEPT ![j].queue = Tail(@)] /\ UNCHANGED <<out, up, inbox, sent, missed>>
      BY <2>1 DEF CloseHere, SendText
  <2> QED
      BY <1>1, <2>2, QueueAdvances DEF Moves
<1>6. CASE \E j \in Jobs : Publish(j)
    BY <1>1, <1>6, PublishDoes DEF Moves
<1>7. CASE \E i \in Instances : Relay(i)
    BY <1>1, <1>7, RelayDoes DEF Moves
<1>8. CASE \E i \in Instances : RelayDown(i)
    BY <1>1, <1>8, RelayDownDoes DEF Moves
<1> QED
    BY <1>2, <1>3, <1>4, <1>5, <1>6, <1>7, <1>8 DEF Next

LEMMA HandledKept == ASSUME Basics, Seated, Moves PROVE Handled'
<1> USE DEF Basics
<1>1. ConnMoves /\ sent \in Nat /\ MaxMessages \in Nat
    BY SocketsAssumption DEF Seated, TypeOK
<1>2. ASSUME NEW k \in Jobs, job'[k] = job[k], Busy(k)', sent' \in Nat, sent <= sent' PROVE InHand(k)'
  <2>1. InHand(k)
      BY <1>2 DEF Handled, Busy
  <2> QED
      BY <1>1, <1>2, <2>1, StaysInHand
<1>3. CASE Quiet
    BY <1>1, <1>2, <1>3 DEF Quiet, Handled
<1>4. CASE \E j \in Tasks : Starts(j)
    BY <1>1, <1>2, <1>4 DEF Starts, Handled
<1>5. CASE \E j \in Jobs : Advances(j)
    BY <1>1, <1>2, <1>5 DEF Advances, Handled
<1>6. CASE \E j \in Jobs, is \in SUBSET Instances : Publishes(j, is)
    BY <1>1, <1>2, <1>6 DEF Publishes, Handled
<1>7. CASE \E i \in Instances : Hears(i) /\ (TakesUp(i, inbox[i][1]) \/ (inbox[i][1].origin = i /\ job' = job))
  <2>1. PICK i \in Instances : Hears(i) /\ (TakesUp(i, inbox[i][1]) \/ (inbox[i][1].origin = i /\ job' = job))
      BY <1>7
  <2>2. PICK m \in Message : m = inbox[i][1]
      BY <2>1, InboxIs DEF Hears
  <2>3. TakesUp(i, m) => InHand(i)'
      BY <2>1, <2>2, TakenInHand
  <2> QED
      BY <1>1, <1>2, <2>1, <2>2, <2>3 DEF Hears, Handled
<1>8. CASE \E i \in Instances : CutOff(i)
    BY <1>1, <1>2, <1>8 DEF CutOff, Handled
<1> QED
    BY <1>3, <1>4, <1>5, <1>6, <1>7, <1>8 DEF Moves

\* The parts of OneCopy.
Received(i) == \A n \in DOMAIN inbox[i] : inbox[i][n].id <= sent /\ (inbox[i][n].close => inbox[i][n].to \in People)
Distinct(i) == \A m, n \in DOMAIN inbox[i] : inbox[i][m].id = inbox[i][n].id => m = n
Apart(j, k) == j # k /\ Busy(j) /\ Busy(k) => job[j].msg.id # job[k].msg.id
NotIn(j, i) == Busy(j) => \A n \in DOMAIN inbox[i] : inbox[i][n].id # job[j].msg.id

LEMMA OneCopyIs ==
    OneCopy <=> /\ \A i \in Instances : Received(i) /\ Distinct(i) /\ NotIn(i, i)
                /\ \A j \in Tasks : (\A k \in Jobs : Apart(j, k)) /\ (\A i \in Instances : NotIn(j, i))
BY DEF OneCopy, Received, Distinct, Apart, NotIn

LEMMA OneCopyIsNext ==
    OneCopy' <=> /\ \A i \in Instances : Received(i)' /\ Distinct(i)' /\ NotIn(i, i)'
                 /\ \A j \in Tasks : (\A k \in Jobs : Apart(j, k)') /\ (\A i \in Instances : NotIn(j, i)')
BY DEF OneCopy, Received, Distinct, Apart, NotIn

LEMMA OneCopyKept == ASSUME Basics, Moves PROVE OneCopy'
<1> USE DEF Basics
<1>1. /\ \A i \in Instances : Received(i) /\ Distinct(i) /\ NotIn(i, i)
      /\ \A j \in Tasks : (\A k \in Jobs : Apart(j, k)) /\ (\A i \in Instances : NotIn(j, i))
    BY OneCopyIs
<1>2. sent \in Nat /\ MaxMessages \in Nat /\ Tasks \subseteq Jobs /\ Instances \subseteq Jobs
    BY SocketsAssumption DEF TypeOK, Jobs
<1>3. CASE Quiet
    BY <1>3 DEF Quiet, OneCopy, Busy
<1>4. CASE \E j \in Tasks : Starts(j)
  <2>1. PICK j \in Tasks : Starts(j)
      BY <1>4
  <2>2. ASSUME NEW k \in Jobs, k # j PROVE job'[k] = job[k] /\ Busy(k)' = Busy(k)
      BY <2>1, <2>2 DEF Starts, Busy
  <2>3. ASSUME NEW i \in Instances, NEW n \in DOMAIN inbox[i]
        PROVE  inbox[i][n].id \in Nat /\ inbox[i][n].id <= sent /\ inbox[i][n].id # sent + 1
      BY <1>1, <1>2, InboxIs DEF Received
  <2>4. ASSUME NEW k \in Jobs, Busy(k) PROVE job[k].msg.id # sent + 1
    <3>1. job[k].msg.id \in 1..MaxMessages /\ job[k].msg.id <= sent
        BY <2>4, WhoPublishes DEF InHand
    <3> QED
        BY <1>2, <3>1
  <2>5. inbox' = inbox /\ sent' = sent + 1 /\ job'[j].msg.id = sent + 1 /\ j \notin Instances
      BY <2>1, SocketsAssumption DEF Starts
  <2>6. ASSUME NEW i \in Instances PROVE Received(i)' /\ Distinct(i)' /\ NotIn(i, i)'
    <3>1. Received(i)'
        BY <1>1, <1>2, <2>3, <2>5 DEF Received
    <3>2. Distinct(i)'
        BY <1>1, <2>5 DEF Distinct
    <3>3. NotIn(i, i)'
        BY <1>1, <1>2, <2>2, <2>5 DEF NotIn
    <3> QED
        BY <3>1, <3>2, <3>3
  <2>7. ASSUME NEW t \in Tasks, NEW k \in Jobs PROVE Apart(t, k)'
    <3>1. CASE t = j
        BY <2>2, <2>4, <2>5, <3>1 DEF Apart
    <3>2. CASE k = j /\ t # j
        BY <1>2, <2>2, <2>4, <2>5, <3>2 DEF Apart
    <3>3. CASE k # j /\ t # j
        BY <1>1, <1>2, <2>2, <3>3 DEF Apart
    <3> QED
        BY <3>1, <3>2, <3>3
  <2>8. ASSUME NEW t \in Tasks, NEW i \in Instances PROVE NotIn(t, i)'
    <3>1. CASE t = j
        BY <2>3, <2>5, <3>1 DEF NotIn
    <3>2. CASE t # j
        BY <1>1, <1>2, <2>2, <2>5, <3>2 DEF NotIn
    <3> QED
        BY <3>1, <3>2
  <2> QED
      BY <2>6, <2>7, <2>8, OneCopyIsNext
<1>5. CASE \E j \in Jobs : Advances(j)
  <2>1. PICK j \in Jobs : Advances(j)
      BY <1>5
  <2>2. ASSUME NEW k \in Jobs PROVE job'[k].msg = job[k].msg /\ (Busy(k)' => Busy(k))
      BY <2>1 DEF Advances, Busy
  <2>3. inbox' = inbox /\ sent' = sent
      BY <2>1 DEF Advances
  <2> QED
      BY <1>1, <1>2, <2>2, <2>3, OneCopyIsNext DEF Received, Distinct, Apart, NotIn
<1>6. CASE \E j \in Jobs, is \in SUBSET Instances : Publishes(j, is)
  <2>1. PICK j \in Jobs, is \in SUBSET Instances : Publishes(j, is)
      BY <1>6
  <2>2. ASSUME NEW k \in Jobs PROVE Busy(k)' => k # j /\ Busy(k) /\ job'[k] = job[k]
      BY <2>1 DEF Publishes, Busy
  <2>3. Busy(j) /\ InHand(j) /\ j \in Tasks /\ sent' = sent
      BY <2>1 DEF Publishes, Handled
  <2>4. ASSUME NEW i \in Instances, NEW n \in DOMAIN inbox'[i]
        PROVE  \/ n \in DOMAIN inbox[i] /\ inbox'[i][n] = inbox[i][n]
               \/ n = Len(inbox[i]) + 1 /\ inbox'[i][n] = job[j].msg
      BY <2>1 DEF Publishes
  <2>5. ASSUME NEW i \in Instances, NEW n \in DOMAIN inbox[i] PROVE inbox[i][n].id # job[j].msg.id
      BY <1>1, <2>3 DEF NotIn
  <2>6. ASSUME NEW k \in Jobs, Busy(k), k # j PROVE job[k].msg.id # job[j].msg.id
      BY <1>1, <2>3, <2>6 DEF Apart
  <2>7. ASSUME NEW i \in Instances PROVE Received(i)' /\ Distinct(i)' /\ NotIn(i, i)'
    <3>1. Received(i)'
        BY <1>1, <2>3, <2>4 DEF Received, InHand
    <3>2. Distinct(i)'
      <4>1. ASSUME NEW m \in DOMAIN inbox'[i], NEW n \in DOMAIN inbox'[i], inbox'[i][m].id = inbox'[i][n].id
            PROVE  m = n
          BY <1>1, <2>4, <2>5, <4>1 DEF Distinct
      <4> QED
          BY <4>1 DEF Distinct
    <3>3. NotIn(i, i)'
        BY <1>1, <1>2, <2>2, <2>4, <2>6 DEF NotIn
    <3> QED
        BY <3>1, <3>2, <3>3
  <2>8. ASSUME NEW t \in Tasks, NEW k \in Jobs PROVE Apart(t, k)'
      BY <1>1, <1>2, <2>2 DEF Apart
  <2>9. ASSUME NEW t \in Tasks, NEW i \in Instances PROVE NotIn(t, i)'
      BY <1>1, <1>2, <2>2, <2>4, <2>6 DEF NotIn
  <2> QED
      BY <2>7, <2>8, <2>9, OneCopyIsNext
<1>7. CASE \E i \in Instances : Hears(i) /\ (TakesUp(i, inbox[i][1]) \/ (inbox[i][1].origin = i /\ job' = job))
  <2>1. PICK h \in Instances : Hears(h) /\ (TakesUp(h, inbox[h][1]) \/ (inbox[h][1].origin = h /\ job' = job))
      BY <1>7
  <2>2. ASSUME NEW k \in Jobs, k # h PROVE job'[k] = job[k] /\ Busy(k)' = Busy(k)
      BY <2>1, <2>2 DEF Hears, Busy
  <2>3. Busy(h)' => job'[h].msg = inbox[h][1]
      BY <2>1 DEF Hears, TakesUp, Busy
  <2>4. ASSUME NEW i \in Instances, NEW n \in DOMAIN inbox'[i]
        PROVE  \E l \in DOMAIN inbox[i] : /\ inbox'[i][n] = inbox[i][l] /\ (i = h => l # 1 /\ l = n + 1 /\ n \in Nat)
                                          /\ (i # h => l = n)
    <3>1. CASE i = h
        BY <2>1, <3>1 DEF Hears
    <3>2. CASE i # h
        BY <2>1, <3>2 DEF Hears
    <3> QED
        BY <3>1, <3>2
  <2>5. 1 \in DOMAIN inbox[h] /\ sent' = sent /\ h \in Jobs /\ h \notin Tasks
      BY <2>1, SocketsAssumption DEF Hears
  <2>6. ASSUME NEW i \in Instances PROVE Received(i)' /\ Distinct(i)' /\ NotIn(i, i)'
    <3>1. Received(i)'
        BY <1>1, <2>4, <2>5 DEF Received
    <3>2. Distinct(i)'
      <4>1. ASSUME NEW m \in DOMAIN inbox'[i], NEW n \in DOMAIN inbox'[i], inbox'[i][m].id = inbox'[i][n].id
            PROVE  m = n
        <5>1. PICK a \in DOMAIN inbox[i] : inbox'[i][m] = inbox[i][a] /\ (i = h => a = m + 1 /\ m \in Nat) /\ (i # h => a = m)
            BY <2>4
        <5>2. PICK b \in DOMAIN inbox[i] : inbox'[i][n] = inbox[i][b] /\ (i = h => b = n + 1 /\ n \in Nat) /\ (i # h => b = n)
            BY <2>4
        <5>3. a = b
            BY <1>1, <4>1, <5>1, <5>2 DEF Distinct
        <5> QED
            BY <5>1, <5>2, <5>3
      <4> QED
          BY <4>1 DEF Distinct
    <3>3. NotIn(i, i)'
      <4>1. CASE i = h
        <5>1. ASSUME NEW n \in DOMAIN inbox'[h] PROVE inbox'[h][n].id # inbox[h][1].id
            BY <1>1, <2>4, <2>5 DEF Distinct
        <5> QED
            BY <2>3, <4>1, <5>1 DEF NotIn
      <4>2. CASE i # h
          BY <1>1, <1>2, <2>2, <2>4, <4>2 DEF NotIn
      <4> QED
          BY <4>1, <4>2
    <3> QED
        BY <3>1, <3>2, <3>3
  <2>7. ASSUME NEW t \in Tasks, NEW k \in Jobs PROVE Apart(t, k)'
    <3>1. CASE k = h
        BY <1>1, <1>2, <2>2, <2>3, <2>5, <3>1 DEF Apart, NotIn
    <3>2. CASE k # h
        BY <1>1, <1>2, <2>2, <2>5, <3>2 DEF Apart
    <3> QED
        BY <3>1, <3>2
  <2>8. ASSUME NEW t \in Tasks, NEW i \in Instances PROVE NotIn(t, i)'
      BY <1>1, <1>2, <2>2, <2>4, <2>5 DEF NotIn
  <2> QED
      BY <2>6, <2>7, <2>8, OneCopyIsNext
<1>8. CASE \E i \in Instances : CutOff(i)
  <2>1. PICK h \in Instances : CutOff(h)
      BY <1>8
  <2>2. \A i \in Instances : \A n \in DOMAIN inbox'[i] : n \in DOMAIN inbox[i] /\ inbox'[i][n] = inbox[i][n]
      BY <2>1 DEF CutOff
  <2>3. job' = job /\ sent' = sent
      BY <2>1 DEF CutOff
  <2> QED
      BY <1>1, <2>2, <2>3, OneCopyIsNext DEF Received, Distinct, Apart, NotIn, Busy
<1> QED
    BY <1>3, <1>4, <1>5, <1>6, <1>7, <1>8 DEF Moves

\* The rest of the state keeps its type.
LEMMA TypeKept == ASSUME Basics, Seated, Moves, [Next]_vars PROVE TypeOK'
<1> USE DEF Basics
<1>1. out' \in [People -> BOOLEAN] /\ up' \in [Instances -> BOOLEAN]
  <2>1. CASE \E j \in Tasks, i \in Instances, p \in People : DeactivateUser(j, i, p)
      BY <2>1 DEF DeactivateUser, TypeOK
  <2>2. CASE \E i \in Instances : RelayDown(i) \/ RelayUp(i)
      BY <2>2 DEF RelayDown, RelayUp, TypeOK
  <2>3. CASE UNCHANGED <<out, up>>
      BY <2>3 DEF TypeOK
  <2> QED
      BY <2>1, <2>2, <2>3 DEF Next, vars, Accept, Identify, RegisterSession, HangUp, Disconnected, Forward, CloseHere,
         SendText, Publish, Relay
<1>2. heard' \in [Conns -> [1..MaxMessages -> Nat]]
  <2>1. CASE \E j \in Jobs : SendText(j)
    <3>1. PICK j \in Jobs : SendText(j)
        BY <2>1
    <3>2. PICK c \in Conns :
            Busy(j) /\ (UNCHANGED heard \/ heard' = [heard EXCEPT ![c][job[j].msg.id] = @ + 1])
        BY <3>1, SendDoes
    <3>3. heard \in [Conns -> [1..MaxMessages -> Nat]]
        BY DEF TypeOK
    <3>4. PICK m \in 1..MaxMessages : m = job[j].msg.id
        BY <3>2, WhoPublishes
    <3>5. heard[c][m] + 1 \in Nat
      <4>1. heard[c][m] \in Nat
          BY <3>3
      <4> QED
          BY <4>1
    <3>6. CASE heard' = [heard EXCEPT ![c][m] = heard[c][m] + 1]
        BY <3>3, <3>5, <3>6
    <3> QED
        BY <3>2, <3>3, <3>4, <3>6
  <2>2. CASE UNCHANGED heard
      BY <2>2 DEF TypeOK
  <2> QED
      BY <2>1, <2>2 DEF Next, vars, Accept, Identify, RegisterSession, HangUp, Disconnected, Forward, DeactivateUser,
         CloseHere, Publish, Relay, RelayDown, RelayUp
<1>3. job' \in [Jobs -> Job] /\ inbox' \in [Instances -> Seq(Message)] /\ missed' \subseteq Instances
  <2>1. CASE Quiet
      BY <2>1 DEF Quiet, TypeOK
  <2>2. CASE \E j \in Tasks : Starts(j)
      BY <2>2 DEF Starts, TypeOK
  <2>3. CASE \E j \in Jobs : Advances(j)
      BY <2>3 DEF Advances, TypeOK
  <2>4. CASE \E j \in Jobs, is \in SUBSET Instances : Publishes(j, is)
      BY <2>4 DEF Publishes, TypeOK
  <2>5. CASE \E i \in Instances : Hears(i)
      BY <2>5 DEF Hears, TypeOK
  <2>6. CASE \E i \in Instances : CutOff(i)
      BY <2>6 DEF CutOff, TypeOK
  <2> QED
      BY <2>1, <2>2, <2>3, <2>4, <2>5, <2>6 DEF Moves
<1>4. sent' \in 0..MaxMessages
  <2>1. sent \in 0..MaxMessages /\ MaxMessages \in Nat
      BY SocketsAssumption DEF TypeOK
  <2>2. sent' = sent \/ (sent < MaxMessages /\ sent' = sent + 1)
      BY DEF Moves, Quiet, Starts, Advances, Publishes, Hears, CutOff
  <2> QED
      BY <2>1, <2>2
<1> QED
    BY <1>1, <1>2, <1>3, <1>4 DEF TypeOK, Seated

LEMMA BasicsKept == ASSUME Basics, [Next]_vars PROVE Basics' /\ Seated /\ Moves
BY EveryStepMoves, HandledKept, OneCopyKept, TypeKept DEF Basics, Seated

-----------------------------------------------------------------------------
(* Nobody hears an event twice. *)

\* The parts of Unheard.
New(c, m) == conn[c].at \in {"none", "auth", "checked"} \/ sent < m => heard[c][m] = 0
Awaited(j, c) ==
    Busy(j) /\ (\E n \in DOMAIN job[j].queue : job[j].queue[n][2] = c) => heard[c][job[j].msg.id] = 0
Elsewhere(j, c) == Busy(j) /\ conn[c].inst # job[j].inst => heard[c][job[j].msg.id] = 0
Coming(i, c) == \A n \in DOMAIN inbox[i] : inbox[i][n].origin # i /\ conn[c].inst = i => heard[c][inbox[i][n].id] = 0

LEMMA UnheardIs ==
    Unheard <=> \A c \in Conns : /\ \A m \in 1..MaxMessages : New(c, m)
                                 /\ \A j \in Jobs : Awaited(j, c)
                                 /\ \A j \in Tasks : Elsewhere(j, c)
                                 /\ \A i \in Instances : Coming(i, c)
BY DEF Unheard, New, Awaited, Elsewhere, Coming

LEMMA UnheardIsNext ==
    Unheard' <=> \A c \in Conns : /\ \A m \in 1..MaxMessages : New(c, m)'
                                  /\ \A j \in Jobs : Awaited(j, c)'
                                  /\ \A j \in Tasks : Elsewhere(j, c)'
                                  /\ \A i \in Instances : Coming(i, c)'
BY DEF Unheard, New, Awaited, Elsewhere, Coming

\* A step that sends nothing.
LEMMA UnheardKept == ASSUME Basics, Unheard, Seated, Moves, UNCHANGED heard PROVE Unheard'
<1> USE DEF Basics
<1> SUFFICES ASSUME NEW c \in Conns
             PROVE  /\ \A m \in 1..MaxMessages : New(c, m)'
                    /\ \A j \in Jobs : Awaited(j, c)'
                    /\ \A j \in Tasks : Elsewhere(j, c)'
                    /\ \A i \in Instances : Coming(i, c)'
    BY UnheardIsNext
<1>1. /\ \A m \in 1..MaxMessages : New(c, m)
      /\ \A j \in Jobs : Awaited(j, c)
      /\ \A j \in Tasks : Elsewhere(j, c)
      /\ \A i \in Instances : Coming(i, c)
    BY UnheardIs
<1>2. sent \in Nat /\ MaxMessages \in Nat /\ Tasks \subseteq Jobs /\ Instances \subseteq Jobs
    BY SocketsAssumption DEF TypeOK, Jobs
<1>3. /\ conn'[c].at \in {"none", "auth", "checked"} => conn[c].at \in {"none", "auth", "checked"}
      /\ conn[c].at # "none" => conn'[c].inst = conn[c].inst
    BY DEF Seated, ConnMoves
<1>4. conn[c].at = "none" => \A m \in 1..MaxMessages : heard[c][m] = 0
    BY <1>1 DEF New
<1>5. sent' = sent \/ sent' = sent + 1
    BY DEF Moves, Quiet, Starts, Advances, Publishes, Hears, CutOff
<1>6. \A m \in 1..MaxMessages : New(c, m)'
    BY <1>1, <1>2, <1>3, <1>5 DEF New
<1>7. ASSUME NEW k \in Jobs, job'[k] = job[k]
      PROVE  Awaited(k, c)' /\ (k \in Tasks => Elsewhere(k, c)')
  <2>1. Busy(k)' => Busy(k) /\ job[k].msg.id \in 1..MaxMessages
      BY <1>7, WhoPublishes DEF Busy
  <2> QED
      BY <1>1, <1>3, <1>4, <1>7, <2>1 DEF Awaited, Elsewhere
<1>8. ASSUME NEW i \in Instances, inbox'[i] = inbox[i] PROVE Coming(i, c)'
    BY <1>1, <1>3, <1>4, <1>8, InboxIs DEF Coming
<1>9. CASE Quiet
    BY <1>2, <1>6, <1>7, <1>8, <1>9 DEF Quiet
<1>10. CASE \E j \in Tasks : Starts(j)
  <2>1. PICK j \in Tasks : Starts(j)
      BY <1>10
  <2>2. job'[j].msg.id = sent + 1 /\ sent + 1 \in 1..MaxMessages
      BY <1>2, <2>1 DEF Starts
  <2>3. heard[c][sent + 1] = 0
      BY <1>1, <1>2, <2>2 DEF New
  <2>4. Awaited(j, c)' /\ Elsewhere(j, c)'
      BY <2>2, <2>3 DEF Awaited, Elsewhere
  <2> QED
      BY <1>2, <1>6, <1>7, <1>8, <2>1, <2>4 DEF Starts
<1>11. CASE \E j \in Jobs : Advances(j)
  <2>1. PICK j \in Jobs : Advances(j)
      BY <1>11
  <2>2. Busy(j) /\ job'[j].msg = job[j].msg /\ job'[j].inst = job[j].inst /\ job[j].msg.id \in 1..MaxMessages
      BY <2>1, WhoPublishes DEF Advances
  <2>3. Awaited(j, c)'
    <3>1. ASSUME NEW n \in DOMAIN job'[j].queue, job'[j].queue[n][2] = c
          PROVE  \E l \in DOMAIN job[j].queue : job[j].queue[l][2] = c
        BY <2>1, <3>1 DEF Advances
    <3> QED
        BY <1>1, <2>2, <3>1 DEF Awaited
  <2>4. j \in Tasks => Elsewhere(j, c)'
      BY <1>1, <1>3, <1>4, <2>2 DEF Elsewhere
  <2> QED
      BY <1>2, <1>6, <1>7, <1>8, <2>1, <2>3, <2>4 DEF Advances
<1>12. CASE \E j \in Jobs, is \in SUBSET Instances : Publishes(j, is)
  <2>1. PICK j \in Jobs, is \in SUBSET Instances : Publishes(j, is)
      BY <1>12
  <2>2. Busy(j) /\ InHand(j) /\ j \in Tasks /\ job[j].inst = job[j].msg.origin /\ conn' = conn
      BY <2>1 DEF Publishes, Handled, InHand
  <2>3. ASSUME NEW i \in Instances, NEW n \in DOMAIN inbox'[i]
        PROVE  \/ n \in DOMAIN inbox[i] /\ inbox'[i][n] = inbox[i][n]
               \/ inbox'[i][n] = job[j].msg
      BY <2>1 DEF Publishes
  <2>4. ASSUME NEW i \in Instances PROVE Coming(i, c)'
      BY <1>1, <2>2, <2>3 DEF Coming, Elsewhere
  <2>5. Awaited(j, c)' /\ Elsewhere(j, c)'
      BY <2>1 DEF Publishes, Awaited, Elsewhere
  <2> QED
      BY <1>2, <1>6, <1>7, <2>1, <2>4, <2>5 DEF Publishes
<1>13. CASE \E i \in Instances : Hears(i) /\ (TakesUp(i, inbox[i][1]) \/ (inbox[i][1].origin = i /\ job' = job))
  <2>1. PICK h \in Instances : Hears(h) /\ (TakesUp(h, inbox[h][1]) \/ (inbox[h][1].origin = h /\ job' = job))
      BY <1>13
  <2>2. conn' = conn /\ 1 \in DOMAIN inbox[h] /\ h \notin Tasks
      BY <2>1, SocketsAssumption DEF Hears
  <2>3. ASSUME NEW i \in Instances PROVE Coming(i, c)'
    <3>1. ASSUME NEW n \in DOMAIN inbox'[i] PROVE \E l \in DOMAIN inbox[i] : inbox'[i][n] = inbox[i][l]
      <4>1. CASE i = h
          BY <2>1, <4>1 DEF Hears
      <4>2. CASE i # h
          BY <2>1, <4>2 DEF Hears
      <4> QED
          BY <4>1, <4>2
    <3> QED
        BY <1>1, <2>2, <3>1 DEF Coming
  <2>4. Awaited(h, c)'
    <3>1. CASE job' = job
        BY <1>2, <1>7, <3>1
    <3>2. CASE TakesUp(h, inbox[h][1])
      <4>1. PICK m \in Message : m = inbox[h][1]
          BY <2>2, InboxIs
      <4>2. m.to \in People \cup {NULL} /\ m.origin # h /\ job'[h].msg = m /\ TakesUp(h, m)
          BY <3>2, <4>1 DEF TakesUp, Message
      <4>3. ASSUME NEW n \in DOMAIN job'[h].queue, job'[h].queue[n][2] = c PROVE heard[c][m.id] = 0
        <5>1. CASE m.close
          <6>1. job'[h].queue[n][2] = NULL
              BY <4>2, <5>1 DEF TakesUp
          <6> QED
              BY <4>3, <6>1, SocketsAssumption
        <5>2. CASE ~m.close
          <6>1. job'[h].queue = Recipients(h, m.to)
              BY <4>2, <5>2 DEF TakesUp
          <6>2. conn[c].inst = h
              BY <4>2, <4>3, <6>1, RecipientsAre
          <6> QED
              BY <1>1, <2>2, <4>1, <4>2, <6>2 DEF Coming
        <5> QED
            BY <5>1, <5>2
      <4> QED
          BY <4>2, <4>3 DEF Awaited
    <3> QED
        BY <2>1, <3>1, <3>2
  <2>5. ASSUME NEW k \in Jobs, k # h PROVE job'[k] = job[k]
      BY <2>1, <2>5 DEF Hears
  <2> QED
      BY <1>2, <1>6, <1>7, <2>2, <2>3, <2>4, <2>5
<1>14. CASE \E i \in Instances : CutOff(i)
  <2>1. PICK h \in Instances : CutOff(h)
      BY <1>14
  <2>2. Coming(h, c)'
      BY <2>1 DEF CutOff, Coming
  <2> QED
      BY <1>2, <1>6, <1>7, <1>8, <2>1, <2>2 DEF CutOff
<1> QED
    BY <1>9, <1>10, <1>11, <1>12, <1>13, <1>14 DEF Moves

\* What a send changes of what was heard: one more, where there was none.
LEMMA HeardNow ==
    ASSUME Basics, Unheard, NEW j \in Jobs, SendText(j), ~UNCHANGED heard
    PROVE  \E c \in Conns :
             /\ Busy(j) /\ 1 \in DOMAIN job[j].queue /\ job[j].queue[1][2] = c /\ ~job[j].msg.close
             /\ conn[c].at \in {"in", "gone"} /\ conn[c].inst = job[j].inst
             /\ job[j].msg.id \in 1..MaxMessages /\ job[j].msg.id <= sent /\ heard[c][job[j].msg.id] = 0
             /\ heard'[c][job[j].msg.id] = 1 /\ UNCHANGED <<active, conn, inbox, sent>>
             /\ \A d \in Conns, m \in 1..MaxMessages : d # c \/ m # job[j].msg.id => heard'[d][m] = heard[d][m]
<1> USE DEF Basics
<1>1. PICK c \in Conns :
        /\ ~job[j].msg.close /\ Busy(j) /\ InHand(j) /\ 1 \in DOMAIN job[j].queue /\ job[j].queue[1][2] = c
        /\ heard' = [heard EXCEPT ![c][job[j].msg.id] = @ + 1] /\ UNCHANGED <<active, conn, inbox, sent>>
    BY SendDoes
<1>2. job[j].msg.id \in 1..MaxMessages /\ job[j].msg.id <= sent
    BY <1>1, WhoPublishes DEF InHand
<1>3. heard[c][job[j].msg.id] = 0
    BY <1>1 DEF Unheard
<1>4. heard \in [Conns -> [1..MaxMessages -> Nat]]
    BY DEF TypeOK
<1>5. heard'[c][job[j].msg.id] = 1
    BY <1>1, <1>2, <1>3, <1>4
<1>6. \A d \in Conns, m \in 1..MaxMessages : d # c \/ m # job[j].msg.id => heard'[d][m] = heard[d][m]
    BY <1>1, <1>2, <1>4
<1>7. conn[c].at \in {"in", "gone"} /\ conn[c].inst = job[j].inst
    BY <1>1 DEF InHand
<1> QED
    BY <1>1, <1>2, <1>3, <1>5, <1>6, <1>7

LEMMA SendUnheard ==
    ASSUME Basics, Unheard, Seated, Moves, NEW j \in Jobs, SendText(j), ~UNCHANGED heard
    PROVE  Unheard'
<1> USE DEF Basics
<1> DEFINE id == job[j].msg.id
<1>1. PICK c \in Conns :
        /\ Busy(j) /\ 1 \in DOMAIN job[j].queue /\ job[j].queue[1][2] = c /\ ~job[j].msg.close
        /\ conn[c].at \in {"in", "gone"} /\ conn[c].inst = job[j].inst
        /\ id \in 1..MaxMessages /\ id <= sent /\ UNCHANGED <<active, conn, inbox, sent>>
        /\ \A d \in Conns, m \in 1..MaxMessages : d # c \/ m # id => heard'[d][m] = heard[d][m]
    BY HeardNow
<1>2. InHand(j) /\ sent \in Nat /\ MaxMessages \in Nat /\ Tasks \subseteq Jobs /\ Instances \subseteq Jobs
    BY <1>1, SocketsAssumption DEF Handled, TypeOK, Jobs
<1>3. Advances(j)
  <2>1. job[j].queue # <<>> /\ job' = [job EXCEPT ![j].queue = Tail(@)] /\ UNCHANGED <<out, up, inbox, sent, missed>>
      BY DEF SendText
  <2> QED
      BY <2>1, QueueAdvances DEF Seated
<1>4. ASSUME NEW k \in Jobs
      PROVE  /\ job'[k].msg = job[k].msg /\ job'[k].inst = job[k].inst /\ (Busy(k)' => Busy(k))
             /\ (Busy(k) => job[k].msg.id \in 1..MaxMessages /\ InHand(k))
             /\ \A n \in DOMAIN job'[k].queue : \E l \in DOMAIN job[k].queue : job'[k].queue[n] = job[k].queue[l]
    BY <1>3, WhoPublishes DEF Advances, Busy
<1>5. ASSUME NEW k \in Jobs, k # j, Busy(k), job[k].msg.id = id
      PROVE  j \in Instances /\ k \in Instances
  <2>1. j \notin Tasks /\ k \notin Tasks
      BY <1>1, <1>5 DEF OneCopy
  <2> QED
      BY <2>1 DEF Jobs
<1>6. ASSUME NEW d \in Conns, NEW m \in 1..MaxMessages PROVE New(d, m)'
    BY <1>1, <1>2, UnheardIs DEF New
<1>7. ASSUME NEW d \in Conns, NEW k \in Jobs PROVE Awaited(k, d)'
  <2> SUFFICES ASSUME Busy(k)', NEW n \in DOMAIN job'[k].queue, job'[k].queue[n][2] = d
               PROVE  heard'[d][job'[k].msg.id] = 0
      BY DEF Awaited
  <2>1. PICK l \in DOMAIN job[k].queue : job'[k].queue[n] = job[k].queue[l] /\ (k = j => l # 1)
      BY <1>3, <1>4 DEF Advances
  <2>2. heard[d][job[k].msg.id] = 0 /\ Busy(k) /\ InHand(k) /\ job[k].msg.id \in 1..MaxMessages
      BY <1>4, <2>1, UnheardIs DEF Awaited
  <2>3. d # c \/ job[k].msg.id # id
    <3> SUFFICES ASSUME d = c, job[k].msg.id = id PROVE FALSE
        OBVIOUS
    <3>1. CASE k = j
        BY <1>1, <1>2, <2>1, <3>1 DEF InHand
    <3>2. CASE k # j
      <4>1. j \in Instances /\ k \in Instances /\ job[j].inst = j /\ job[k].inst = k
          BY <1>2, <1>5, <2>2, <3>2 DEF InHand
      <4>2. job[k].queue[l][2] = c /\ (~job[k].msg.close => conn[c].inst = job[k].inst)
          BY <2>1, <2>2 DEF InHand
      <4>3. ~job[k].msg.close
        <5>1. job[k].msg.close => job[k].queue[l][2] = NULL
            BY <2>1, <2>2 DEF InHand
        <5> QED
            BY <4>2, <5>1, SocketsAssumption
      <4> QED
          BY <1>1, <3>2, <4>1, <4>2, <4>3
    <3> QED
        BY <3>1, <3>2
  <2> QED
      BY <1>1, <1>4, <2>2, <2>3
<1>8. ASSUME NEW d \in Conns, NEW k \in Tasks PROVE Elsewhere(k, d)'
  <2> SUFFICES ASSUME Busy(k)', conn'[d].inst # job'[k].inst PROVE heard'[d][job'[k].msg.id] = 0
      BY DEF Elsewhere
  <2>1. Busy(k) /\ heard[d][job[k].msg.id] = 0 /\ job[k].msg.id \in 1..MaxMessages /\ conn[d].inst # job[k].inst
      BY <1>1, <1>2, <1>4, UnheardIs DEF Elsewhere
  <2>2. d # c \/ job[k].msg.id # id
      BY <1>1, <1>2, <1>5, <2>1, SocketsAssumption
  <2> QED
      BY <1>1, <1>2, <1>4, <2>1, <2>2
<1>9. ASSUME NEW d \in Conns, NEW i \in Instances PROVE Coming(i, d)'
  <2> SUFFICES ASSUME NEW n \in DOMAIN inbox[i], inbox[i][n].origin # i, conn[d].inst = i
               PROVE  heard'[d][inbox[i][n].id] = 0
      BY <1>1 DEF Coming
  <2>1. heard[d][inbox[i][n].id] = 0 /\ inbox[i][n].id \in 1..MaxMessages
      BY UnheardIs, InboxIs DEF Coming
  <2>2. d # c \/ inbox[i][n].id # id
    <3> SUFFICES ASSUME d = c, inbox[i][n].id = id PROVE FALSE
        OBVIOUS
    <3>1. j \notin Tasks
        BY <1>1 DEF OneCopy
    <3>2. j \in Instances /\ job[j].inst = j /\ j = i
        BY <1>1, <1>2, <3>1 DEF Jobs, InHand
    <3> QED
        BY <1>1, <3>2 DEF OneCopy
  <2> QED
      BY <1>1, <2>1, <2>2
<1> QED
    BY <1>6, <1>7, <1>8, <1>9, UnheardIsNext

LEMMA HeardKept == ASSUME Basics, Unheard, HeardOnce, [Next]_vars PROVE Unheard' /\ HeardOnce'
<1>1. Seated /\ Moves
    BY EveryStepMoves
<1>2. CASE UNCHANGED heard
    BY <1>1, <1>2, UnheardKept DEF HeardOnce
<1>3. CASE ~UNCHANGED heard
  <2>1. PICK j \in Jobs : SendText(j)
      BY <1>3 DEF Next, vars, Accept, Identify, RegisterSession, HangUp, Disconnected, Forward, DeactivateUser,
         CloseHere, Publish, Relay, RelayDown, RelayUp
  <2>2. Unheard'
      BY <1>1, <1>3, <2>1, SendUnheard
  <2>3. \A d \in Conns, m \in 1..MaxMessages : heard'[d][m] = heard[d][m] \/ heard'[d][m] = 1
      BY <1>3, <2>1, HeardNow
  <2> QED
      BY <2>2, <2>3 DEF HeardOnce
<1> QED
    BY <1>2, <1>3

-----------------------------------------------------------------------------
(* Only a failed send takes the entry of a working connection. *)

\* Who has the entry, and who has lost it.
Kept(c) == Latest(c) => active[conn[c].inst][conn[c].user] = c \/ conn[c].evicted

\* An entry that is taken away costs the one in it, and is no loss to others.
LEMMA OthersKept ==
    ASSUME TypeOK, Registered, OnlyAFailedSendEvicts, NEW i \in Instances, NEW p \in People,
           active' = [active EXCEPT ![i][p] = NULL],
           NEW c \in Conns, conn'[c] = conn[c], active[i][p] # c
    PROVE  Kept(c)'
<1>1. Kept(c)
    BY DEF OnlyAFailedSendEvicts, Kept
<1>2. ASSUME Latest(c) PROVE conn[c].inst \in Instances /\ conn[c].user \in People
    BY <1>2 DEF Latest, Registered
<1>3. ASSUME Latest(c), active[conn[c].inst][conn[c].user] = c PROVE active'[conn[c].inst][conn[c].user] = c
    BY <1>2, <1>3, Forgetting
<1> QED
    BY <1>1, <1>3 DEF Kept, Latest

LEMMA NobodyEvicted == ASSUME Basics, OnlyAFailedSendEvicts, [Next]_vars PROVE OnlyAFailedSendEvicts'
<1> USE DEF Basics
<1> SUFFICES ASSUME NEW c \in Conns PROVE Kept(c)'
    BY DEF OnlyAFailedSendEvicts, Kept, Latest
<1>1. Kept(c)
    BY DEF OnlyAFailedSendEvicts, Kept
<1>2. CASE active' = active /\ (conn'[c] = conn[c] \/ ~Latest(c)')
    BY <1>1, <1>2 DEF Kept, Latest
<1>3. ASSUME NEW d \in Conns, NEW i \in Instances, NEW p \in People, Accept(d, i, p) PROVE Kept(c)'
  <2>1. active' = active /\ conn' = [conn EXCEPT ![d] = [NoConn EXCEPT !.at = "auth", !.inst = i, !.user = p, !.open = TRUE]]
      BY <1>3 DEF Accept
  <2>2. c = d => conn'[c].at = "auth"
      BY <2>1 DEF NoConn, TypeOK
  <2>3. c # d => conn'[c] = conn[c]
      BY <2>1 DEF TypeOK
  <2> QED
      BY <1>2, <2>1, <2>2, <2>3 DEF Latest
<1>4. ASSUME NEW d \in Conns, Identify(d) PROVE Kept(c)'
  <2>1. active' = active /\ (c # d => conn'[c] = conn[c])
      BY <1>4 DEF Identify, TypeOK
  <2>2. c = d => conn'[c].at \in {"checked", "gone"}
      BY <1>4, ConnIs DEF Identify, TypeOK, Conn
  <2> QED
      BY <1>2, <2>1, <2>2 DEF Latest
<1>5. ASSUME NEW d \in Conns, RegisterSession(d) PROVE Kept(c)'
  <2>1. CASE c = d
      BY <1>5, <2>1, RegisterDoes DEF Kept
  <2>2. CASE c # d
    <3> SUFFICES ASSUME Latest(c)' PROVE active'[conn'[c].inst][conn'[c].user] = c \/ conn'[c].evicted
        BY DEF Kept
    <3>1. /\ conn'[c].at = conn[c].at /\ conn'[c].inst = conn[c].inst /\ conn'[c].user = conn[c].user
          /\ conn'[c].open = conn[c].open /\ conn'[c].evicted = conn[c].evicted
          /\ conn'[c].newest = (conn[c].newest /\ ~(conn[c].inst = conn[d].inst /\ conn[c].user = conn[d].user))
        BY <1>5, <2>2, RegisterDoes
    <3>2. Latest(c) /\ ~(conn[c].inst = conn[d].inst /\ conn[c].user = conn[d].user)
        BY <3>1, ConnIs DEF Latest
    <3>3. conn[c].inst \in Instances /\ conn[c].user \in People
        BY <3>2 DEF Latest, Registered
    <3>4. active'[conn[c].inst][conn[c].user] = active[conn[c].inst][conn[c].user]
        BY <1>5, <3>2, <3>3, RegisterDoes
    <3> QED
        BY <1>1, <3>1, <3>2, <3>4 DEF Kept
  <2> QED
      BY <2>1, <2>2
<1>6. ASSUME NEW d \in Conns, HangUp(d) PROVE Kept(c)'
  <2>1. active' = active /\ (c # d => conn'[c] = conn[c])
      BY <1>6 DEF HangUp, TypeOK
  <2>2. c = d => conn'[c].open = FALSE
      BY <1>6, ConnIs DEF HangUp, TypeOK, Conn
  <2> QED
      BY <1>2, <2>1, <2>2 DEF Latest
<1>7. ASSUME NEW d \in Conns, Disconnected(d) PROVE Kept(c)'
  <2>1. conn' = [conn EXCEPT ![d].at = "gone"] /\ conn[d].inst \in Instances /\ conn[d].user \in People
      BY <1>7 DEF Disconnected, Registered
  <2>2. (c # d => conn'[c] = conn[c]) /\ (c = d => conn'[c].at = "gone")
      BY <2>1, ConnIs DEF TypeOK, Conn
  <2>3. CASE c = d
      BY <2>2, <2>3 DEF Kept, Latest
  <2>4. CASE c # d /\ active[conn[d].inst][conn[d].user] = d
    <3>1. active' = [active EXCEPT ![conn[d].inst][conn[d].user] = NULL]
        BY <1>7, <2>4 DEF Disconnected, TerminateSession
    <3> QED
        BY <2>1, <2>2, <2>4, <3>1, OthersKept
  <2>5. CASE c # d /\ active[conn[d].inst][conn[d].user] # d
    <3>1. active' = active
        BY <1>7, <2>5 DEF Disconnected, TerminateSession
    <3> QED
        BY <1>2, <2>2, <2>5, <3>1
  <2> QED
      BY <2>3, <2>4, <2>5
<1>8. ASSUME NEW j \in Jobs, CloseHere(j) PROVE Kept(c)'
  <2>0. PICK i \in Instances, p \in People : i = job[j].inst /\ p = job[j].msg.to
      BY <1>8, CloseDoes
  <2>1. /\ active' = [active EXCEPT ![i][p] = NULL]
        /\ \/ UNCHANGED conn /\ active[i][p] = NULL
           \/ active[i][p] \in Conns /\ conn' = [conn EXCEPT ![active[i][p]].open = FALSE]
      BY <1>8, <2>0, CloseDoes
  <2>2. CASE active[i][p] = c
    <3>1. conn' = [conn EXCEPT ![c].open = FALSE]
        BY <2>1, <2>2, SocketsAssumption
    <3>2. conn'[c].open = FALSE
        BY <3>1, ConnIs DEF TypeOK, Conn
    <3> QED
        BY <3>2 DEF Kept, Latest
  <2>3. CASE active[i][p] # c
    <3>1. conn'[c] = conn[c]
        BY <2>1, <2>3 DEF TypeOK
    <3> QED
        BY <2>1, <2>3, <3>1, OthersKept
  <2> QED
      BY <2>2, <2>3
<1>9. ASSUME NEW j \in Jobs, SendText(j) PROVE Kept(c)'
  <2> DEFINE at == job[j].inst
  <2>0. PICK p \in People, d \in Conns :
          /\ at \in Instances
          /\ \/ UNCHANGED <<active, conn>>
             \/ /\ ~conn[d].open /\ active' = [active EXCEPT ![at][p] = NULL]
                /\ \/ active[at][p] \in {NULL, d} /\ UNCHANGED conn
                   \/ /\ active[at][p] \in Conns /\ active[at][p] # d
                      /\ conn' = [conn EXCEPT ![active[at][p]].evicted = TRUE]
      BY <1>9, SendDoes
  <2> HIDE DEF at
  <2>1. PICK i \in Instances :
          \/ UNCHANGED <<active, conn>>
          \/ /\ ~conn[d].open /\ active' = [active EXCEPT ![i][p] = NULL]
             /\ \/ active[i][p] \in {NULL, d} /\ UNCHANGED conn
                \/ /\ active[i][p] \in Conns /\ active[i][p] # d
                   /\ conn' = [conn EXCEPT ![active[i][p]].evicted = TRUE]
      BY <2>0
  <2>2. CASE UNCHANGED <<active, conn>>
      BY <1>2, <2>2
  <2>3. CASE active' = [active EXCEPT ![i][p] = NULL] /\ active[i][p] # c /\ ~UNCHANGED <<active, conn>>
    <3>1. conn'[c] = conn[c]
        BY <2>1, <2>3 DEF TypeOK
    <3> QED
        BY <2>3, <3>1, OthersKept
  <2>4. CASE active[i][p] = c /\ ~UNCHANGED <<active, conn>>
    <3>1. CASE c = d
      <4>1. conn'[c] = conn[c] /\ ~conn[c].open
          BY <2>1, <2>4, <3>1
      <4> QED
          BY <4>1 DEF Kept, Latest
    <3>2. CASE c # d
      <4>1. conn' = [conn EXCEPT ![c].evicted = TRUE]
          BY <2>1, <2>4, <3>2, SocketsAssumption
      <4>2. conn'[c].evicted
          BY <4>1, ConnIs DEF TypeOK, Conn
      <4> QED
          BY <4>2 DEF Kept
    <3> QED
        BY <3>1, <3>2
  <2> QED
      BY <2>1, <2>2, <2>3, <2>4
<1> QED
    BY <1>2, <1>3, <1>4, <1>5, <1>6, <1>7, <1>8, <1>9
       DEF Next, vars, Forward, DeactivateUser, Publish, Relay, RelayDown, RelayUp

-----------------------------------------------------------------------------
(* What a deactivated person is left with. *)

\* A close that is carried by a job, and one that waits in the inbox.
Carried(i, p) ==
    \E j \in Jobs : /\ Busy(j) /\ job[j].msg.close /\ job[j].msg.to = p
                    /\ \/ job[j].inst = i /\ job[j].queue # <<>>
                       \/ job[j].inst # i /\ job[j].publish
Waits(i, p) == \E n \in DOMAIN inbox[i] : inbox[i][n].close /\ inbox[i][n].to = p /\ inbox[i][n].origin # i

\* A close on its way stays on its way, until the socket is closed or the
\* instance has missed it.
LEMMA DueKept ==
    ASSUME Basics, Seated, Moves, [Next]_vars, NEW i \in Instances, NEW p \in People, Due(i, p)
    PROVE  Due(i, p)' \/ i \in missed' \/ active'[i][p] = NULL
<1> USE DEF Basics
<1>1. Carried(i, p) \/ Waits(i, p)
    BY DEF Due, Carried, Waits
<1>2. (Carried(i, p)' \/ Waits(i, p)') => Due(i, p)'
    BY DEF Due, Carried, Waits
<1>3. ASSUME NEW k \in Jobs, Busy(k), job[k].msg.close, job[k].msg.to = p,
             (job[k].inst = i /\ job[k].queue # <<>>) \/ (job[k].inst # i /\ job[k].publish), job'[k] = job[k]
      PROVE  Carried(i, p)'
    BY <1>3 DEF Carried, Busy
<1>4. ASSUME Waits(i, p), inbox'[i] = inbox[i] PROVE Waits(i, p)'
    BY <1>4 DEF Waits
<1>5. CASE Quiet
    BY <1>1, <1>2, <1>4, <1>5 DEF Quiet, Carried, Busy
<1>6. CASE \E j \in Tasks : Starts(j)
  <2>1. PICK j \in Tasks : Starts(j)
      BY <1>6
  <2>2. \A k \in Jobs : Busy(k) => job'[k] = job[k]
      BY <2>1 DEF Starts
  <2>3. Carried(i, p) => Carried(i, p)'
      BY <1>3, <2>2 DEF Carried
  <2> QED
      BY <1>1, <1>2, <1>4, <2>1, <2>3 DEF Starts
<1>7. CASE \E j \in Jobs : Advances(j)
  <2>1. CASE Waits(i, p)
      BY <1>2, <1>4, <1>7, <2>1 DEF Advances
  <2>2. CASE Carried(i, p)
    <3>1. PICK k \in Jobs :
            /\ Busy(k) /\ job[k].msg.close /\ job[k].msg.to = p
            /\ (job[k].inst = i /\ job[k].queue # <<>>) \/ (job[k].inst # i /\ job[k].publish)
        BY <2>2 DEF Carried
    <3>2. CASE job'[k] = job[k]
        BY <1>2, <1>3, <3>1, <3>2
    <3>3. CASE job'[k] # job[k]
      <4>1. PICK j \in Jobs : Advances(j)
          BY <1>7
      <4>2. k = j /\ inbox' = inbox /\ job'[k].inst = job[k].inst /\ job'[k].msg = job[k].msg
            /\ job'[k].publish = job[k].publish
          BY <3>3, <4>1 DEF Advances
      <4>3. CASE job[k].inst # i
        <5>1. Carried(i, p)'
            BY <3>1, <4>2, <4>3 DEF Carried, Busy
        <5> QED
            BY <1>2, <5>1
      <4>4. CASE job[k].inst = i
        <5>1. CloseHere(k)
          <6>1. ASSUME NEW l \in Jobs, CloseHere(l) \/ SendText(l) PROVE l = k /\ CloseHere(k)
            <7>1. \A h \in Jobs : h # l => job'[h] = job[h]
                BY <6>1 DEF CloseHere, SendText, TypeOK
            <7>2. l = k
                BY <3>3, <7>1
            <7> QED
                BY <3>1, <6>1, <7>2 DEF SendText
          <6>2. ASSUME NEW l \in Jobs, Publish(l) PROVE FALSE
            <7>1. PICK is \in SUBSET Instances : Publishes(l, is)
                BY <6>2, PublishDoes
            <7>2. l = k
                BY <3>3, <7>1 DEF Publishes
            <7>3. Busy(k)'
                BY <3>1, <4>2, <7>1, <7>2 DEF Publishes, Busy
            <7> QED
                BY <7>1, <7>2, <7>3 DEF Publishes
          <6>3. ASSUME NEW l \in Instances, Relay(l) PROVE FALSE
            <7>1. Hears(l)
                BY <6>3, RelayDoes
            <7>2. l = k
                BY <3>3, <7>1 DEF Hears
            <7> QED
                BY <3>1, <7>1, <7>2 DEF Hears
          <6>4. ASSUME NEW l \in Tasks, Starts(l) PROVE FALSE
            <7>1. l = k
                BY <3>3, <6>4 DEF Starts
            <7> QED
                BY <3>1, <6>4, <7>1 DEF Starts
          <6> QED
              BY <3>3, <6>1, <6>2, <6>3, <6>4, ForwardStarts, DeactivateStarts DEF Next, vars, Accept, Identify,
                 RegisterSession, HangUp, Disconnected, RelayDown, RelayUp
        <5>2. active' = [active EXCEPT ![i][p] = NULL]
            BY <3>1, <4>4, <5>1, CloseDoes
        <5> QED
            BY <5>2, Forgetting
      <4> QED
          BY <4>3, <4>4
    <3> QED
        BY <3>2, <3>3
  <2> QED
      BY <1>1, <2>1, <2>2
<1>8. CASE \E j \in Jobs, is \in SUBSET Instances : Publishes(j, is)
  <2>1. PICK j \in Jobs, is \in SUBSET Instances : Publishes(j, is)
      BY <1>8
  <2>2. Waits(i, p) => Waits(i, p)'
      BY <2>1 DEF Publishes, Waits
  <2>3. ASSUME Carried(i, p) PROVE Carried(i, p)' \/ Waits(i, p)' \/ i \in missed'
    <3>1. PICK k \in Jobs :
            /\ Busy(k) /\ job[k].msg.close /\ job[k].msg.to = p
            /\ (job[k].inst = i /\ job[k].queue # <<>>) \/ (job[k].inst # i /\ job[k].publish)
        BY <2>3 DEF Carried
    <3>2. CASE k # j
        BY <1>3, <2>1, <3>1, <3>2 DEF Publishes
    <3>3. CASE k = j
      <4>1. job[j].inst # i /\ job[j].inst = job[j].msg.origin
          BY <2>1, <3>1, <3>3 DEF Publishes, Handled, InHand
      <4>2. CASE i \in is
        <5>1. Len(inbox[i]) + 1 \in DOMAIN inbox'[i] /\ inbox'[i][Len(inbox[i]) + 1] = job[j].msg
            BY <2>1, <4>2 DEF Publishes
        <5> QED
            BY <3>1, <3>3, <4>1, <5>1 DEF Waits
      <4>3. CASE i \notin is
          BY <2>1, <3>1, <3>3, <4>1, <4>3 DEF Publishes
      <4> QED
          BY <4>2, <4>3
    <3> QED
        BY <3>2, <3>3
  <2> QED
      BY <1>1, <1>2, <2>2, <2>3
<1>9. CASE \E h \in Instances : Hears(h) /\ (TakesUp(h, inbox[h][1]) \/ (inbox[h][1].origin = h /\ job' = job))
  <2>1. PICK h \in Instances : Hears(h) /\ (TakesUp(h, inbox[h][1]) \/ (inbox[h][1].origin = h /\ job' = job))
      BY <1>9
  <2>2. Carried(i, p) => Carried(i, p)'
    <3>1. \A k \in Jobs : Busy(k) => job'[k] = job[k]
        BY <2>1 DEF Hears
    <3> QED
        BY <1>3, <3>1 DEF Carried
  <2>3. ASSUME Waits(i, p) PROVE Waits(i, p)' \/ Carried(i, p)'
    <3>1. PICK n \in DOMAIN inbox[i] : inbox[i][n].close /\ inbox[i][n].to = p /\ inbox[i][n].origin # i
        BY <2>3 DEF Waits
    <3>2. CASE i # h
        BY <1>4, <2>1, <2>3, <3>2 DEF Hears
    <3>3. CASE i = h /\ n # 1
        BY <2>1, <3>1, <3>3 DEF Hears, Waits
    <3>4. CASE i = h /\ n = 1
      <4>1. TakesUp(i, inbox[i][1])
          BY <2>1, <3>1, <3>4
      <4>2. job'[i].queue = <<<<p, NULL>>>> /\ job'[i].inst = i /\ job'[i].msg = inbox[i][1] /\ i \in Jobs
          BY <2>1, <3>1, <3>4, <4>1 DEF TakesUp, Hears
      <4>3. job'[i].queue # <<>>
          BY <4>2
      <4> QED
          BY <3>1, <3>4, <4>2, <4>3 DEF Carried, Busy
    <3> QED
        BY <3>2, <3>3, <3>4
  <2> QED
      BY <1>1, <1>2, <2>2, <2>3
<1>10. CASE \E h \in Instances : CutOff(h)
  <2>1. PICK h \in Instances : CutOff(h)
      BY <1>10
  <2>2. Carried(i, p) => Carried(i, p)'
      BY <2>1 DEF CutOff, Carried, Busy
  <2>3. Waits(i, p) => Waits(i, p)' \/ i \in missed'
      BY <1>4, <2>1 DEF CutOff, Waits
  <2> QED
      BY <1>1, <1>2, <2>2, <2>3
<1> QED
    BY <1>5, <1>6, <1>7, <1>8, <1>9, <1>10 DEF Moves

\* Where a socket comes from, and that its being late is not forgotten.
LEMMA LateStays ==
    ASSUME Basics, [Next]_vars, NEW i \in Instances, NEW p \in People, NEW c \in Conns, active'[i][p] = c
    PROVE  \/ active[i][p] = c /\ conn'[c].late = conn[c].late
           \/ conn'[c].late = out[p] /\ out' = out
<1> USE DEF Basics
<1>1. ASSUME active[i][p] = c PROVE conn[c].at = "in" /\ conn[c] \in Conn
    BY <1>1, ConnIs DEF Registered
<1>2. CASE conn' = conn /\ active' = active
    BY <1>2
<1>3. ASSUME NEW d \in Conns, NEW k \in Instances, NEW q \in People, Accept(d, k, q)
      PROVE  active[i][p] = c /\ conn'[c].late = conn[c].late
    BY <1>1, <1>3 DEF Accept, TypeOK
<1>4. ASSUME NEW d \in Conns, Identify(d) PROVE active[i][p] = c /\ conn'[c].late = conn[c].late
    BY <1>1, <1>4 DEF Identify, TypeOK
<1>5. ASSUME NEW d \in Conns, RegisterSession(d)
      PROVE  (active[i][p] = c /\ conn'[c].late = conn[c].late) \/ (conn'[c].late = out[p] /\ out' = out)
  <2>0. out' = out
      BY <1>5 DEF RegisterSession
  <2>1. CASE i = conn[d].inst /\ p = conn[d].user
      BY <1>5, <2>0, <2>1, RegisterDoes
  <2>2. CASE ~(i = conn[d].inst /\ p = conn[d].user)
    <3>1. active[i][p] = c
        BY <1>5, <2>2, RegisterDoes
    <3>2. c # d
        BY <1>1, <1>5, <3>1, RegisterDoes
    <3> QED
        BY <1>5, <3>1, <3>2, RegisterDoes
  <2> QED
      BY <2>1, <2>2
<1>6. ASSUME NEW d \in Conns, HangUp(d) PROVE active[i][p] = c /\ conn'[c].late = conn[c].late
    BY <1>1, <1>6 DEF HangUp, TypeOK, Conn
<1>7. ASSUME NEW d \in Conns, Disconnected(d) PROVE active[i][p] = c /\ conn'[c].late = conn[c].late
  <2>1. conn' = [conn EXCEPT ![d].at = "gone"] /\ conn[d].inst \in Instances /\ conn[d].user \in People
        /\ (active' = active \/ active' = [active EXCEPT ![conn[d].inst][conn[d].user] = NULL])
      BY <1>7 DEF Disconnected, Registered, TerminateSession
  <2>2. active'[i][p] \in {active[i][p], NULL}
    <3>1. CASE active' = active
        BY <3>1
    <3>2. CASE active' = [active EXCEPT ![conn[d].inst][conn[d].user] = NULL]
        BY <2>1, <3>2, Forgetting
    <3> QED
        BY <2>1, <3>1, <3>2
  <2>3. active[i][p] = c
      BY <2>2, SocketsAssumption
  <2> QED
      BY <1>1, <2>1, <2>3 DEF TypeOK, Conn
<1>8. ASSUME NEW j \in Jobs, CloseHere(j) \/ SendText(j) PROVE active[i][p] = c /\ conn'[c].late = conn[c].late
  <2>1. job[j].inst \in Instances
      BY <1>8, CloseDoes, SendDoes
  <2>2. PICK k \in Instances : k = job[j].inst
      BY <2>1
  <2>3. PICK q \in People :
          /\ active' = active \/ active' = [active EXCEPT ![k][q] = NULL]
          /\ \/ UNCHANGED conn
             \/ active[k][q] \in Conns /\ conn' = [conn EXCEPT ![active[k][q]].open = FALSE]
             \/ active[k][q] \in Conns /\ conn' = [conn EXCEPT ![active[k][q]].evicted = TRUE]
    <3>1. CASE CloseHere(j)
        BY <2>2, <3>1, CloseDoes
    <3>2. CASE SendText(j)
        BY <2>2, <3>2, SendDoes
    <3> QED
        BY <1>8, <3>1, <3>2
  <2>4. active'[i][p] \in {active[i][p], NULL}
      BY <2>3, Forgetting
  <2>5. active[i][p] = c
      BY <2>4, SocketsAssumption
  <2>6. conn[c] \in Conn /\ conn \in [Conns -> Conn]
      BY <1>1, <2>5 DEF TypeOK
  <2>7. ASSUME NEW d \in Conns, conn' = [conn EXCEPT ![d].open = FALSE] PROVE conn'[c].late = conn[c].late
      BY <2>6, <2>7 DEF Conn
  <2>8. ASSUME NEW d \in Conns, conn' = [conn EXCEPT ![d].evicted = TRUE] PROVE conn'[c].late = conn[c].late
      BY <2>6, <2>8 DEF Conn
  <2> QED
      BY <2>3, <2>5, <2>7, <2>8
<1> QED
    BY <1>2, <1>3, <1>4, <1>5, <1>6, <1>7, <1>8
       DEF Next, vars, Forward, DeactivateUser, Publish, Relay, RelayDown, RelayUp

LEMMA ClosedKept == ASSUME Basics, ClosedOrLate, [Next]_vars PROVE ClosedOrLate'
<1> USE DEF Basics
<1>1. Seated /\ Moves
    BY EveryStepMoves
<1> SUFFICES ASSUME NEW i \in Instances, NEW p \in People, NEW c \in Conns,
                    out'[p], i \notin missed', ~Due(i, p)', active'[i][p] = c
             PROVE  conn'[c].late
    BY DEF ClosedOrLate
<1>2. missed \subseteq missed'
    BY <1>1 DEF Moves, Quiet, Starts, Advances, Publishes, Hears, CutOff
<1>3. ~Due(i, p)
    BY <1>1, DueKept, SocketsAssumption
<1>4. CASE out[p]
    BY <1>2, <1>3, <1>4, LateStays DEF ClosedOrLate
<1>5. CASE ~out[p]
  <2>1. PICK j \in Tasks, k \in Instances, q \in People : DeactivateUser(j, k, q)
    <3>1. out' # out
        BY <1>5
    <3> QED
        BY <3>1 DEF Next, vars, Accept, Identify, RegisterSession, HangUp, Disconnected, Forward, CloseHere, SendText,
           Publish, Relay, RelayDown, RelayUp
  <2>2. Starts(j) /\ job'[j].msg.close /\ job'[j].msg.to = q /\ job'[j].inst = k /\ job'[j].queue # <<>>
        /\ out' = [out EXCEPT ![q] = TRUE]
      BY <2>1, DeactivateStarts
  <2>3. p = q
      BY <1>5, <2>2 DEF TypeOK
  <2>4. j \in Jobs /\ Busy(j)' /\ job'[j].publish
      BY <2>2 DEF Starts, Jobs
  <2>5. Due(i, p)'
      BY <2>2, <2>3, <2>4 DEF Due
  <2> QED
      BY <2>5
<1> QED
    BY <1>4, <1>5

-----------------------------------------------------------------------------

LEMMA InitInv == ASSUME Init PROVE Inv
<1>1. TypeOK
  <2>1. NoConn \in Conn /\ <<>> \in Seq(Message)
      BY DEF NoConn, Conn
  <2> QED
      BY <2>1, NoJobIs, SocketsAssumption DEF Init, TypeOK
<1>2. /\ \A j \in Jobs : ~Busy(j)
      /\ \A i \in Instances : DOMAIN inbox[i] = {}
      /\ \A i \in Instances, p \in People, c \in Conns : active[i][p] # c
      /\ \A c \in Conns : conn[c].at = "none"
  <2>1. \A j \in Jobs : ~Busy(j)
      BY NoJobIs DEF Init, Busy
  <2>2. \A i \in Instances : DOMAIN inbox[i] = {}
      BY DEF Init
  <2> QED
      BY <2>1, <2>2, SocketsAssumption DEF Init, NoConn
<1>3. Registered /\ Handled
    BY <1>2 DEF Registered, Handled
<1>4. OneCopy
    BY <1>2 DEF OneCopy, Jobs
<1>5. Unheard /\ HeardOnce
    BY <1>2 DEF Unheard, HeardOnce, Init, Jobs
<1>6. OnlyAFailedSendEvicts /\ ClosedOrLate
    BY <1>2 DEF OnlyAFailedSendEvicts, Latest, ClosedOrLate
<1> QED
    BY <1>1, <1>3, <1>4, <1>5, <1>6 DEF Inv, Basics

\* The invariant holds of every behaviour of the sockets.
THEOREM Invariance == Spec => []Inv
<1>1. Init => Inv
    BY InitInv
<1>2. Inv /\ [Next]_vars => Inv'
    BY BasicsKept, HeardKept, NobodyEvicted, ClosedKept DEF Inv
<1> QED
    BY <1>1, <1>2, PTL DEF Spec

\* An event is heard once by a connection, though it comes back through the
\* channel to the instance that sent it, and the latest working connection of
\* a person keeps its entry unless the send of another socket's failed.
THEOREM EventsArriveOnce == Spec => []EventsFindTheSocket
<1>1. Inv => EventsFindTheSocket
    BY DEF Inv, EventsFindTheSocket
<1> QED
    BY <1>1, Invariance, PTL

\* Once the close has gone round, a deactivated person has no socket but one
\* that was being identified at the time, on any instance that heard it.
THEOREM DeactivationIsHeard == Spec => []DeactivatedHearNothing
<1>1. ASSUME Inv, NEW i \in Instances, NEW p \in People, out[p], i \notin missed, ~Closing(i, p), active[i][p] # NULL
      PROVE  conn[active[i][p]].late
  <2>1. PICK c \in Conns : active[i][p] = c
      BY <1>1 DEF Inv, Basics, TypeOK
  <2>2. ~Due(i, p)
    <3>1. ASSUME NEW j \in Jobs, Busy(j) PROVE job[j].msg # NULL
        BY <1>1, <3>1, WhoPublishes, SocketsAssumption DEF Inv, Basics
    <3>2. ASSUME NEW n \in DOMAIN inbox[i] PROVE inbox[i][n] \in Range(inbox[i])
        BY DEF Range
    <3> QED
        BY <1>1, <3>1, <3>2 DEF Due, Closing
  <2> QED
      BY <1>1, <2>1, <2>2 DEF Inv, ClosedOrLate
<1>2. Inv => DeactivatedHearNothing
    BY <1>1 DEF DeactivatedHearNothing
<1> QED
    BY <1>2, Invariance, PTL
=============================================================================
