---------------------------- MODULE BookingProofs ----------------------------
(***************************************************************************)
(* The proofs about Reservations, for every set of transactions, resources *)
(* and requirements, in three parts.                                       *)
(*                                                                         *)
(* I.   Two holds of an exclusive resource never meet, without the         *)
(*      exclusion constraint of the reservations table.  The inductive     *)
(*      invariant is ChecksHoldToTheEnd.  A booking judges a resource      *)
(*      under its row lock; the lock keeps every other booking and every   *)
(*      mode change away until the booking's rows are committed, so what   *)
(*      it found free is still free then.  First, every action keeps the   *)
(*      types, by the steps the actions are made of.                       *)
(*                                                                         *)
(* II.  What a booking's rows have to do with the request that made them:  *)
(*      whose they are, under which key and reference, what is told of     *)
(*      them, and that a booking stands with everything it requires.       *)
(*      OneBookingPerKey, EveryChangeIsMarked, NothingHalfHeld and, where  *)
(*      one transaction runs at a time, OneWriterKeepsThem.                *)
(*                                                                         *)
(* III. The routes keep the ledger of BookingLedger, and no pool has more  *)
(*      out than it has.  The inductive invariant is Ready: the room a     *)
(*      booking found, of units as of hours, is there until it ends.       *)
(***************************************************************************)
EXTENDS Reservations, WindowsProofs, SequenceTheorems

(* I. The operators the model is built from. *)

\* What is stored of a padded window is a date and two times that differ, or
\* nothing is.
LEMMA PaddedRowType ==
    ASSUME NEW win \in Spans, NEW before \in Nat, NEW after \in Nat
    PROVE  \/ PaddedRow(win, before, after) = NoWindow
           \/ \E d \in Int, s, e \in 0..(Day - 1) : s # e /\ PaddedRow(win, before, after) = <<d, s, e>>
<1> DEFINE starts == win[1] - before
           ends   == win[2] + after
           day    == win[1] \div Day
<1>1. /\ win[1] \in Int /\ win[2] \in Int /\ win[1] < win[2] /\ win[2] < win[1] + Day
      /\ starts \in Int /\ ends \in Int /\ Day \in Int
  BY DayIs DEF Spans
<1>2. /\ day \in Int /\ win[1] % Day \in 0..(Day - 1) /\ win[2] % Day \in 0..(Day - 1)
      /\ starts % Day \in 0..(Day - 1) /\ ends % Day \in 0..(Day - 1)
  <2> HIDE DEF starts, ends, day
  <2> QED BY <1>1, InstantIs DEF day
<1>3. win[1] % Day # win[2] % Day
  <2>1. win[1] = Day * day + (win[1] % Day) /\ Day * day \in Int  BY <1>1, <1>2, InstantIs, NextDate
  <2>2. Day * day <= win[1] /\ win[1] < Day * day + Day
    <3> DEFINE m == win[1] % Day
               D == Day * day
    <3>1. m \in Int /\ 0 <= m /\ m < Day /\ D \in Int /\ win[1] = D + m  BY <1>1, <1>2, <2>1
    <3> HIDE DEF m, D
    <3>2. D <= win[1] /\ win[1] < D + Day  BY <1>1, <3>1
    <3> QED BY <3>2 DEF D
  <2> HIDE DEF day
  <2> QED BY <1>1, <1>2, <2>2, ReadBack
<1>4. \/ PaddedRow(win, before, after) = <<day, win[1] % Day, win[2] % Day>>
      \/ PaddedRow(win, before, after) = NoWindow
      \/ PaddedRow(win, before, after) = <<day, starts % Day, ends % Day>> /\ starts % Day # ends % Day
  BY DEF PaddedRow
<1> HIDE DEF starts, ends, day
<1> QED BY <1>2, <1>3, <1>4

\* A padded window is a span, or none: shorter than a day, and not empty.
LEMMA PaddedType ==
    ASSUME NEW win \in Spans, NEW before \in Nat, NEW after \in Nat
    PROVE  Padded(win, before, after) \in Spans \cup {NoWindow}
<1>1. CASE PaddedRow(win, before, after) = NoWindow
  BY <1>1 DEF Padded
<1>2. CASE PaddedRow(win, before, after) # NoWindow
  <2>1. PICK d \in Int, s \in 0..(Day - 1), e \in 0..(Day - 1) :
          s # e /\ PaddedRow(win, before, after) = <<d, s, e>>
    BY <1>2, PaddedRowType
  <2> DEFINE span == WindowSpan(d, s, e)
  <2>2. Padded(win, before, after) = span  BY <1>2, <2>1 DEF Padded
  <2>3. span[1] \in Int /\ span[2] \in Int /\ span[1] < span[2] /\ span[2] < span[1] + Day
    BY <2>1, SpanIs
  <2>4. span = <<span[1], span[2]>>  BY DEF WindowSpan
  <2> HIDE DEF span
  <2>5. span \in Spans  BY <2>3, <2>4 DEF Spans
  <2> QED BY <2>2, <2>5
<1> QED BY <1>1, <1>2

\* A function on 1..n is a sequence.
LEMMA FunctionIsSeq ==
    ASSUME NEW S, NEW n \in Nat, NEW f \in [1..n -> S]
    PROVE  f \in Seq(S)
BY SeqDef

\* One thing to do, put before a list, makes a list.
LEMMA PushType ==
    ASSUME NEW S, NEW item \in S, NEW rest \in Seq(S)
    PROVE  <<item>> \o rest \in Seq(S)
<1>1. <<item>> \in Seq(S)  OBVIOUS
<1> QED BY <1>1, ConcatProperties

\* The item that locks the named targets of one owner is a list of things to do.
LEMMA ToLockType ==
    ASSUME NEW rids \in SUBSET Resources
    PROVE  ToLock(rids) \in Seq(Item)
<1>1. [do |-> "lock", rids |-> rids] \in Item  BY DEF Item, LockItem
<1> HIDE DEF Item
<1>2. <<[do |-> "lock", rids |-> rids]>> \in Seq(Item)  BY <1>1
<1>3. <<>> \in Seq(Item)  OBVIOUS
<1> QED BY <1>2, <1>3 DEF ToLock

\* The walk of one owner's requirements is a list of things to do.
LEMMA WalkType ==
    ASSUME NEW rid \in Resources, NEW win \in Spans, NEW depth \in Nat
    PROVE  Walk(rid, win, depth) \in Seq(Item)
<1> DEFINE n == Len(Reqs[rid])
           rows == [i \in DOMAIN Reqs[rid] |->
                      [do |-> "row", row |-> Reqs[rid][i], win |-> win, depth |-> depth]]
<1>1. Reqs[rid] \in Seq(Requirement)  BY RequirementsAssumption
<1>2. /\ DOMAIN Reqs[rid] = 1..n /\ n \in Nat
      /\ \A i \in 1..n : Reqs[rid][i] \in Requirement
  BY <1>1, ElementOfSeq, LenProperties
<1>3. rows \in Seq(Item)
  <2>1. \A i \in 1..n : [do |-> "row", row |-> Reqs[rid][i], win |-> win, depth |-> depth] \in Item
    BY <1>2 DEF Item, RowItem
  <2> HIDE DEF Item, n
  <2>2. rows \in [1..n -> Item]  BY <2>1, <1>2
  <2> HIDE DEF rows
  <2> QED BY <2>2, <1>2, FunctionIsSeq
<1>4. NamedTargets(rid) \in SUBSET Resources
  <2>1. \A i \in 1..n : Reqs[rid][i].target \in Resources \cup {NoTarget}  BY <1>2 DEF Requirement
  <2> HIDE DEF n
  <2> QED BY <2>1, <1>2 DEF NamedTargets
<1> HIDE DEF rows
<1>5. ToLock(NamedTargets(rid)) \in Seq(Item)  BY <1>4, ToLockType
<1> QED BY <1>3, <1>5, ConcatProperties DEF Walk, rows
-----------------------------------------------------------------------------
(* The rows a booking writes. *)

\* _fingerprint of a booking request is a fingerprint.
LEMMA FingerprintType ==
    ASSUME NEW r \in BookRequest
    PROVE  Fingerprint(r) \in Fingerprints
BY DEF BookRequest, Fingerprint, Fingerprints

\* The row create_reservation adds is a row of the table, on the resource asked for.
LEMMA ParentRowType ==
    ASSUME TypeOK, NEW t \in Txns, req[t] \in BookRequest
    PROVE  ParentRow(t) \in Row /\ ParentRow(t).rid = req[t].rid
<1>1. Fingerprint(req[t]) \in Fingerprints  BY FingerprintType
<1>2. /\ req[t].rid \in Resources /\ req[t].win \in Spans /\ req[t].by \in Callers
      /\ req[t].key \in Keys /\ req[t].ref \in Refs \cup {NoRef} /\ req[t].qty \in Nat \ {0}
  BY DEF BookRequest
<1>3. res[req[t].rid].mode \in Modes  BY <1>2 DEF TypeOK, TablesOK, Resource
<1> QED BY <1>1, <1>2, <1>3 DEF ParentRow, Row, Ids

\* The row _hold adds is a row of the table.
LEMMA ChildRowType ==
    ASSUME TypeOK, NEW t \in Txns, req[t] \in BookRequest,
           NEW rid \in Resources, NEW win \in Spans, NEW qty \in Nat \ {0}
    PROVE  ChildRow(t, rid, win, qty) \in Row
<1>1. Fingerprint(req[t]) \in Fingerprints  BY FingerprintType
<1>2. req[t].rid \in Resources /\ req[t].by \in Callers /\ req[t].key \in Keys
  BY DEF BookRequest
<1>3. res[rid].mode \in Modes  BY DEF TypeOK, TablesOK, Resource
<1>4. Cardinality(pend[t]) \in Nat  BY FS_CardinalityType DEF TypeOK, TxnsOK
<1> HIDE DEF Fingerprints
<1> QED BY <1>1, <1>2, <1>3, <1>4 DEF ChildRow, Row, Ids
-----------------------------------------------------------------------------
(* What the ways a transaction goes on do to the types. *)

Walker == [agenda : Seq(Item), used : SUBSET Resources, left : Assigns]

\* Outside a booking there is a walk with nothing to do.
LEMMA NoRunType == NoRun \in Walker
<1>1. <<>> \in Seq(Item) /\ <<>> \in Seq(Resources)  OBVIOUS
<1> HIDE DEF Item
<1> QED BY <1>1 DEF NoRun, Walker, Assigns

\* Letting go of the locks of one transaction leaves a table of locks.
LEMMA UnlockedType ==
    ASSUME TxnsOK, NEW t \in Txns
    PROVE  Unlocked(t) \in [Resources -> Txns \cup {Nobody}]
BY DEF TxnsOK, Unlocked

\* A transaction that ends, by commit or rollback, keeps the types of all of them.
LEMMA FinishType ==
    ASSUME TxnsOK, NEW t \in Txns, NEW code \in Codes, NEW row \in Ids \cup {NoRow},
           Finish(t, code, row)
    PROVE  TxnsOK'
<1>1. /\ pc' = [pc EXCEPT ![t] = "done"]
      /\ answer' = [answer EXCEPT ![t] = [code |-> code, row |-> row]]
      /\ lock' = Unlocked(t) /\ pend' = [pend EXCEPT ![t] = {}]
      /\ run' = [run EXCEPT ![t] = NoRun] /\ req' = req
  BY DEF Finish, Goto
<1>2. lock' \in [Resources -> Txns \cup {Nobody}]  BY <1>1, UnlockedType
<1>3. pc' \in [Txns -> Places]  BY <1>1 DEF TxnsOK, Places
<1>4. req' \in [Txns -> Request] /\ \A u \in Txns : Placed(u)'
  BY <1>1 DEF TxnsOK, Placed
<1>5. pend' \in [Txns -> SUBSET Row] /\ \A u \in Txns : IsFiniteSet(pend'[u])
  BY <1>1, FS_EmptySet DEF TxnsOK
<1>6. run' \in [Txns -> Walker]
  <2> HIDE DEF Walker
  <2> QED BY <1>1, NoRunType DEF TxnsOK, Walker
<1>7. answer' \in [Txns -> [code : Codes, row : Ids \cup {NoRow}]]
  BY <1>1 DEF TxnsOK
<1> QED BY <1>2, <1>3, <1>4, <1>5, <1>6, <1>7 DEF TxnsOK, Walker

\* An early return or an error path of a route keeps the types.
LEMMA RefuseType ==
    ASSUME TypeOK, NEW t \in Txns, NEW code \in Codes, NEW row \in Ids \cup {NoRow},
           Refuse(t, code, row)
    PROVE  TypeOK'
<1>1. TxnsOK'  BY FinishType DEF TypeOK, Refuse
<1>2. TablesOK'  BY DEF TypeOK, TablesOK, Refuse, tables
<1> QED BY <1>1, <1>2 DEF TypeOK

\* A rollback after which the request goes on keeps the types.
LEMMA RollbackType ==
    ASSUME TypeOK, NEW t \in Txns, NEW where \in {"lost", "referlost"},
           where = "lost" => req[t] \in BookRequest,
           where = "referlost" => req[t] \in ReferRequest,
           Rollback(t, where)
    PROVE  TypeOK'
<1>1. /\ pc' = [pc EXCEPT ![t] = where] /\ lock' = Unlocked(t)
      /\ pend' = [pend EXCEPT ![t] = {}] /\ run' = [run EXCEPT ![t] = NoRun]
      /\ req' = req /\ answer' = answer
      /\ res' = res /\ reservations' = reservations /\ slots' = slots /\ feed' = feed
  BY DEF Rollback, Goto, tables
<1>2. lock' \in [Resources -> Txns \cup {Nobody}]  BY <1>1, UnlockedType DEF TypeOK
<1>3. pc' \in [Txns -> Places]  BY <1>1 DEF TypeOK, TxnsOK, Places
<1>4. req' \in [Txns -> Request] /\ \A u \in Txns : Placed(u)'
  BY <1>1 DEF TypeOK, TxnsOK, Placed
<1>5. pend' \in [Txns -> SUBSET Row] /\ \A u \in Txns : IsFiniteSet(pend'[u])
  BY <1>1, FS_EmptySet DEF TypeOK, TxnsOK
<1>6. run' \in [Txns -> Walker]
  <2> HIDE DEF Walker
  <2> QED BY <1>1, NoRunType DEF TypeOK, TxnsOK, Walker
<1>7. answer' \in [Txns -> [code : Codes, row : Ids \cup {NoRow}]]
  BY <1>1 DEF TypeOK, TxnsOK
<1>8. TablesOK'  BY <1>1 DEF TypeOK, TablesOK
<1> QED BY <1>2, <1>3, <1>4, <1>5, <1>6, <1>7, <1>8 DEF TypeOK, TxnsOK, Walker

\* A transaction that only moves on, to a place its request may be at.
LEMMA GotoType ==
    ASSUME TypeOK, NEW t \in Txns, NEW where \in Places,
           where \in {"flush", "walk", "lost"} => req[t] \in BookRequest,
           where \in {"cancel", "letgo"} => req[t] \in CancelRequest,
           where \in {"refer", "referlost"} => req[t] \in ReferRequest,
           where = "slot" => req[t] \in SlotRequest,
           Goto(t, where), UNCHANGED <<tables, req, pend, run, answer>>,
           lock' \in [Resources -> Txns \cup {Nobody}]
    PROVE  TypeOK'
<1>1. pc' \in [Txns -> Places] /\ \A u \in Txns : Placed(u)'
  BY DEF TypeOK, TxnsOK, Goto, Placed
<1>2. TablesOK'  BY DEF TypeOK, TablesOK, tables
<1> QED BY <1>1, <1>2 DEF TypeOK, TxnsOK

\* The walk goes on with another list, and no new row.
LEMMA ThenType ==
    ASSUME TypeOK, NEW t \in Txns, NEW walker \in Walker,
           run' = [run EXCEPT ![t] = walker], UNCHANGED <<tables, pc, req, pend, answer>>,
           lock' \in [Resources -> Txns \cup {Nobody}]
    PROVE  TypeOK'
<1>1. run' \in [Txns -> Walker]
  <2> HIDE DEF Walker
  <2> QED BY DEF TypeOK, TxnsOK, Walker
<1>2. TablesOK'  BY DEF TypeOK, TablesOK, tables
<1>3. \A u \in Txns : Placed(u)'  BY DEF TypeOK, TxnsOK, Placed
<1> QED BY <1>1, <1>2, <1>3 DEF TypeOK, TxnsOK, Walker

\* The walk goes on with another list and one more row.
LEMMA HoldType ==
    ASSUME TypeOK, NEW t \in Txns, req[t] \in BookRequest,
           NEW rid \in Resources, NEW win \in Spans, NEW qty \in Nat \ {0}, NEW depth \in Nat,
           NEW left \in Assigns, NEW after \in Seq(Item), Hold(t, rid, win, qty, depth, left, after),
           lock' \in [Resources -> Txns \cup {Nobody}]
    PROVE  TypeOK'
<1>1. ChildRow(t, rid, win, qty) \in Row  BY ChildRowType
<1>2. Walk(rid, win, depth + 1) \o after \in Seq(Item)  BY WalkType, ConcatProperties
<1>3. pend' \in [Txns -> SUBSET Row] /\ \A u \in Txns : IsFiniteSet(pend'[u])
  <2> DEFINE more == pend[t] \cup {ChildRow(t, rid, win, qty)}
  <2>1. pend[t] \in SUBSET Row /\ IsFiniteSet(pend[t])  BY DEF TypeOK, TxnsOK
  <2>2. IsFiniteSet(more)  BY <2>1, FS_AddElement
  <2> HIDE DEF Row
  <2>3. more \in SUBSET Row  BY <1>1, <2>1
  <2>4. pend' = [pend EXCEPT ![t] = more]  BY DEF Hold
  <2> HIDE DEF more
  <2> QED BY <2>2, <2>3, <2>4 DEF TypeOK, TxnsOK
<1>4. run' \in [Txns -> Walker]
  <2> HIDE DEF Item, Assigns
  <2> QED BY <1>2 DEF TypeOK, TxnsOK, Hold, Walker
<1>5. TablesOK'  BY DEF TypeOK, TablesOK, tables, Hold
<1>6. \A u \in Txns : Placed(u)'  BY DEF TypeOK, TxnsOK, Placed, Hold
<1> QED BY <1>3, <1>4, <1>5, <1>6 DEF TypeOK, TxnsOK, Walker, Hold
-----------------------------------------------------------------------------
(* The type invariant, action by action. *)

\* The reservation a refused booking is told of is one of the table, or none.
LEMMA NamedType ==
    ASSUME TypeOK, NEW r \in BookRequest, NEW verdict \in Codes,
           verdict = "replayed" => ByKey(r) # {},
           verdict = "reference taken" => ByRef(r.by, r.ref) # {}
    PROVE  Named(r, verdict) \in Ids \cup {NoRow}
<1>1. \A b \in reservations : b.id \in Ids  BY DEF TypeOK, TablesOK, Row
<1>2. CASE verdict = "replayed"
  BY <1>1, <1>2 DEF Named, ByKey
<1>3. CASE verdict = "reference taken"
  BY <1>1, <1>3 DEF Named, ByRef
<1>4. CASE verdict # "replayed" /\ verdict # "reference taken"
  BY <1>4 DEF Named
<1> QED BY <1>2, <1>3, <1>4

\* A route is handed the request it is for.
LEMMA StartsType ==
    ASSUME TypeOK, NEW t \in Txns, NEW op, Starts(t, op)
    PROVE  /\ op = "book" => req[t] \in BookRequest
           /\ op = "cancel" => req[t] \in CancelRequest
           /\ op = "refer" => req[t] \in ReferRequest
           /\ op = "change" => req[t] \in ChangeRequest
           /\ op = "slot" => req[t] \in SlotRequest
           /\ op = "unslot" => req[t] \in UnslotRequest
<1>1. req[t] \in Request /\ req[t].op = op  BY DEF TypeOK, TxnsOK, Starts
<1> QED BY <1>1 DEF Request, BookRequest, CancelRequest, ReferRequest, ChangeRequest,
                    SlotRequest, UnslotRequest

\* The steps of create_reservation before the walk keep the types.
LEMMA TypeBook ==
    ASSUME TypeOK, NEW t \in Txns,
           BookRefused(t) \/ BookAdmitted(t) \/ FlushTaken(t) \/ FlushLost(t) \/ Lost(t)
    PROVE  TypeOK'
<1>1. CASE BookRefused(t)
  <2>1. req[t] \in BookRequest  BY <1>1, StartsType DEF BookRefused
  <2>2. /\ Verdict(req[t]) \in Codes \cup {"go"}
        /\ Verdict(req[t]) = "replayed" => ByKey(req[t]) # {}
        /\ Verdict(req[t]) = "reference taken" => ByRef(req[t].by, req[t].ref) # {}
    BY DEF Verdict, Codes
  <2>3. Named(req[t], Verdict(req[t])) \in Ids \cup {NoRow}  BY <1>1, <2>1, <2>2, NamedType DEF BookRefused
  <2> QED BY <1>1, <2>2, <2>3, RefuseType DEF BookRefused
<1>2. CASE BookAdmitted(t)
  <2>1. req[t] \in BookRequest  BY <1>2, StartsType DEF BookAdmitted
  <2>2. lock' \in [Resources -> Txns \cup {Nobody}]
    BY <1>2, <2>1 DEF BookAdmitted, TypeOK, TxnsOK, BookRequest
  <2>3. Goto(t, "flush") /\ UNCHANGED <<tables, req, pend, run, answer>>
    BY <1>2 DEF BookAdmitted
  <2> QED BY <2>1, <2>2, <2>3, GotoType DEF Places
<1>3. CASE FlushTaken(t)
  <2>1. req[t] \in BookRequest  BY <1>3 DEF FlushTaken, TypeOK, TxnsOK, Placed
  <2>2. ParentRow(t) \in Row  BY <2>1, ParentRowType
  <2> DEFINE walker == [agenda |-> Walk(req[t].rid, req[t].win, 1),
                        used |-> {req[t].rid}, left |-> req[t].assign]
  <2>3. walker \in Walker
    <3>1. req[t].rid \in Resources /\ req[t].win \in Spans /\ req[t].assign \in Assigns
      BY <2>1 DEF BookRequest
    <3>2. Walk(req[t].rid, req[t].win, 1) \in Seq(Item)  BY <3>1, WalkType
    <3> HIDE DEF Item, Assigns
    <3> QED BY <3>1, <3>2 DEF Walker
  <2>4. /\ run' = [run EXCEPT ![t] = walker] /\ pend' = [pend EXCEPT ![t] = {ParentRow(t)}]
        /\ pc' = [pc EXCEPT ![t] = "walk"] /\ UNCHANGED <<tables, lock, req, answer>>
    BY <1>3 DEF FlushTaken, Goto
  <2> HIDE DEF walker
  <2>5. run' \in [Txns -> Walker]
    <3> HIDE DEF Walker
    <3> QED BY <2>3, <2>4 DEF TypeOK, TxnsOK, Walker
  <2>6. pend' \in [Txns -> SUBSET Row] /\ \A u \in Txns : IsFiniteSet(pend'[u])
    <3>1. IsFiniteSet({ParentRow(t)})  BY FS_Singleton
    <3> HIDE DEF Row
    <3> QED BY <2>2, <2>4, <3>1 DEF TypeOK, TxnsOK
  <2>7. pc' \in [Txns -> Places] /\ \A u \in Txns : Placed(u)'
    BY <2>1, <2>4 DEF TypeOK, TxnsOK, Places, Placed
  <2>8. TablesOK'  BY <2>4 DEF TypeOK, TablesOK, tables
  <2> QED BY <2>4, <2>5, <2>6, <2>7, <2>8 DEF TypeOK, TxnsOK, Walker
<1>4. CASE FlushLost(t)
  <2>1. req[t] \in BookRequest  BY <1>4 DEF FlushLost, TypeOK, TxnsOK, Placed
  <2>2. Rollback(t, "lost")  BY <1>4 DEF FlushLost
  <2> QED BY <2>1, <2>2, RollbackType
<1>5. CASE Lost(t)
  <2>1. req[t] \in BookRequest  BY <1>5 DEF Lost, TypeOK, TxnsOK, Placed
  <2>2. PICK verdict \in Codes :
          /\ verdict = "replayed" => ByKey(req[t]) # {}
          /\ verdict = "reference taken" => ByRef(req[t].by, req[t].ref) # {}
          /\ Refuse(t, verdict, Named(req[t], verdict))
    BY <1>5 DEF Lost, Codes
  <2>3. Named(req[t], verdict) \in Ids \cup {NoRow}  BY <2>1, <2>2, NamedType
  <2> QED BY <2>2, <2>3, RefuseType
<1> QED BY <1>1, <1>2, <1>3, <1>4, <1>5

\* What a walk has at the head of its list, by what is to be done.
LEMMA WalkingItem ==
    ASSUME TypeOK, NEW t \in Txns, NEW do, Walking(t, do)
    PROVE  /\ req[t] \in BookRequest
           /\ run[t] \in Walker /\ run[t].agenda \in Seq(Item) /\ run[t].agenda # <<>>
           /\ Tail(run[t].agenda) \in Seq(Item)
           /\ do = "lock" => Head(run[t].agenda) \in LockItem
           /\ do = "row" => Head(run[t].agenda) \in RowItem
           /\ do = "kind" => Head(run[t].agenda) \in KindItem
<1>1. req[t] \in BookRequest  BY DEF Walking, TypeOK, TxnsOK, Placed
<1>2. run[t] \in Walker /\ run[t].agenda \in Seq(Item) /\ run[t].agenda # <<>>
  BY DEF Walking, TypeOK, TxnsOK, Walker
<1>3. Head(run[t].agenda) \in Item /\ Tail(run[t].agenda) \in Seq(Item)
  <2> HIDE DEF Item
  <2> QED BY <1>2, HeadTailProperties
<1>4. Head(run[t].agenda).do = do  BY DEF Walking
<1> QED BY <1>1, <1>2, <1>3, <1>4 DEF Item, LockItem, RowItem, KindItem

\* A walk with another list of things to do is a walk.
LEMMA WithAgenda ==
    ASSUME NEW walker \in Walker, NEW agenda \in Seq(Item)
    PROVE  [walker EXCEPT !.agenda = agenda] \in Walker
<1> HIDE DEF Item, Assigns
<1> QED BY DEF Walker

\* The common shape of a walk's step: another list of things to do.
LEMMA ThenAgendaType ==
    ASSUME TypeOK, NEW t \in Txns, NEW agenda \in Seq(Item), Then(t, agenda)
    PROVE  TypeOK'
<1>1. run[t] \in Walker  BY DEF TypeOK, TxnsOK, Walker
<1>2. [run[t] EXCEPT !.agenda = agenda] \in Walker  BY <1>1, WithAgenda
<1>3. run' = [run EXCEPT ![t] = [run[t] EXCEPT !.agenda = agenda]]  BY DEF Then
<1>4. lock' \in [Resources -> Txns \cup {Nobody}] /\ UNCHANGED <<tables, pc, req, pend, answer>>
  BY DEF Then, TypeOK, TxnsOK
<1> QED BY <1>2, <1>3, <1>4, ThenType

\* A gap in what is required, _miss, keeps the types.
LEMMA MissType ==
    ASSUME TypeOK, NEW t \in Txns, NEW row, Tail(run[t].agenda) \in Seq(Item), Miss(t, row)
    PROVE  TypeOK'
<1>1. CASE Refuse(t, "requirement unsatisfied", NoRow)
  BY <1>1, RefuseType DEF Codes
<1>2. CASE Then(t, Tail(run[t].agenda))
  BY <1>2, ThenAgendaType
<1> QED BY <1>1, <1>2 DEF Miss

\* Locking the named targets keeps the types.
LEMMA TypeWalkLock ==
    ASSUME TypeOK, NEW t \in Txns, WalkLock(t)
    PROVE  TypeOK'
<1> DEFINE rids == Head(run[t].agenda).rids
<1>1. Walking(t, "lock")  BY DEF WalkLock
<1>2. /\ rids \in SUBSET Resources /\ run[t] \in Walker
      /\ Tail(run[t].agenda) \in Seq(Item)
  BY <1>1, WalkingItem DEF LockItem
<1>3. PICK rid \in rids :
        /\ lock' = [lock EXCEPT ![rid] = t]
        /\ run' = [run EXCEPT ![t] = [run[t] EXCEPT !.agenda = ToLock(rids \ {rid}) \o Tail(run[t].agenda)]]
        /\ UNCHANGED <<tables, pc, req, pend, answer>>
  BY DEF WalkLock, Lowest
<1> HIDE DEF rids
<1>4. ToLock(rids \ {rid}) \o Tail(run[t].agenda) \in Seq(Item)
  BY <1>2, ToLockType, ConcatProperties
<1>5. [run[t] EXCEPT !.agenda = ToLock(rids \ {rid}) \o Tail(run[t].agenda)] \in Walker
  BY <1>2, <1>4, WithAgenda
<1>6. lock' \in [Resources -> Txns \cup {Nobody}]  BY <1>2, <1>3 DEF TypeOK, TxnsOK
<1> QED BY <1>3, <1>5, <1>6, ThenType

\* What a requirement at the head of the list consists of.
LEMMA RowItemFields ==
    ASSUME NEW item \in RowItem
    PROVE  /\ item.row \in Requirement /\ item.win \in Spans /\ item.depth \in Nat
           /\ item.row.target \in Resources \cup {NoTarget} /\ item.row.kind \in Kinds
           /\ item.row.qty \in Nat \ {0}
           /\ RowWindow(item) \in Spans \cup {NoWindow}
<1>1. item.row \in Requirement /\ item.win \in Spans /\ item.depth \in Nat  BY DEF RowItem
<1>2. item.row.before \in Nat /\ item.row.after \in Nat  BY <1>1 DEF Requirement
<1>3. RowWindow(item) \in Spans \cup {NoWindow}  BY <1>1, <1>2, PaddedType DEF RowWindow
<1> QED BY <1>1, <1>3 DEF Requirement

\* Taking one requirement, as _walk and _named do, keeps the types.
LEMMA TypeWalkRow ==
    ASSUME TypeOK, NEW t \in Txns,
           WalkTooDeep(t) \/ WalkPastMidnight(t) \/ WalkNamed(t) \/ WalkKind(t)
    PROVE  TypeOK'
<1> DEFINE item == Head(run[t].agenda)
           rest == Tail(run[t].agenda)
<1>1. Walking(t, "row")  BY DEF WalkTooDeep, WalkPastMidnight, WalkNamed, WalkKind
<1>2. /\ req[t] \in BookRequest /\ run[t] \in Walker /\ item \in RowItem /\ rest \in Seq(Item)
  BY <1>1, WalkingItem
<1>3. /\ item.row \in Requirement /\ item.win \in Spans /\ item.depth \in Nat
      /\ item.row.target \in Resources \cup {NoTarget} /\ item.row.kind \in Kinds
      /\ item.row.qty \in Nat \ {0} /\ RowWindow(item) \in Spans \cup {NoWindow}
  BY <1>2, RowItemFields
<1>4. CASE WalkTooDeep(t)
  BY <1>2, <1>4, MissType DEF WalkTooDeep
<1>5. CASE WalkPastMidnight(t)
  BY <1>5, RefuseType DEF WalkPastMidnight, Codes
<1>6. CASE WalkNamed(t)
  <2> DEFINE rid == item.row.target
             win == RowWindow(item)
             qty == IF res[rid].mode = "POOLED" THEN item.row.qty ELSE 1
  <2>1. rid \in Resources /\ win \in Spans /\ qty \in Nat \ {0}
    BY <1>3, <1>6 DEF WalkNamed
  <2>2. CASE Miss(t, item.row)  BY <1>2, <2>2, MissType
  <2>3. CASE Hold(t, rid, win, qty, item.depth, run[t].left, rest) /\ UNCHANGED lock
    <3>1. run[t].left \in Assigns  BY <1>2 DEF Walker
    <3>2. lock' \in [Resources -> Txns \cup {Nobody}]  BY <2>3 DEF TypeOK, TxnsOK
    <3> HIDE DEF rid, win, qty, rest
    <3> QED BY <1>2, <1>3, <2>1, <2>3, <3>1, <3>2, HoldType
  <2> QED BY <1>6, <2>2, <2>3 DEF WalkNamed
<1>7. CASE WalkKind(t)
  <2> DEFINE kind == [do |-> "kind", row |-> item.row, win |-> RowWindow(item), depth |-> item.depth,
                      got |-> 0, missed |-> 0, scanned |-> FALSE, cands |-> {}]
  <2>1. RowWindow(item) \in Spans /\ Then(t, <<kind>> \o rest)  BY <1>3, <1>7 DEF WalkKind
  <2>2. kind \in Item  BY <1>3, <2>1 DEF Item, KindItem
  <2> HIDE DEF kind, Item, rest
  <2>3. <<kind>> \o rest \in Seq(Item)  BY <1>2, <2>2, PushType
  <2> QED BY <2>1, <2>3, ThenAgendaType
<1> QED BY <1>4, <1>5, <1>6, <1>7

\* What _kind changes of the requirement it is filling leaves it one.
LEMMA KindItemSteps ==
    ASSUME NEW item \in KindItem
    PROVE  /\ item.win \in Spans /\ item.depth \in Nat /\ item.row.kind \in Kinds
           /\ [item EXCEPT !.got = @ + 1] \in KindItem
           /\ [item EXCEPT !.missed = @ + 1] \in KindItem
           /\ \A rid : [item EXCEPT !.cands = @ \ {rid}] \in KindItem
<1>1. item.row.kind \in Kinds  BY DEF KindItem, Requirement
<1> QED BY <1>1 DEF KindItem

\* Holding one unit keeps the types.
LEMMA HoldOneType ==
    ASSUME TypeOK, NEW t \in Txns, req[t] \in BookRequest,
           NEW rid \in Resources, NEW win \in Spans, NEW depth \in Nat,
           NEW left \in Assigns, NEW after \in Seq(Item), Hold(t, rid, win, 1, depth, left, after),
           lock' \in [Resources -> Txns \cup {Nobody}]
    PROVE  TypeOK'
<1>1. 1 \in Nat \ {0}  OBVIOUS
<1> QED BY <1>1, HoldType

\* Using a resource the caller assigned keeps the types.
LEMMA TypeKindAssigned ==
    ASSUME TypeOK, NEW t \in Txns, KindAssigned(t)
    PROVE  TypeOK'
<1> DEFINE item == Head(run[t].agenda)
           kind == item.row.kind
           rid  == Head(run[t].left[kind])
           left == [run[t].left EXCEPT ![kind] = Tail(run[t].left[kind])]
           missed == <<[item EXCEPT !.missed = @ + 1]>> \o Tail(run[t].agenda)
           got    == <<[item EXCEPT !.got = @ + 1]>> \o Tail(run[t].agenda)
<1>1. Walking(t, "kind")  BY DEF KindAssigned
<1>2. /\ req[t] \in BookRequest /\ run[t] \in Walker /\ item \in KindItem
      /\ Tail(run[t].agenda) \in Seq(Item)
  BY <1>1, WalkingItem
<1>3. item.win \in Spans /\ item.depth \in Nat /\ kind \in Kinds
  BY <1>2, KindItemSteps
<1>4. run[t].left \in Assigns /\ run[t].left[kind] \in Seq(Resources) /\ run[t].left[kind] # <<>>
  BY <1>2, <1>3 DEF Walker, Assigns, KindAssigned
<1>5. rid \in Resources /\ Tail(run[t].left[kind]) \in Seq(Resources)
  BY <1>4, HeadTailProperties
<1>6. left \in Assigns  BY <1>4, <1>5 DEF Assigns
<1>7. lock' \in [Resources -> Txns \cup {Nobody}]
  BY <1>5 DEF KindAssigned, TypeOK, TxnsOK
<1>8. missed \in Seq(Item) /\ got \in Seq(Item)
  <2>1. [item EXCEPT !.missed = @ + 1] \in Item /\ [item EXCEPT !.got = @ + 1] \in Item
    BY <1>2, KindItemSteps DEF Item
  <2> HIDE DEF Item
  <2> QED BY <1>2, <2>1, PushType
<1>9. \/ /\ run' = [run EXCEPT ![t] = [run[t] EXCEPT !.left = left, !.agenda = missed]]
         /\ UNCHANGED <<tables, pc, req, pend, answer>>
      \/ Hold(t, rid, item.win, 1, item.depth, left, got)
  BY DEF KindAssigned
<1> HIDE DEF item, kind, rid, left, missed, got
<1>10. CASE /\ run' = [run EXCEPT ![t] = [run[t] EXCEPT !.left = left, !.agenda = missed]]
            /\ UNCHANGED <<tables, pc, req, pend, answer>>
  <2>1. [run[t] EXCEPT !.left = left, !.agenda = missed] \in Walker
    <3> HIDE DEF Assigns, Item
    <3> QED BY <1>2, <1>6, <1>8 DEF Walker
  <2> QED BY <1>7, <1>10, <2>1, ThenType
<1>11. CASE Hold(t, rid, item.win, 1, item.depth, left, got)
  BY <1>2, <1>3, <1>5, <1>6, <1>7, <1>8, <1>11, HoldOneType
<1> QED BY <1>9, <1>10, <1>11

\* Reading the candidates of a kind keeps the types.
LEMMA TypeKindScan ==
    ASSUME TypeOK, NEW t \in Txns, KindScan(t)
    PROVE  TypeOK'
<1> DEFINE item == Head(run[t].agenda)
           read == [item EXCEPT !.scanned = TRUE,
                      !.cands = {r \in Resources : KindOf[r] = item.row.kind /\ res[r].active}]
<1>1. Walking(t, "kind") /\ Then(t, <<read>> \o Tail(run[t].agenda))  BY DEF KindScan
<1>2. item \in KindItem /\ Tail(run[t].agenda) \in Seq(Item)  BY <1>1, WalkingItem
<1>3. read \in Item  BY <1>2 DEF Item, KindItem
<1> HIDE DEF Item, read
<1>4. <<read>> \o Tail(run[t].agenda) \in Seq(Item)  BY <1>2, <1>3, PushType
<1> QED BY <1>1, <1>4, ThenAgendaType

\* Trying the next candidate keeps the types.
LEMMA TypeKindPick ==
    ASSUME TypeOK, NEW t \in Txns, KindPick(t)
    PROVE  TypeOK'
<1> DEFINE head == Head(run[t].agenda)
<1>1. Walking(t, "kind")  BY DEF KindPick
<1>2. /\ req[t] \in BookRequest /\ run[t] \in Walker /\ head \in KindItem
      /\ Tail(run[t].agenda) \in Seq(Item)
  BY <1>1, WalkingItem
<1>3. PICK rid \in Lowest(Open(t), CodeRank) :
        LET item == [head EXCEPT !.cands = @ \ {rid}]
        IN  /\ lock' = [lock EXCEPT ![rid] = t]
            /\ \/ /\ run' = [run EXCEPT ![t] = [run[t] EXCEPT !.agenda = <<item>> \o Tail(run[t].agenda)]]
                  /\ UNCHANGED <<tables, pc, req, pend, answer>>
               \/ Hold(t, rid, item.win, 1, item.depth, run[t].left,
                       <<[item EXCEPT !.got = @ + 1]>> \o Tail(run[t].agenda))
  BY DEF KindPick
<1>4. rid \in Resources
  BY <1>2 DEF Lowest, Open, KindItem
<1> DEFINE item == [head EXCEPT !.cands = @ \ {rid}]
           next == <<item>> \o Tail(run[t].agenda)
           got  == <<[item EXCEPT !.got = @ + 1]>> \o Tail(run[t].agenda)
<1>5. item \in KindItem  BY <1>2, KindItemSteps
<1>6. next \in Seq(Item) /\ got \in Seq(Item)
  <2> HIDE DEF item
  <2>1. item \in Item /\ [item EXCEPT !.got = @ + 1] \in Item  BY <1>5, KindItemSteps DEF Item
  <2> HIDE DEF Item
  <2> QED BY <1>2, <2>1, PushType
<1>7. lock' \in [Resources -> Txns \cup {Nobody}]  BY <1>3, <1>4 DEF TypeOK, TxnsOK
<1>8. item.win \in Spans /\ item.depth \in Nat  BY <1>5, KindItemSteps
<1>9. \/ /\ run' = [run EXCEPT ![t] = [run[t] EXCEPT !.agenda = next]]
         /\ UNCHANGED <<tables, pc, req, pend, answer>>
      \/ Hold(t, rid, item.win, 1, item.depth, run[t].left, got)
  BY <1>3
<1> HIDE DEF item, next, got
<1>10. CASE /\ run' = [run EXCEPT ![t] = [run[t] EXCEPT !.agenda = next]]
            /\ UNCHANGED <<tables, pc, req, pend, answer>>
  <2>1. [run[t] EXCEPT !.agenda = next] \in Walker  BY <1>2, <1>6, WithAgenda
  <2> QED BY <1>7, <1>10, <2>1, ThenType
<1>11. CASE Hold(t, rid, item.win, 1, item.depth, run[t].left, got)
  <2>1. run[t].left \in Assigns  BY <1>2 DEF Walker
  <2> QED BY <1>2, <1>4, <1>6, <1>7, <1>8, <1>11, <2>1, HoldOneType
<1> QED BY <1>9, <1>10, <1>11

\* Leaving a kind, filled or not, keeps the types.
LEMMA TypeKindDone ==
    ASSUME TypeOK, NEW t \in Txns, KindDone(t)
    PROVE  TypeOK'
<1>1. Tail(run[t].agenda) \in Seq(Item)  BY WalkingItem DEF KindDone
<1>2. Miss(t, Head(run[t].agenda).row) \/ Then(t, Tail(run[t].agenda))  BY DEF KindDone
<1> QED BY <1>1, <1>2, MissType, ThenAgendaType

\* The commit, and the refusal of assignments left over, keep the types.
LEMMA TypeCommit ==
    ASSUME TypeOK, NEW t \in Txns, Commit(t) \/ LeftOver(t)
    PROVE  TypeOK'
<1>1. CASE Commit(t)
  <2>1. req[t] \in BookRequest  BY <1>1 DEF Commit, TypeOK, TxnsOK, Placed
  <2>2. <<t, req[t].rid>> \in Ids \cup {NoRow}  BY <2>1 DEF BookRequest, Ids
  <2>3. TxnsOK'  BY <1>1, <2>2, FinishType DEF Commit, TypeOK, Codes
  <2>4. pend[t] \subseteq Row  BY DEF TypeOK, TxnsOK
  <2>5. reservations' \subseteq Row  BY <1>1, <2>4 DEF Commit, TypeOK, TablesOK
  <2>6. \A b \in pend[t] : b.id \in Ids  BY <2>4 DEF Row
  <2>7. feed' \subseteq [txn : Txns, row : Ids \cup {NoRow},
                         what : {"CREATED", "CANCELLED", "UPDATED", "RESOURCE"}]
    BY <1>1, <2>6 DEF Commit, Mark, TypeOK, TablesOK
  <2> QED BY <1>1, <2>3, <2>5, <2>7 DEF Commit, TypeOK, TablesOK
<1>2. CASE LeftOver(t)
  BY <1>2, RefuseType DEF LeftOver, Codes
<1> QED BY <1>1, <1>2

\* cancel_reservation and update_reservation keep the types.
LEMMA TypeAmend ==
    ASSUME TypeOK, NEW t \in Txns, Amend(t)
    PROVE  TypeOK'
<1>0. \A b \in reservations : b \in Row /\ b.id \in Ids  BY DEF TypeOK, TablesOK, Row
<1> DEFINE Marks == [txn : Txns, row : Ids \cup {NoRow},
                     what : {"CREATED", "CANCELLED", "UPDATED", "RESOURCE"}]
<1>1. CASE NotChangeable(t)
  BY <1>1, RefuseType DEF NotChangeable, Codes
<1>2. CASE CancelTwice(t)
  <2>1. req[t].row \in Ids  BY <1>2, StartsType DEF CancelTwice, CancelRequest
  <2> QED BY <1>2, <2>1, RefuseType DEF CancelTwice, Codes
<1>3. CASE CancelRead(t)
  <2>1. req[t] \in CancelRequest  BY <1>3, StartsType DEF CancelRead
  <2>2. lock' \in [Resources -> Txns \cup {Nobody}]  BY <1>3 DEF CancelRead, TypeOK, TxnsOK
  <2> QED BY <1>3, <2>1, <2>2, GotoType DEF CancelRead, Places
<1>4. CASE CancelChildren(t)
  <2> DEFINE seen == {b.rid : b \in {c \in reservations : c.parent = req[t].row /\ c.status = "HELD"}}
             walker == [run[t] EXCEPT !.used = seen]
  <2>1. req[t] \in CancelRequest  BY <1>4 DEF CancelChildren, TypeOK, TxnsOK, Placed
  <2>2. seen \in SUBSET Resources  BY <1>0 DEF Row
  <2>3. run[t] \in Walker  BY DEF TypeOK, TxnsOK, Walker
  <2>4. walker \in Walker
    <3> HIDE DEF seen, Item, Assigns
    <3> QED BY <2>2, <2>3 DEF Walker
  <2>5. run' = [run EXCEPT ![t] = walker]  BY <1>4 DEF CancelChildren
  <2> HIDE DEF walker
  <2>6. run' \in [Txns -> Walker]
    <3> HIDE DEF Walker
    <3> QED BY <2>4, <2>5 DEF TypeOK, TxnsOK, Walker
  <2>7. /\ Goto(t, "letgo") /\ UNCHANGED <<tables, lock, req, pend, answer>>
    BY <1>4 DEF CancelChildren
  <2>8. pc' \in [Txns -> Places] /\ \A u \in Txns : Placed(u)'
    BY <2>1, <2>7 DEF TypeOK, TxnsOK, Goto, Places, Placed
  <2>9. TablesOK'  BY <2>7 DEF TypeOK, TablesOK, tables
  <2> QED BY <2>6, <2>7, <2>8, <2>9 DEF TypeOK, TxnsOK, Walker
<1>5. CASE CancelWrite(t)
  <2>1. req[t].row \in Ids
    BY <1>5 DEF CancelWrite, TypeOK, TxnsOK, Placed, CancelRequest
  <2>2. TxnsOK'  BY <1>5, <2>1, FinishType DEF CancelWrite, TypeOK, Codes
  <2>3. ASSUME NEW b \in Row PROVE [b EXCEPT !.status = "CANCELLED", !.at = t] \in Row
    <3> DEFINE c == [b EXCEPT !.status = "CANCELLED"]
    <3>1. c \in Row  BY DEF Row
    <3> HIDE DEF c
    <3>2. [c EXCEPT !.at = t] \in Row  BY <3>1 DEF Row
    <3> QED BY <3>2 DEF c
  <2>4. reservations' \subseteq Row  BY <1>0, <1>5, <2>3 DEF CancelWrite
  <2>5. \A b \in LetGo(t) : Mark(t, b.id, "CANCELLED") \in Marks
    BY <1>0 DEF LetGo, Mark
  <2>6. feed' \subseteq Marks  BY <1>5, <2>5 DEF CancelWrite, TypeOK, TablesOK
  <2> QED BY <1>5, <2>2, <2>4, <2>6 DEF CancelWrite, TypeOK, TablesOK
<1>6. CASE ReferSame(t)
  <2>1. req[t].row \in Ids  BY <1>6, StartsType DEF ReferSame, ReferRequest
  <2> QED BY <1>6, <2>1, RefuseType DEF ReferSame, Codes
<1>7. CASE ReferRefused(t)
  <2>1. PICK b \in Mine(req[t]) :
          /\ ByRef(b.by, req[t].ref) # {}
          /\ Refuse(t, "reference taken", (CHOOSE c \in ByRef(b.by, req[t].ref) : TRUE).id)
    BY <1>7 DEF ReferRefused
  <2>2. (CHOOSE c \in ByRef(b.by, req[t].ref) : TRUE).id \in Ids  BY <1>0, <2>1 DEF ByRef
  <2> QED BY <2>1, <2>2, RefuseType DEF Codes
<1>8. CASE ReferRead(t)
  <2>1. req[t] \in ReferRequest  BY <1>8, StartsType DEF ReferRead
  <2>2. lock' \in [Resources -> Txns \cup {Nobody}]  BY <1>8 DEF ReferRead, TypeOK, TxnsOK
  <2> QED BY <1>8, <2>1, <2>2, GotoType DEF ReferRead, Places
<1>9. CASE ReferWrite(t)
  <2>1. req[t] \in ReferRequest /\ req[t].row \in Ids /\ req[t].ref \in Refs \cup {NoRef}
    BY <1>9 DEF ReferWrite, TypeOK, TxnsOK, Placed, ReferRequest
  <2>2. CASE Rollback(t, "referlost")  BY <2>1, <2>2, RollbackType
  <2>3. CASE /\ reservations' = {IF b.id = req[t].row THEN [b EXCEPT !.ref = req[t].ref] ELSE b :
                                   b \in reservations}
             /\ feed' = feed \cup {Mark(t, req[t].row, "UPDATED")}
             /\ Finish(t, "updated", req[t].row)
             /\ UNCHANGED <<res, slots>>
    <3>1. TxnsOK'  BY <2>1, <2>3, FinishType DEF TypeOK, Codes
    <3>2. \A b \in Row : [b EXCEPT !.ref = req[t].ref] \in Row  BY <2>1 DEF Row
    <3>3. reservations' \subseteq Row  BY <1>0, <2>3, <3>2
    <3>4. feed' \subseteq Marks  BY <2>1, <2>3 DEF Mark, TypeOK, TablesOK
    <3> QED BY <2>3, <3>1, <3>3, <3>4 DEF TypeOK, TablesOK
  <2> QED BY <1>9, <2>2, <2>3 DEF ReferWrite
<1>10. CASE ReferLost(t)
  <2>1. CASE Refuse(t, "error", NoRow)  BY <2>1, RefuseType DEF Codes
  <2>2. CASE /\ Rivals(t, reservations) # {}
             /\ Refuse(t, "reference taken", (CHOOSE c \in Rivals(t, reservations) : TRUE).id)
    <3>1. (CHOOSE c \in Rivals(t, reservations) : TRUE).id \in Ids  BY <1>0, <2>2 DEF Rivals
    <3> QED BY <2>2, <3>1, RefuseType DEF Codes
  <2> QED BY <1>10, <2>1, <2>2 DEF ReferLost
<1> QED BY <1>1, <1>2, <1>3, <1>5, <1>6, <1>7, <1>8, <1>9, <1>10, <1>4 DEF Amend

\* update_resource, create_master_slot and delete_master_slot keep the types.
LEMMA TypePlan ==
    ASSUME TypeOK, NEW t \in Txns, Plan(t)
    PROVE  TypeOK'
<1>1. CASE ChangeRefused(t)
  BY <1>1, RefuseType DEF ChangeRefused, Codes
<1>2. CASE Change(t)
  <2>1. req[t] \in ChangeRequest  BY <1>2, StartsType DEF Change
  <2>2. TxnsOK'  BY <1>2, FinishType DEF Change, TypeOK, Codes
  <2>3. res' \in [Resources -> Resource]
    BY <1>2, <2>1 DEF Change, ChangeRequest, TypeOK, TablesOK, Resource
  <2>4. \A b \in Row : [b EXCEPT !.mode = req[t].mode] \in Row  BY <2>1 DEF Row, ChangeRequest
  <2>5. reservations' \subseteq Row  BY <1>2, <2>4 DEF Change, TypeOK, TablesOK
  <2>6. feed' \subseteq [txn : Txns, row : Ids \cup {NoRow},
                         what : {"CREATED", "CANCELLED", "UPDATED", "RESOURCE"}]
    BY <1>2 DEF Change, Mark, TypeOK, TablesOK
  <2> QED BY <1>2, <2>2, <2>3, <2>5, <2>6 DEF Change, TypeOK, TablesOK
<1>3. CASE SlotRefused(t)
  BY <1>3, RefuseType DEF SlotRefused, Codes
<1>4. CASE SlotRead(t)
  <2>1. req[t] \in SlotRequest  BY <1>4, StartsType DEF SlotRead
  <2>2. lock' \in [Resources -> Txns \cup {Nobody}]  BY <1>4 DEF SlotRead, TypeOK, TxnsOK
  <2> QED BY <1>4, <2>1, <2>2, GotoType DEF SlotRead, Places
<1>5. CASE SlotWrite(t)
  <2>1. req[t] \in SlotRequest  BY <1>5 DEF SlotWrite, TypeOK, TxnsOK, Placed
  <2>2. TxnsOK'  BY <1>5, FinishType DEF SlotWrite, TypeOK, Codes
  <2> QED BY <1>5, <2>1, <2>2 DEF SlotWrite, SlotRequest, TypeOK, TablesOK
<1>6. CASE SlotDelete(t)
  <2>1. PICK code \in Codes : Finish(t, code, NoRow)  BY <1>6 DEF SlotDelete, Codes
  <2>2. TxnsOK'  BY <2>1, FinishType DEF TypeOK
  <2> QED BY <1>6, <2>2 DEF SlotDelete, TypeOK, TablesOK
<1> QED BY <1>1, <1>2, <1>3, <1>4, <1>5, <1>6 DEF Plan

\* Every step keeps the types.
LEMMA TypeNext ==
    ASSUME TypeOK, [Next]_vars
    PROVE  TypeOK'
<1>1. ASSUME NEW t \in Txns, Book(t) PROVE TypeOK'
  <2>1. CASE DeadlockVictim(t)  BY <2>1, RefuseType DEF DeadlockVictim, Codes
  <2> QED BY <1>1, <2>1, TypeBook, TypeWalkLock, TypeWalkRow, TypeKindAssigned, TypeKindScan,
             TypeKindPick, TypeKindDone, TypeCommit DEF Book
<1>2. ASSUME NEW t \in Txns, Crash(t) PROVE TypeOK'
  BY <1>2, RefuseType DEF Crash, Codes
<1>3. ASSUME UNCHANGED vars PROVE TypeOK'
  <2>1. TablesOK'  BY <1>3 DEF vars, TypeOK, TablesOK
  <2>2. TxnsOK'  BY <1>3 DEF vars, TypeOK, TxnsOK, Placed
  <2> QED BY <2>1, <2>2 DEF TypeOK
<1> QED BY <1>1, <1>2, <1>3, TypeAmend, TypePlan DEF Next, Step, Quiet

\* The empty tables have their types.
LEMMA TypeInit == Init => TypeOK
<1> SUFFICES ASSUME Init PROVE TypeOK  OBVIOUS
<1>1. TablesOK  BY ResourcesAssumption DEF Init, TablesOK
<1>2. \A t \in Txns : req[t] \in Request
  BY TxnsAssumption DEF Init
<1>3. req \in [Txns -> Request] /\ \A t \in Txns : Placed(t)
  <2>1. req \in [Txns -> UNION {Ask[t] : t \in Txns}]  BY DEF Init
  <2>2. \A t \in Txns : pc[t] = "asked"  BY DEF Init
  <2> HIDE DEF Request
  <2> QED BY <1>2, <2>1, <2>2 DEF Placed
<1>4. lock \in [Resources -> Txns \cup {Nobody}] /\ pc \in [Txns -> Places]
  BY DEF Init, Places
<1>5. pend \in [Txns -> SUBSET Row] /\ \A t \in Txns : IsFiniteSet(pend[t])
  BY FS_EmptySet DEF Init
<1>6. run \in [Txns -> Walker]
  <2> HIDE DEF Walker
  <2> QED BY NoRunType DEF Init
<1>7. answer \in [Txns -> [code : Codes, row : Ids \cup {NoRow}]]
  BY DEF Init, Codes
<1> QED BY <1>1, <1>3, <1>4, <1>5, <1>6, <1>7 DEF TypeOK, TxnsOK, Walker

\* Every behaviour of the routes keeps the types: the rows a booking and its
\* walk write, what is left of the walk, the locks and the answers.
THEOREM TypeCorrect == Spec => []TypeOK
<1>1. Init => TypeOK  BY TypeInit
<1>2. TypeOK /\ [Next]_vars => TypeOK'  BY TypeNext
<1> QED BY <1>1, <1>2, PTL DEF Spec
-----------------------------------------------------------------------------
(* What is left of a walk, and the locks it needs. *)

\* The items of a list with one put before it.
LEMMA PushProperties ==
    ASSUME NEW S, NEW item \in S, NEW rest \in Seq(S)
    PROVE  /\ Len(rest) \in Nat /\ Len(<<item>> \o rest) = 1 + Len(rest)
           /\ (<<item>> \o rest)[1] = item
           /\ \A k \in 2..(1 + Len(rest)) : (<<item>> \o rest)[k] = rest[k - 1]
<1>1. <<item>> \in Seq(S) /\ Len(<<item>>) = 1 /\ <<item>>[1] = item  OBVIOUS
<1>2. Len(rest) \in Nat  BY LenProperties
<1> DEFINE one == <<item>>
<1> HIDE DEF one
<1>3. /\ Len(one \o rest) = 1 + Len(rest)
      /\ \A k \in 1..(1 + Len(rest)) : (one \o rest)[k] = IF k <= 1 THEN one[k] ELSE rest[k - 1]
  BY <1>1, <1>2, ConcatProperties DEF one
<1> QED BY <1>1, <1>2, <1>3 DEF one

\* What two lists need between them is covered when each covers its own.
LEMMA CoveredConcat ==
    ASSUME NEW locks, NEW t, NEW s1 \in Seq(Item), NEW s2 \in Seq(Item), Covered(locks, t, s1), Covered(locks, t, s2)
    PROVE  Covered(locks, t, s1 \o s2)
<1> DEFINE s == s1 \o s2
           n == Len(s1)
<1>1. /\ n \in Nat /\ Len(s2) \in Nat /\ Len(s) = n + Len(s2)
      /\ \A i \in 1..Len(s) : s[i] = IF i <= n THEN s1[i] ELSE s2[i - n]
  <2> HIDE DEF Item
  <2> QED BY ConcatProperties, LenProperties
<1> HIDE DEF s, n
<1> SUFFICES ASSUME NEW i \in 1..Len(s), s[i].do = "row", s[i].row.target # NoTarget
             PROVE  \/ locks[s[i].row.target] = t
                    \/ \E j \in 1..(i - 1) : s[j].do = "lock" /\ s[i].row.target \in s[j].rids
  BY DEF Covered, s
<1>2. CASE i <= n
  <2>1. i \in 1..Len(s1) /\ s[i] = s1[i]  BY <1>1, <1>2 DEF n
  <2>2. \A j \in 1..(i - 1) : s[j] = s1[j]  BY <1>1, <1>2
  <2> QED BY <2>1, <2>2 DEF Covered
<1>3. CASE i > n
  <2>1. i - n \in 1..Len(s2) /\ s[i] = s2[i - n]  BY <1>1, <1>3
  <2>2. CASE locks[s[i].row.target] = t  BY <2>2
  <2>3. CASE locks[s[i].row.target] # t
    <3>1. PICK j \in 1..(i - n - 1) : s2[j].do = "lock" /\ s[i].row.target \in s2[j].rids
      BY <2>1, <2>3 DEF Covered
    <3>2. j + n \in 1..(i - 1) /\ s[j + n] = s2[j]  BY <1>1, <1>3, <3>1
    <3> QED BY <3>1, <3>2
  <2> QED BY <2>2, <2>3
<1> QED BY <1>1, <1>2, <1>3

\* The walk of one owner's requirements begins with the locks it needs.
LEMMA CoveredWalk ==
    ASSUME NEW locks, NEW t, NEW rid \in Resources, NEW win \in Spans, NEW depth \in Nat
    PROVE  Covered(locks, t, Walk(rid, win, depth))
<1> DEFINE s == Walk(rid, win, depth)
           rows == [i \in DOMAIN Reqs[rid] |->
                      [do |-> "row", row |-> Reqs[rid][i], win |-> win, depth |-> depth]]
           first == [do |-> "lock", rids |-> NamedTargets(rid)]
<1>1. Reqs[rid] \in Seq(Requirement)  BY RequirementsAssumption
<1>2. DOMAIN Reqs[rid] = 1..Len(Reqs[rid]) /\ Len(Reqs[rid]) \in Nat  BY <1>1, LenProperties
<1>3. rows \in Seq({rows[i] : i \in DOMAIN Reqs[rid]}) /\ Len(rows) = Len(Reqs[rid])
  <2>1. rows \in [1..Len(Reqs[rid]) -> {rows[i] : i \in DOMAIN Reqs[rid]}]  BY <1>2
  <2>2. rows \in Seq({rows[i] : i \in DOMAIN Reqs[rid]})  BY <1>2, <2>1, FunctionIsSeq
  <2> QED BY <1>2, <2>2, LenProperties
<1> SUFFICES ASSUME NEW i \in 1..Len(s), s[i].do = "row", s[i].row.target # NoTarget
             PROVE  \E j \in 1..(i - 1) : s[j].do = "lock" /\ s[i].row.target \in s[j].rids
  BY DEF Covered
<1>4. CASE NamedTargets(rid) = {}
  <2>1. s = rows
    <3>1. ToLock(NamedTargets(rid)) = <<>>  BY <1>4 DEF ToLock
    <3> HIDE DEF rows
    <3>2. <<>> \o rows = rows  BY <1>3, ConcatEmptySeq
    <3> QED BY <3>1, <3>2 DEF Walk, rows
  <2>2. i \in DOMAIN Reqs[rid] /\ s[i].row = Reqs[rid][i]  BY <1>2, <1>3, <2>1
  <2>3. s[i].row.target \in NamedTargets(rid)  BY <2>2 DEF NamedTargets
  <2> QED BY <1>4, <2>3
<1>5. CASE NamedTargets(rid) # {}
  <2>1. s = <<first>> \o rows  BY <1>5 DEF Walk, ToLock
  <2>2. /\ Len(s) = 1 + Len(rows) /\ s[1] = first
        /\ \A k \in 2..Len(s) : s[k] = rows[k - 1]
    <3> DEFINE S == {rows[k] : k \in DOMAIN Reqs[rid]} \cup {first}
    <3>1. rows \in [1..Len(Reqs[rid]) -> S] /\ first \in S  BY <1>2
    <3> HIDE DEF S
    <3>2. rows \in Seq(S)  BY <1>2, <3>1, FunctionIsSeq
    <3> HIDE DEF s, rows, first
    <3> QED BY <2>1, <3>1, <3>2, PushProperties
  <2>3. i # 1  BY <2>2
  <2>4. i - 1 \in DOMAIN Reqs[rid] /\ s[i].row = Reqs[rid][i - 1]
    <3>1. i - 1 \in DOMAIN Reqs[rid] /\ s[i] = rows[i - 1]
      <4>1. Len(rows) = Len(Reqs[rid])  BY <1>3
      <4> HIDE DEF s, rows, first
      <4>2. Len(s) = 1 + Len(Reqs[rid])  BY <2>2, <4>1
      <4>3. i \in 2..Len(s) /\ i - 1 \in 1..Len(Reqs[rid])  BY <1>2, <2>3, <4>2
      <4>4. s[i] = rows[i - 1]  BY <2>2, <4>3
      <4> QED BY <1>2, <4>3, <4>4
    <3> QED BY <3>1
  <2>5. s[i].row.target \in NamedTargets(rid)  BY <2>4 DEF NamedTargets
  <2> QED BY <1>2, <1>3, <2>2, <2>3, <2>5
<1> QED BY <1>4, <1>5

\* Taking an item that locks nothing off the list leaves the rest covered.
LEMMA CoveredTail ==
    ASSUME NEW locks, NEW t, NEW s \in Seq(Item), s # <<>>, Covered(locks, t, s), Head(s).do # "lock"
    PROVE  Covered(locks, t, Tail(s))
<1>1. /\ Len(s) \in Nat \ {0} /\ Len(Tail(s)) = Len(s) - 1 /\ Head(s) = s[1]
      /\ \A i \in 1..Len(Tail(s)) : Tail(s)[i] = s[i + 1]
  <2> HIDE DEF Item
  <2> QED BY HeadTailProperties, LenProperties, EmptySeq
<1> DEFINE r == Tail(s)
<1> HIDE DEF r
<1> SUFFICES ASSUME NEW i \in 1..Len(r), r[i].do = "row", r[i].row.target # NoTarget,
                    locks[r[i].row.target] # t
             PROVE  \E j \in 1..(i - 1) : r[j].do = "lock" /\ r[i].row.target \in r[j].rids
  BY DEF Covered, r
<1>2. i + 1 \in 1..Len(s) /\ s[i + 1] = r[i]  BY <1>1 DEF r
<1>3. PICK j \in 1..i : s[j].do = "lock" /\ r[i].row.target \in s[j].rids  BY <1>2 DEF Covered
<1>4. j # 1  BY <1>1, <1>3
<1>5. j - 1 \in 1..(i - 1) /\ r[j - 1] = s[j]  BY <1>1, <1>3, <1>4 DEF r
<1> QED BY <1>3, <1>5

\* Taking one of the locks at the head of the list leaves the rest covered.
LEMMA CoveredLock ==
    ASSUME NEW locks \in [Resources -> Txns \cup {Nobody}], NEW t \in Txns,
           NEW s \in Seq(Item), s # <<>>, Covered(locks, t, s),
           Head(s) \in LockItem, NEW rid \in Head(s).rids
    PROVE  Covered([locks EXCEPT ![rid] = t], t, ToLock(Head(s).rids \ {rid}) \o Tail(s))
<1> DEFINE more == [locks EXCEPT ![rid] = t]
           rids == Head(s).rids \ {rid}
           rest == Tail(s)
<1>1. /\ Len(s) \in Nat \ {0} /\ rest \in Seq(Item) /\ Len(rest) = Len(s) - 1 /\ Head(s) = s[1]
      /\ \A i \in 1..Len(rest) : rest[i] = s[i + 1]
  <2> HIDE DEF Item
  <2> QED BY HeadTailProperties, LenProperties, EmptySeq
<1>2. /\ rid \in Resources /\ rids \in SUBSET Resources
      /\ \A r \in Resources : locks[r] = t => more[r] = t
      /\ more[rid] = t
  BY DEF LockItem
<1>3. \A i \in 1..Len(s) : s[i] \in Item
  <2> HIDE DEF Item
  <2> QED BY ElementOfSeq
<1> HIDE DEF more, rest
\* What an item of the rest needs is locked, in rids, or asked for before it in the rest.
<1>4. ASSUME NEW i \in 1..Len(rest), rest[i].do = "row", rest[i].row.target # NoTarget
      PROVE  \/ more[rest[i].row.target] = t
             \/ rest[i].row.target \in rids
             \/ \E j \in 1..(i - 1) : rest[j].do = "lock" /\ rest[i].row.target \in rest[j].rids
  <2>1. i + 1 \in 1..Len(s) /\ s[i + 1] = rest[i]  BY <1>1
  <2>2. rest[i].row.target \in Resources
    BY <1>3, <1>4, <2>1 DEF Item, LockItem, RowItem, KindItem, Requirement
  <2>3. CASE locks[rest[i].row.target] = t  BY <1>2, <2>2, <2>3
  <2>4. CASE locks[rest[i].row.target] # t
    <3>1. PICK j \in 1..i : s[j].do = "lock" /\ rest[i].row.target \in s[j].rids
      BY <1>4, <2>1, <2>4 DEF Covered
    <3>2. CASE j = 1  BY <1>1, <1>2, <3>1, <3>2
    <3>3. CASE j # 1
      <4>1. j - 1 \in 1..(i - 1) /\ rest[j - 1] = s[j]  BY <1>1, <3>3
      <4> QED BY <3>1, <4>1
    <3> QED BY <3>2, <3>3
  <2> QED BY <2>3, <2>4
<1>5. CASE rids = {}
  <2>1. ToLock(rids) \o rest = rest
    <3>1. ToLock(rids) = <<>>  BY <1>5 DEF ToLock
    <3> HIDE DEF Item
    <3> QED BY <1>1, <3>1, ConcatEmptySeq
  <2> HIDE DEF rids
  <2> QED BY <1>4, <1>5, <2>1 DEF Covered, more, rest, rids
<1>6. CASE rids # {}
  <2> DEFINE first == [do |-> "lock", rids |-> rids]
  <2>1. ToLock(rids) \o rest = <<first>> \o rest  BY <1>6 DEF ToLock
  <2>2. first \in Item  BY <1>2 DEF Item, LockItem
  <2>3. first.do = "lock" /\ first.rids = rids  OBVIOUS
  <2> DEFINE all == <<first>> \o rest
  <2>4. /\ Len(rest) \in Nat /\ Len(all) = 1 + Len(rest) /\ all[1] = first
        /\ \A k \in 2..(1 + Len(rest)) : all[k] = rest[k - 1]
    <3> HIDE DEF Item, first
    <3> QED BY <1>1, <2>2, PushProperties
  <2> HIDE DEF all, first, rids
  <2>5. ASSUME NEW k \in 1..Len(all), all[k].do = "row", all[k].row.target # NoTarget
        PROVE  \/ more[all[k].row.target] = t
               \/ \E j \in 1..(k - 1) : all[j].do = "lock" /\ all[k].row.target \in all[j].rids
    <3>1. k # 1  BY <2>3, <2>4, <2>5
    <3>2. k - 1 \in 1..Len(rest) /\ all[k] = rest[k - 1]  BY <2>4, <3>1
    <3>3. CASE more[all[k].row.target] = t  BY <3>3
    <3>4. CASE all[k].row.target \in rids
      <4>1. 1 \in 1..(k - 1)  BY <3>1, <3>2
      <4> QED BY <2>3, <2>4, <3>4, <4>1
    <3>5. CASE \E j \in 1..(k - 2) : rest[j].do = "lock" /\ all[k].row.target \in rest[j].rids
      <4>1. PICK j \in 1..(k - 2) : rest[j].do = "lock" /\ all[k].row.target \in rest[j].rids
        BY <3>5
      <4>2. j + 1 \in 1..(k - 1) /\ all[j + 1] = rest[j]  BY <2>4, <3>2, <4>1
      <4> QED BY <4>1, <4>2
    <3> QED BY <1>4, <2>5, <3>2, <3>3, <3>4, <3>5
  <2>6. Covered(more, t, all)  BY <2>5 DEF Covered
  <2> QED BY <2>1, <2>6 DEF all, more, rest, rids
<1> QED BY <1>5, <1>6

\* More locks cover what fewer covered.
LEMMA CoveredMore ==
    ASSUME NEW locks, NEW more, NEW t, NEW s \in Seq(Item), Covered(locks, t, s),
           \A r \in Resources : locks[r] = t => more[r] = t
    PROVE  Covered(more, t, s)
<1>1. \A i \in 1..Len(s) : s[i] \in Item
  <2> HIDE DEF Item
  <2> QED BY ElementOfSeq
<1>2. \A i \in 1..Len(s) : s[i].do = "row" /\ s[i].row.target # NoTarget => s[i].row.target \in Resources
  BY <1>1 DEF Item, LockItem, RowItem, KindItem, Requirement
<1> QED BY <1>2 DEF Covered

\* One item that names nothing, put before a covered list.
LEMMA CoveredPush ==
    ASSUME NEW locks, NEW t, NEW item \in Item, item.do # "row", NEW rest \in Seq(Item),
           Covered(locks, t, rest)
    PROVE  Covered(locks, t, <<item>> \o rest)
<1>1. <<item>> \in Seq(Item) /\ Len(<<item>>) = 1 /\ <<item>>[1] = item
  <2> HIDE DEF Item
  <2> QED OBVIOUS
<1>2. Covered(locks, t, <<item>>)  BY <1>1 DEF Covered
<1> QED BY <1>1, <1>2, CoveredConcat
-----------------------------------------------------------------------------
(* One transaction's step, and the others. *)

\* The step of t leaves what belongs to the other transactions alone.
TurnOf(t) ==
    \A u \in Txns \ {t} :
        /\ pc'[u] = pc[u] /\ req'[u] = req[u] /\ pend'[u] = pend[u] /\ run'[u] = run[u]
        /\ \A rid \in Resources : lock'[rid] = u <=> lock[rid] = u

\* The others keep their locks, so they stay guarded.
LEMMA OthersGuarding ==
    ASSUME TypeOK, NEW t \in Txns, TurnOf(t), NEW u \in Txns \ {t}, Guarding(u)
    PROVE  Guarding(u)'
<1>1. /\ pc'[u] = pc[u] /\ req'[u] = req[u] /\ pend'[u] = pend[u] /\ run'[u] = run[u]
      /\ \A rid \in Resources : lock'[rid] = u <=> lock[rid] = u
  BY DEF TurnOf
<1>2. pc[u] = "flush" => req[u].rid \in Resources
  BY DEF TypeOK, TxnsOK, Placed, BookRequest
<1>3. \A b \in pend[u] : b.rid \in Resources  BY DEF TypeOK, TxnsOK, Row
<1>4. Covered(lock', u, run'[u].agenda)
  <2>1. run[u].agenda \in Seq(Item)  BY DEF TypeOK, TxnsOK
  <2>2. Covered(lock, u, run[u].agenda)  BY DEF Guarding
  <2> QED BY <1>1, <2>1, <2>2, CoveredMore
<1> QED BY <1>1, <1>2, <1>3, <1>4 DEF Guarding

\* When resources and reservations do not change, what the others found free
\* is free.
LEMMA OthersStillFree ==
    ASSUME NEW t \in Txns, TurnOf(t), UNCHANGED <<res, reservations>>, NEW u \in Txns \ {t}, StillFree(u)
    PROVE  StillFree(u)'
BY DEF TurnOf, StillFree, Meeting, Held

\* A step that leaves resources and reservations alone is judged by its own
\* transaction; the timetable may change.
LEMMA OwnTurnOnRows ==
    ASSUME TypeOK, ChecksHoldToTheEnd, NEW t \in Txns, TurnOf(t), UNCHANGED <<res, reservations>>,
           Guarding(t)', StillFree(t)'
    PROVE  ChecksHoldToTheEnd'
<1>1. \A u \in Txns : Guarding(u)' /\ StillFree(u)'
  BY OthersGuarding, OthersStillFree DEF ChecksHoldToTheEnd
<1>2. NoDoubleBooking' /\ ModeIsTheResources'
  BY DEF ChecksHoldToTheEnd, NoDoubleBooking, ModeIsTheResources, Held
<1> QED BY <1>1, <1>2 DEF ChecksHoldToTheEnd

\* The common case: no table changes.
LEMMA OwnTurn ==
    ASSUME TypeOK, ChecksHoldToTheEnd, NEW t \in Txns, TurnOf(t), UNCHANGED tables,
           Guarding(t)', StillFree(t)'
    PROVE  ChecksHoldToTheEnd'
BY OwnTurnOnRows DEF tables

\* What Finish and Rollback have in common: the locks and the rows are gone.
Released(t, where) ==
    /\ Goto(t, where) /\ lock' = Unlocked(t)
    /\ pend' = [pend EXCEPT ![t] = {}] /\ run' = [run EXCEPT ![t] = NoRun]
    /\ UNCHANGED req

\* A transaction without locks and rows is guarded, and disturbs nobody.
LEMMA ReleasedTurn ==
    ASSUME TypeOK, NEW t \in Txns, NEW where \in Places \ {"flush", "walk"}, Released(t, where)
    PROVE  TurnOf(t) /\ Guarding(t)' /\ StillFree(t)'
<1>1. /\ pc'[t] = where /\ pend'[t] = {} /\ run'[t] = NoRun /\ lock' = Unlocked(t) /\ req' = req
      /\ \A u \in Txns \ {t} : pc'[u] = pc[u] /\ pend'[u] = pend[u] /\ run'[u] = run[u]
  BY DEF Released, Goto, TypeOK, TxnsOK
<1>2. \A rid \in Resources : lock'[rid] # t /\ \A u \in Txns \ {t} : lock'[rid] = u <=> lock[rid] = u
  BY <1>1, TxnsAssumption DEF Unlocked
<1>3. TurnOf(t)  BY <1>1, <1>2 DEF TurnOf
<1>4. Covered(lock', t, run'[t].agenda)
  <2>1. run'[t].agenda = <<>>  BY <1>1 DEF NoRun
  <2>2. Len(<<>>) = 0  OBVIOUS
  <2> QED BY <2>1, <2>2 DEF Covered
<1>5. Guarding(t)'  BY <1>1, <1>2, <1>4 DEF Guarding
<1>6. StillFree(t)'  BY <1>1 DEF StillFree
<1> QED BY <1>3, <1>5, <1>6

\* Refusing keeps the invariant: every early return and every error path.
LEMMA RefuseSafe ==
    ASSUME TypeOK, ChecksHoldToTheEnd, NEW t \in Txns, NEW code, NEW row, Refuse(t, code, row)
    PROVE  ChecksHoldToTheEnd'
<1>1. Released(t, "done") /\ UNCHANGED tables  BY DEF Refuse, Finish, Released
<1> QED BY <1>1, ReleasedTurn, OwnTurn DEF Places

\* So does a rollback that goes on in a new transaction.
LEMMA RollbackSafe ==
    ASSUME TypeOK, ChecksHoldToTheEnd, NEW t \in Txns, NEW where \in {"lost", "referlost"},
           Rollback(t, where)
    PROVE  ChecksHoldToTheEnd'
<1>1. Released(t, where) /\ UNCHANGED tables  BY DEF Rollback, Released
<1> QED BY <1>1, ReleasedTurn, OwnTurn DEF Places

\* A request that has only read something has neither locks nor rows.
LEMMA ReadSafe ==
    ASSUME TypeOK, ChecksHoldToTheEnd, NEW t \in Txns, pc[t] = "asked",
           NEW where \in {"cancel", "refer", "slot"}, Goto(t, where),
           UNCHANGED <<tables, lock, req, pend, run, answer>>
    PROVE  ChecksHoldToTheEnd'
<1>1. pc'[t] = where /\ \A u \in Txns \ {t} : pc'[u] = pc[u]  BY DEF Goto, TypeOK, TxnsOK
<1>2. TurnOf(t)  BY <1>1 DEF TurnOf
<1>3. Guarding(t) /\ pend[t] = {}  BY DEF ChecksHoldToTheEnd, Guarding
<1>4. Guarding(t)'  BY <1>1, <1>3 DEF Guarding
<1>5. StillFree(t)'  BY <1>1, <1>3 DEF StillFree
<1> QED BY <1>2, <1>4, <1>5, OwnTurn

\* Taking a free lock takes it from nobody.
LEMMA LockTurn ==
    ASSUME TypeOK, NEW t \in Txns, NEW rid \in Resources, CanLock(t, rid),
           lock' = [lock EXCEPT ![rid] = t]
    PROVE  /\ lock'[rid] = t
           /\ \A r \in Resources : lock[r] = t => lock'[r] = t
           /\ \A r \in Resources : \A u \in Txns \ {t} : lock'[r] = u <=> lock[r] = u
           /\ \A r \in Resources : lock'[r] = t => lock[r] = t \/ r = rid
BY TxnsAssumption DEF CanLock, TypeOK, TxnsOK
-----------------------------------------------------------------------------
(* A booking, step by step. *)

\* The resource is locked and found free.
LEMMA BookAdmittedSafe ==
    ASSUME TypeOK, ChecksHoldToTheEnd, NEW t \in Txns, BookAdmitted(t)
    PROVE  ChecksHoldToTheEnd'
<1> DEFINE rid == req[t].rid
<1>1. req[t] \in BookRequest /\ rid \in Resources /\ pc[t] = "asked"
  <2>1. Starts(t, "book")  BY DEF BookAdmitted
  <2>2. req[t] \in BookRequest  BY <2>1, StartsType
  <2> QED BY <2>1, <2>2 DEF BookRequest, Starts
<1>2. /\ CanLock(t, rid) /\ lock' = [lock EXCEPT ![rid] = t] /\ Goto(t, "flush")
      /\ UNCHANGED <<tables, req, pend, run, answer>> /\ Verdict(req[t]) = "go"
  BY DEF BookAdmitted
<1>3. /\ lock'[rid] = t
      /\ \A r \in Resources : lock[r] = t => lock'[r] = t
      /\ \A r \in Resources : \A u \in Txns \ {t} : lock'[r] = u <=> lock[r] = u
  <2> HIDE DEF rid
  <2> QED BY <1>1, <1>2, LockTurn
<1>4. pc'[t] = "flush" /\ \A u \in Txns \ {t} : pc'[u] = pc[u]  BY <1>2 DEF Goto, TypeOK, TxnsOK
<1>5. TurnOf(t)  BY <1>2, <1>3, <1>4 DEF TurnOf
<1>6. Guarding(t) /\ pend[t] = {}  BY <1>1 DEF ChecksHoldToTheEnd, Guarding
<1>7. Guarding(t)'
  <2>1. run[t].agenda \in Seq(Item)  BY DEF TypeOK, TxnsOK
  <2>2. Covered(lock', t, run[t].agenda)  BY <1>3, <1>6, <2>1, CoveredMore DEF Guarding
  <2> QED BY <1>2, <1>3, <1>4, <1>6, <2>2 DEF Guarding
<1>8. ~Blocked(rid, req[t].win, req[t].qty, reservations)  BY <1>2 DEF Verdict
<1>9. res[rid].mode = "EXCLUSIVE" => Meeting(reservations, rid, req[t].win) = {}
  BY <1>8 DEF Blocked
<1>10. StillFree(t)'
  <2>1. Meeting(reservations', rid, req[t].win) = Meeting(reservations, rid, req[t].win)
    BY <1>2 DEF Meeting, Held, tables
  <2> QED BY <1>2, <1>6, <1>9, <2>1 DEF StillFree, tables
<1> QED BY <1>2, <1>5, <1>7, <1>10, OwnTurn

\* The booking's own row is inserted, and its walk begins.
LEMMA FlushTakenSafe ==
    ASSUME TypeOK, ChecksHoldToTheEnd, NEW t \in Txns, FlushTaken(t)
    PROVE  ChecksHoldToTheEnd'
<1> DEFINE rid == req[t].rid
           row == ParentRow(t)
           walk == Walk(rid, req[t].win, 1)
<1>1. req[t] \in BookRequest /\ rid \in Resources /\ req[t].win \in Spans /\ pc[t] = "flush"
  BY DEF FlushTaken, TypeOK, TxnsOK, Placed, BookRequest
<1>2. /\ pend'[t] = {row} /\ run'[t].agenda = walk /\ run'[t].used = {rid} /\ pc'[t] = "walk"
      /\ UNCHANGED <<tables, lock, req, answer>>
      /\ \A u \in Txns \ {t} : pc'[u] = pc[u] /\ pend'[u] = pend[u] /\ run'[u] = run[u]
  BY DEF FlushTaken, Goto, TypeOK, TxnsOK
<1>3. TurnOf(t)  BY <1>2 DEF TurnOf
<1>4. /\ row.rid = rid /\ row.win = req[t].win /\ row.status = "HELD" /\ row.mode = res[rid].mode
  BY DEF ParentRow
<1>5. lock[rid] = t  BY <1>1 DEF ChecksHoldToTheEnd, Guarding
<1>6. Covered(lock', t, walk)  BY <1>1, CoveredWalk
<1> HIDE DEF row, walk
<1>7. Guarding(t)'  BY <1>2, <1>4, <1>5, <1>6 DEF Guarding
<1>8. row.mode = "EXCLUSIVE" => Meeting(reservations, row.rid, row.win) = {}
  BY <1>1, <1>4 DEF ChecksHoldToTheEnd, StillFree
<1>9. StillFree(t)'
  <2>1. Meeting(reservations', row.rid, row.win) = Meeting(reservations, row.rid, row.win)
    BY <1>2 DEF Meeting, Held, tables
  <2> QED BY <1>2, <1>4, <1>8, <2>1 DEF StillFree, tables
<1> QED BY <1>2, <1>3, <1>7, <1>9, OwnTurn

\* The walk goes on with another covered list, and no new row.
LEMMA WalkOnSafe ==
    ASSUME TypeOK, ChecksHoldToTheEnd, NEW t \in Txns, pc[t] = "walk",
           UNCHANGED <<tables, pc, req, pend, answer>>,
           NEW walker \in Walker, run' = [run EXCEPT ![t] = walker],
           walker.used = run[t].used, Covered(lock', t, walker.agenda),
           \A r \in Resources : lock[r] = t => lock'[r] = t,
           \A r \in Resources : \A u \in Txns \ {t} : lock'[r] = u <=> lock[r] = u
    PROVE  ChecksHoldToTheEnd'
<1>1. run'[t] = walker /\ \A u \in Txns \ {t} : run'[u] = run[u]
  BY DEF TypeOK, TxnsOK
<1>2. TurnOf(t)  BY <1>1 DEF TurnOf
<1>3. Guarding(t) /\ StillFree(t)  BY DEF ChecksHoldToTheEnd
<1>4. \A b \in pend[t] : b.rid \in Resources  BY DEF TypeOK, TxnsOK, Row
<1>5. Guarding(t)'  BY <1>1, <1>3, <1>4 DEF Guarding
<1>6. StillFree(t)'
  <2>1. \A b \in pend[t] : Meeting(reservations', b.rid, b.win) = Meeting(reservations, b.rid, b.win)
    BY DEF Meeting, Held, tables
  <2> QED BY <1>1, <1>3, <2>1 DEF StillFree, tables
<1> QED BY <1>2, <1>5, <1>6, OwnTurn

\* The walk holds one more resource, locked and found free.
LEMMA HoldSafe ==
    ASSUME TypeOK, ChecksHoldToTheEnd, NEW t \in Txns, pc[t] = "walk",
           NEW rid \in Resources, NEW win \in Spans, NEW qty, NEW depth \in Nat, NEW left,
           NEW after \in Seq(Item), Hold(t, rid, win, qty, depth, left, after),
           Covered(lock', t, after), lock'[rid] = t, rid \notin run[t].used,
           ~Problem(rid, win, qty, Seen(t)),
           \A r \in Resources : lock[r] = t => lock'[r] = t,
           \A r \in Resources : \A u \in Txns \ {t} : lock'[r] = u <=> lock[r] = u
    PROVE  ChecksHoldToTheEnd'
<1> DEFINE row == ChildRow(t, rid, win, qty)
           walk == Walk(rid, win, depth + 1) \o after
<1>1. /\ pend'[t] = pend[t] \cup {row} /\ run'[t].agenda = walk
      /\ run'[t].used = run[t].used \cup {rid}
      /\ UNCHANGED <<tables, pc, req, answer>>
      /\ \A u \in Txns \ {t} : pend'[u] = pend[u] /\ run'[u] = run[u]
  BY DEF Hold, TypeOK, TxnsOK
<1>2. row.rid = rid /\ row.win = win /\ row.status = "HELD" /\ row.mode = res[rid].mode
  BY DEF ChildRow
<1>3. TurnOf(t)  BY <1>1 DEF TurnOf
<1>4. Guarding(t) /\ StillFree(t)  BY DEF ChecksHoldToTheEnd
<1>5. Covered(lock', t, walk)
  <2>1. Walk(rid, win, depth + 1) \in Seq(Item) /\ Covered(lock', t, Walk(rid, win, depth + 1))
    BY WalkType, CoveredWalk
  <2> QED BY <2>1, CoveredConcat
<1> HIDE DEF row, walk
<1>6. \A b \in pend[t] : b.rid \in Resources  BY DEF TypeOK, TxnsOK, Row
<1>7. Guarding(t)'  BY <1>1, <1>2, <1>4, <1>5, <1>6 DEF Guarding
<1>8. row.mode = "EXCLUSIVE" => Meeting(reservations, row.rid, row.win) = {}
  BY <1>2 DEF Problem, Blocked, Meeting, Held, Seen
<1>9. StillFree(t)'
  <2>1. \A b \in pend'[t] : Meeting(reservations', b.rid, b.win) = Meeting(reservations, b.rid, b.win)
    BY <1>1 DEF Meeting, Held, tables
  <2>2. ASSUME NEW b \in pend'[t]
        PROVE  /\ b.status = "HELD" /\ b.mode = res[b.rid].mode /\ b.rid \in run'[t].used
               /\ b.mode = "EXCLUSIVE" => Meeting(reservations, b.rid, b.win) = {}
    <3>1. CASE b = row  BY <1>1, <1>2, <1>8, <3>1
    <3>2. CASE b \in pend[t]  BY <1>1, <1>4, <3>2 DEF StillFree
    <3> QED BY <1>1, <3>1, <3>2
  <2>3. \A a, b \in pend'[t] : a.rid = b.rid => a = b
    BY <1>1, <1>2, <1>4 DEF StillFree
  <2>4. pc'[t] = "walk" /\ res' = res  BY <1>1 DEF tables
  <2> QED BY <2>1, <2>2, <2>3, <2>4 DEF StillFree
<1> QED BY <1>1, <1>3, <1>7, <1>9, OwnTurn

\* The list alone moves on.
LEMMA ThenSafe ==
    ASSUME TypeOK, ChecksHoldToTheEnd, NEW t \in Txns, pc[t] = "walk",
           NEW agenda \in Seq(Item), Covered(lock, t, agenda), Then(t, agenda)
    PROVE  ChecksHoldToTheEnd'
<1> DEFINE walker == [run[t] EXCEPT !.agenda = agenda]
<1>1. run[t] \in Walker  BY DEF TypeOK, TxnsOK, Walker
<1>2. walker \in Walker  BY <1>1, WithAgenda
<1>3. walker.used = run[t].used /\ walker.agenda = agenda  BY <1>1 DEF Walker
<1>4. /\ run' = [run EXCEPT ![t] = walker] /\ lock' = lock
      /\ UNCHANGED <<tables, pc, req, pend, answer>>
  BY DEF Then
<1> HIDE DEF walker
<1> QED BY <1>2, <1>3, <1>4, WalkOnSafe

\* A gap is a refusal, or is passed over.
LEMMA MissSafe ==
    ASSUME TypeOK, ChecksHoldToTheEnd, NEW t \in Txns, NEW do, Walking(t, do), do # "lock",
           NEW row, Miss(t, row)
    PROVE  ChecksHoldToTheEnd'
<1>1. run[t].agenda \in Seq(Item) /\ run[t].agenda # <<>> /\ Tail(run[t].agenda) \in Seq(Item)
  BY WalkingItem
<1>2. Covered(lock, t, Tail(run[t].agenda))
  BY <1>1, CoveredTail DEF ChecksHoldToTheEnd, Guarding, Walking
<1>3. CASE Refuse(t, "requirement unsatisfied", NoRow)  BY <1>3, RefuseSafe
<1>4. CASE Then(t, Tail(run[t].agenda))  BY <1>1, <1>2, <1>4, ThenSafe DEF Walking
<1> QED BY <1>3, <1>4 DEF Miss

\* The named targets are locked one by one.
LEMMA WalkLockSafe ==
    ASSUME TypeOK, ChecksHoldToTheEnd, NEW t \in Txns, WalkLock(t)
    PROVE  ChecksHoldToTheEnd'
<1> DEFINE s == run[t].agenda
<1>1. Walking(t, "lock")  BY DEF WalkLock
<1>2. /\ run[t] \in Walker /\ s \in Seq(Item) /\ s # <<>> /\ Tail(s) \in Seq(Item) /\ Head(s) \in LockItem
  BY <1>1, WalkingItem
<1>3. Covered(lock, t, s) /\ pc[t] = "walk"  BY <1>1 DEF ChecksHoldToTheEnd, Guarding, Walking
<1>4. PICK rid \in Head(s).rids :
        /\ CanLock(t, rid) /\ lock' = [lock EXCEPT ![rid] = t]
        /\ run' = [run EXCEPT ![t] = [run[t] EXCEPT !.agenda = ToLock(Head(s).rids \ {rid}) \o Tail(s)]]
        /\ UNCHANGED <<tables, pc, req, pend, answer>>
  BY DEF WalkLock, Lowest
<1> HIDE DEF s
<1>5. rid \in Resources /\ lock \in [Resources -> Txns \cup {Nobody}]
  BY <1>2 DEF LockItem, TypeOK, TxnsOK
<1> DEFINE agenda == ToLock(Head(s).rids \ {rid}) \o Tail(s)
           walker == [run[t] EXCEPT !.agenda = agenda]
<1>6. Covered(lock', t, agenda)  BY <1>2, <1>3, <1>4, <1>5, CoveredLock
<1>7. agenda \in Seq(Item)
  <2>1. Head(s).rids \ {rid} \in SUBSET Resources  BY <1>2 DEF LockItem
  <2> QED BY <1>2, <2>1, ToLockType, ConcatProperties
<1> HIDE DEF agenda
<1>8. walker \in Walker /\ walker.agenda = agenda /\ walker.used = run[t].used
  <2>1. walker \in Walker  BY <1>2, <1>7, WithAgenda
  <2> QED BY <1>2, <2>1 DEF Walker
<1>9. /\ \A r \in Resources : lock[r] = t => lock'[r] = t
      /\ \A r \in Resources : \A u \in Txns \ {t} : lock'[r] = u <=> lock[r] = u
  BY <1>4, <1>5, LockTurn
<1>10. run' = [run EXCEPT ![t] = walker]  BY <1>4 DEF agenda
<1> HIDE DEF walker
<1> QED BY <1>3, <1>4, <1>6, <1>8, <1>9, <1>10, WalkOnSafe

\* One requirement of the walk.
LEMMA WalkRowSafe ==
    ASSUME TypeOK, ChecksHoldToTheEnd, NEW t \in Txns,
           WalkTooDeep(t) \/ WalkPastMidnight(t) \/ WalkNamed(t) \/ WalkKind(t)
    PROVE  ChecksHoldToTheEnd'
<1> DEFINE s == run[t].agenda
           item == Head(s)
           rest == Tail(s)
<1>1. Walking(t, "row")  BY DEF WalkTooDeep, WalkPastMidnight, WalkNamed, WalkKind
<1>2. /\ s \in Seq(Item) /\ s # <<>> /\ rest \in Seq(Item) /\ item \in RowItem
      /\ pc[t] = "walk" /\ item.do = "row"
  BY <1>1, WalkingItem DEF Walking
<1>3. Covered(lock, t, s)  BY DEF ChecksHoldToTheEnd, Guarding
<1>4. Covered(lock, t, rest)  BY <1>2, <1>3, CoveredTail
<1>5. /\ item.row \in Requirement /\ item.depth \in Nat
      /\ item.row.target \in Resources \cup {NoTarget}
      /\ RowWindow(item) \in Spans \cup {NoWindow}
  BY <1>2, RowItemFields
<1>6. CASE WalkTooDeep(t)  BY <1>1, <1>6, MissSafe DEF WalkTooDeep
<1>7. CASE WalkPastMidnight(t)  BY <1>7, RefuseSafe DEF WalkPastMidnight
<1>8. CASE WalkNamed(t)
  <2> DEFINE rid == item.row.target
             win == RowWindow(item)
             qty == IF res[rid].mode = "POOLED" THEN item.row.qty ELSE 1
  <2>1. rid \in Resources /\ win \in Spans /\ rid # NoTarget  BY <1>5, <1>8 DEF WalkNamed
  <2>2. lock[rid] = t
    <3>1. Len(s) \in Nat \ {0} /\ item = s[1]
      <4> HIDE DEF Item
      <4> QED BY <1>2, HeadTailProperties, LenProperties, EmptySeq
    <3>2. 1 \in 1..Len(s) /\ \A j \in 1..(1 - 1) : FALSE  BY <3>1
    <3> HIDE DEF s, item
    <3> QED BY <1>2, <1>3, <2>1, <3>1, <3>2 DEF Covered
  <2>3. CASE Miss(t, item.row)  BY <1>1, <2>3, MissSafe
  <2>4. CASE /\ rid \notin run[t].used /\ ~Problem(rid, win, qty, Seen(t))
             /\ Hold(t, rid, win, qty, item.depth, run[t].left, rest) /\ UNCHANGED lock
    <3> HIDE DEF rid, win, qty, rest
    <3> QED BY <1>2, <1>4, <1>5, <2>1, <2>2, <2>4, HoldSafe
  <2> QED BY <1>8, <2>3, <2>4 DEF WalkNamed
<1>9. CASE WalkKind(t)
  <2> DEFINE kind == [do |-> "kind", row |-> item.row, win |-> RowWindow(item), depth |-> item.depth,
                      got |-> 0, missed |-> 0, scanned |-> FALSE, cands |-> {}]
  <2>1. RowWindow(item) \in Spans /\ Then(t, <<kind>> \o rest)  BY <1>5, <1>9 DEF WalkKind
  <2>2. kind \in Item /\ kind.do # "row"  BY <1>5, <2>1 DEF Item, KindItem, RowItem
  <2> HIDE DEF kind, rest
  <2>3. <<kind>> \o rest \in Seq(Item)
    <3> HIDE DEF Item
    <3> QED BY <1>2, <2>2, PushType
  <2>4. Covered(lock, t, <<kind>> \o rest)  BY <1>2, <1>4, <2>2, CoveredPush
  <2> QED BY <1>2, <2>1, <2>3, <2>4, ThenSafe
<1> QED BY <1>6, <1>7, <1>8, <1>9

\* A resource the caller assigned to a kind.
LEMMA KindAssignedSafe ==
    ASSUME TypeOK, ChecksHoldToTheEnd, NEW t \in Txns, KindAssigned(t)
    PROVE  ChecksHoldToTheEnd'
<1> DEFINE item == Head(run[t].agenda)
           kind == item.row.kind
           rid  == Head(run[t].left[kind])
           left == [run[t].left EXCEPT ![kind] = Tail(run[t].left[kind])]
           rest == Tail(run[t].agenda)
           noted == [item EXCEPT !.missed = @ + 1]
           taken == [item EXCEPT !.got = @ + 1]
<1>1. Walking(t, "kind")  BY DEF KindAssigned
<1>2. /\ run[t] \in Walker /\ run[t].agenda \in Seq(Item) /\ run[t].agenda # <<>>
      /\ item \in KindItem /\ rest \in Seq(Item) /\ pc[t] = "walk" /\ item.do = "kind"
  BY <1>1, WalkingItem DEF Walking
<1>3. item.win \in Spans /\ item.depth \in Nat /\ kind \in Kinds  BY <1>2, KindItemSteps
<1>4. run[t].left \in Assigns /\ run[t].left[kind] \in Seq(Resources) /\ run[t].left[kind] # <<>>
  BY <1>2, <1>3 DEF Walker, Assigns, KindAssigned
<1>5. rid \in Resources /\ Tail(run[t].left[kind]) \in Seq(Resources)  BY <1>4, HeadTailProperties
<1>6. left \in Assigns  BY <1>4, <1>5 DEF Assigns
<1>7. CanLock(t, rid) /\ lock' = [lock EXCEPT ![rid] = t]  BY DEF KindAssigned
<1>8. noted \in Item /\ taken \in Item /\ noted.do # "row" /\ taken.do # "row"
  BY <1>2, KindItemSteps DEF Item, KindItem
<1>9. \/ /\ run' = [run EXCEPT ![t] = [run[t] EXCEPT !.left = left, !.agenda = <<noted>> \o rest]]
         /\ UNCHANGED <<tables, pc, req, pend, answer>>
      \/ /\ rid \notin run[t].used /\ ~Problem(rid, item.win, 1, Seen(t))
         /\ Hold(t, rid, item.win, 1, item.depth, left, <<taken>> \o rest)
  BY DEF KindAssigned
<1>10. Covered(lock, t, rest)
  BY <1>2, CoveredTail DEF ChecksHoldToTheEnd, Guarding
<1> HIDE DEF item, kind, rid, left, rest, noted, taken
<1>11. /\ lock'[rid] = t
       /\ \A r \in Resources : lock[r] = t => lock'[r] = t
       /\ \A r \in Resources : \A u \in Txns \ {t} : lock'[r] = u <=> lock[r] = u
  BY <1>5, <1>7, LockTurn
<1>12. Covered(lock', t, rest)  BY <1>2, <1>10, <1>11, CoveredMore
<1>13. /\ <<noted>> \o rest \in Seq(Item) /\ Covered(lock', t, <<noted>> \o rest)
       /\ <<taken>> \o rest \in Seq(Item) /\ Covered(lock', t, <<taken>> \o rest)
  <2> HIDE DEF Item
  <2> QED BY <1>2, <1>8, <1>12, PushType, CoveredPush
<1>14. CASE /\ run' = [run EXCEPT ![t] = [run[t] EXCEPT !.left = left, !.agenda = <<noted>> \o rest]]
            /\ UNCHANGED <<tables, pc, req, pend, answer>>
  <2> DEFINE agenda == <<noted>> \o rest
             walker == [run[t] EXCEPT !.left = left, !.agenda = agenda]
  <2> HIDE DEF agenda
  <2>1. walker \in Walker /\ walker.agenda = agenda /\ walker.used = run[t].used
    <3> HIDE DEF Assigns, Item
    <3> QED BY <1>2, <1>6, <1>13 DEF Walker, agenda
  <2>2. run' = [run EXCEPT ![t] = walker]  BY <1>14 DEF agenda
  <2>3. Covered(lock', t, walker.agenda)  BY <1>13, <2>1 DEF agenda
  <2> HIDE DEF walker
  <2> QED BY <1>2, <1>11, <1>14, <2>1, <2>2, <2>3, WalkOnSafe
<1>15. CASE /\ rid \notin run[t].used /\ ~Problem(rid, item.win, 1, Seen(t))
            /\ Hold(t, rid, item.win, 1, item.depth, left, <<taken>> \o rest)
  BY <1>2, <1>3, <1>5, <1>11, <1>13, <1>15, HoldSafe
<1> QED BY <1>9, <1>14, <1>15

\* A candidate found by code, locked and judged under its lock.
LEMMA KindPickSafe ==
    ASSUME TypeOK, ChecksHoldToTheEnd, NEW t \in Txns, KindPick(t)
    PROVE  ChecksHoldToTheEnd'
<1> DEFINE head == Head(run[t].agenda)
           rest == Tail(run[t].agenda)
<1>1. Walking(t, "kind")  BY DEF KindPick
<1>2. /\ run[t] \in Walker /\ run[t].agenda \in Seq(Item) /\ run[t].agenda # <<>>
      /\ head \in KindItem /\ rest \in Seq(Item) /\ pc[t] = "walk" /\ head.do = "kind"
  BY <1>1, WalkingItem DEF Walking
<1>3. PICK rid \in Lowest(Open(t), CodeRank) :
        LET item == [head EXCEPT !.cands = @ \ {rid}]
        IN  /\ CanLock(t, rid) /\ lock' = [lock EXCEPT ![rid] = t]
            /\ \/ /\ run' = [run EXCEPT ![t] = [run[t] EXCEPT !.agenda = <<item>> \o rest]]
                  /\ UNCHANGED <<tables, pc, req, pend, answer>>
               \/ /\ ~Problem(rid, item.win, 1, Seen(t))
                  /\ Hold(t, rid, item.win, 1, item.depth, run[t].left,
                          <<[item EXCEPT !.got = @ + 1]>> \o rest)
  BY DEF KindPick
<1>4. rid \in Resources /\ rid \notin run[t].used  BY <1>2 DEF Lowest, Open, KindItem
<1> DEFINE item == [head EXCEPT !.cands = @ \ {rid}]
           taken == [item EXCEPT !.got = @ + 1]
<1>5. item \in KindItem  BY <1>2, KindItemSteps
<1>6. /\ item \in Item /\ taken \in Item /\ item.do # "row" /\ taken.do # "row"
      /\ item.win \in Spans /\ item.depth \in Nat
  <2> HIDE DEF item
  <2>1. item \in KindItem /\ taken \in KindItem  BY <1>5, KindItemSteps
  <2> QED BY <2>1 DEF Item, KindItem
<1>7. \/ /\ run' = [run EXCEPT ![t] = [run[t] EXCEPT !.agenda = <<item>> \o rest]]
         /\ UNCHANGED <<tables, pc, req, pend, answer>>
      \/ /\ ~Problem(rid, item.win, 1, Seen(t))
         /\ Hold(t, rid, item.win, 1, item.depth, run[t].left, <<taken>> \o rest)
  BY <1>3
<1>8. Covered(lock, t, rest)  BY <1>2, CoveredTail DEF ChecksHoldToTheEnd, Guarding
<1>9. CanLock(t, rid) /\ lock' = [lock EXCEPT ![rid] = t]  BY <1>3
<1> HIDE DEF head, item, rest, taken
<1>10. /\ lock'[rid] = t
       /\ \A r \in Resources : lock[r] = t => lock'[r] = t
       /\ \A r \in Resources : \A u \in Txns \ {t} : lock'[r] = u <=> lock[r] = u
  BY <1>4, <1>9, LockTurn
<1>11. Covered(lock', t, rest)  BY <1>2, <1>8, <1>10, CoveredMore
<1>12. /\ <<item>> \o rest \in Seq(Item) /\ Covered(lock', t, <<item>> \o rest)
       /\ <<taken>> \o rest \in Seq(Item) /\ Covered(lock', t, <<taken>> \o rest)
  <2> HIDE DEF Item
  <2> QED BY <1>2, <1>6, <1>11, PushType, CoveredPush
<1>13. CASE /\ run' = [run EXCEPT ![t] = [run[t] EXCEPT !.agenda = <<item>> \o rest]]
            /\ UNCHANGED <<tables, pc, req, pend, answer>>
  <2> DEFINE agenda == <<item>> \o rest
             walker == [run[t] EXCEPT !.agenda = agenda]
  <2> HIDE DEF agenda
  <2>1. walker \in Walker  BY <1>2, <1>12, WithAgenda DEF agenda
  <2>2. walker.agenda = agenda /\ walker.used = run[t].used  BY <1>2 DEF Walker
  <2>3. run' = [run EXCEPT ![t] = walker]  BY <1>13 DEF agenda
  <2>4. Covered(lock', t, walker.agenda)  BY <1>12, <2>2 DEF agenda
  <2> HIDE DEF walker
  <2> QED BY <1>2, <1>10, <1>13, <2>1, <2>2, <2>3, <2>4, WalkOnSafe
<1>14. CASE /\ ~Problem(rid, item.win, 1, Seen(t))
            /\ Hold(t, rid, item.win, 1, item.depth, run[t].left, <<taken>> \o rest)
  BY <1>2, <1>4, <1>6, <1>10, <1>12, <1>14, HoldSafe
<1> QED BY <1>7, <1>13, <1>14

\* The candidates are read, and the kind is done with.
LEMMA KindListSafe ==
    ASSUME TypeOK, ChecksHoldToTheEnd, NEW t \in Txns, KindScan(t) \/ KindDone(t)
    PROVE  ChecksHoldToTheEnd'
<1> DEFINE item == Head(run[t].agenda)
           rest == Tail(run[t].agenda)
<1>1. Walking(t, "kind")  BY DEF KindScan, KindDone
<1>2. /\ run[t].agenda \in Seq(Item) /\ run[t].agenda # <<>> /\ item \in KindItem
      /\ rest \in Seq(Item) /\ pc[t] = "walk" /\ item.do = "kind"
  BY <1>1, WalkingItem DEF Walking
<1>3. Covered(lock, t, rest)  BY <1>2, CoveredTail DEF ChecksHoldToTheEnd, Guarding
<1>4. CASE KindScan(t)
  <2> DEFINE read == [item EXCEPT !.scanned = TRUE,
                        !.cands = {r \in Resources : KindOf[r] = item.row.kind /\ res[r].active}]
  <2>1. Then(t, <<read>> \o rest)  BY <1>4 DEF KindScan
  <2>2. read \in Item /\ read.do # "row"  BY <1>2 DEF Item, KindItem
  <2> HIDE DEF read, rest
  <2>3. <<read>> \o rest \in Seq(Item) /\ Covered(lock, t, <<read>> \o rest)
    <3> HIDE DEF Item
    <3> QED BY <1>2, <1>3, <2>2, PushType, CoveredPush
  <2> QED BY <1>2, <2>1, <2>3, ThenSafe
<1>5. CASE KindDone(t)
  <2>1. CASE Miss(t, item.row)  BY <1>1, <2>1, MissSafe
  <2>2. CASE Then(t, rest)  BY <1>2, <1>3, <2>2, ThenSafe
  <2> QED BY <1>5, <2>1, <2>2 DEF KindDone
<1> QED BY <1>4, <1>5
-----------------------------------------------------------------------------
(* The steps that write the tables. *)

\* A transaction that ends lets go of everything it had.
LEMMA FinishTurn ==
    ASSUME TypeOK, NEW t \in Txns, NEW code, NEW row, Finish(t, code, row)
    PROVE  TurnOf(t) /\ Guarding(t)' /\ StillFree(t)'
<1>1. Released(t, "done")  BY DEF Finish, Released
<1> QED BY <1>1, ReleasedTurn DEF Places

\* Two windows meet whichever is named first.
LEMMA OverlapsSymmetric == \A v, w : Overlaps(v, w) <=> Overlaps(w, v)
BY DEF Overlaps

\* The commit: what was free when it was checked is free still, and the rows
\* go where no other booking is at work.
LEMMA CommitSafe ==
    ASSUME TypeOK, ChecksHoldToTheEnd, NEW t \in Txns, Commit(t)
    PROVE  ChecksHoldToTheEnd'
<1>1. reservations' = reservations \cup pend[t] /\ res' = res  BY DEF Commit
<1>2. TurnOf(t) /\ Guarding(t)' /\ StillFree(t)'
  <2>1. Finish(t, "created", <<t, req[t].rid>>)  BY DEF Commit
  <2> QED BY <2>1, FinishTurn
<1>3. \A b \in pend[t] :
        /\ lock[b.rid] = t /\ b.status = "HELD" /\ b.mode = res[b.rid].mode
        /\ b.mode = "EXCLUSIVE" => Meeting(reservations, b.rid, b.win) = {}
  BY DEF ChecksHoldToTheEnd, Guarding, StillFree
<1>4. \A a, b \in pend[t] : a.rid = b.rid => a = b  BY DEF ChecksHoldToTheEnd, StillFree
<1>5. NoDoubleBooking'
  <2> SUFFICES ASSUME NEW a \in reservations', NEW b \in reservations',
                      a # b, a.rid = b.rid, res[a.rid].mode = "EXCLUSIVE",
                      a.status = "HELD", b.status = "HELD"
               PROVE  ~Overlaps(a.win, b.win)
    BY <1>1 DEF NoDoubleBooking
  <2>1. CASE a \in reservations /\ b \in reservations
    BY <2>1 DEF ChecksHoldToTheEnd, NoDoubleBooking
  <2>2. CASE a \in pend[t] /\ b \in reservations
    <3>1. Meeting(reservations, a.rid, a.win) = {}  BY <1>3, <2>2
    <3> QED BY <2>2, <3>1, OverlapsSymmetric DEF Meeting, Held
  <2>3. CASE b \in pend[t] /\ a \in reservations
    <3>1. Meeting(reservations, b.rid, b.win) = {}  BY <1>3, <2>3
    <3> QED BY <2>3, <3>1 DEF Meeting, Held
  <2> QED BY <1>1, <1>4, <2>1, <2>2, <2>3
<1>6. ModeIsTheResources'
  <2>1. \A b \in reservations' : b.rid \in Resources /\ b.status = "HELD" => b.mode = res[b.rid].mode
    BY <1>1, <1>3 DEF ChecksHoldToTheEnd, ModeIsTheResources, Held
  <2> QED BY <1>1, <2>1 DEF ModeIsTheResources, Held
<1>7. ASSUME NEW u \in Txns \ {t} PROVE StillFree(u)'
  <2>1. /\ pc'[u] = pc[u] /\ req'[u] = req[u] /\ pend'[u] = pend[u] /\ run'[u] = run[u]
    BY <1>2 DEF TurnOf
  <2>2. Guarding(u) /\ StillFree(u)  BY DEF ChecksHoldToTheEnd
  <2>3. ASSUME NEW rid, NEW win, lock[rid] = u
        PROVE  Meeting(reservations', rid, win) = Meeting(reservations, rid, win)
    <3>1. \A b \in pend[t] : b.rid # rid  BY <1>3, <2>3
    <3> QED BY <1>1, <3>1 DEF Meeting, Held
  <2>4. pc[u] = "flush" => Meeting(reservations', req[u].rid, req[u].win)
                            = Meeting(reservations, req[u].rid, req[u].win)
    BY <2>2, <2>3 DEF Guarding
  <2>5. \A b \in pend[u] : Meeting(reservations', b.rid, b.win) = Meeting(reservations, b.rid, b.win)
    BY <2>2, <2>3 DEF Guarding
  <2> QED BY <1>1, <2>1, <2>2, <2>4, <2>5 DEF StillFree
<1>8. \A u \in Txns : Guarding(u)' /\ StillFree(u)'
  BY <1>2, <1>7, OthersGuarding DEF ChecksHoldToTheEnd
<1> QED BY <1>5, <1>6, <1>8 DEF ChecksHoldToTheEnd

\* Rewriting rows in place is safe when none of them is moved, re-moded or
\* put back.
LEMMA RewriteSafe ==
    ASSUME TypeOK, ChecksHoldToTheEnd, NEW t \in Txns, TurnOf(t), Guarding(t)', StillFree(t)', res' = res,
           NEW f, reservations' = {f[b] : b \in reservations},
           \A b \in reservations : /\ f[b].rid = b.rid /\ f[b].win = b.win /\ f[b].mode = b.mode
                                   /\ f[b].status = "HELD" => b.status = "HELD"
    PROVE  ChecksHoldToTheEnd'
<1>1. NoDoubleBooking'
  <2> SUFFICES ASSUME NEW a \in reservations, NEW b \in reservations,
                      f[a] # f[b], f[a].rid = f[b].rid, res[f[a].rid].mode = "EXCLUSIVE",
                      f[a].status = "HELD", f[b].status = "HELD"
               PROVE  ~Overlaps(f[a].win, f[b].win)
    BY DEF NoDoubleBooking
  <2>1. a # b /\ a.rid = b.rid /\ res[a.rid].mode = "EXCLUSIVE" /\ a.status = "HELD" /\ b.status = "HELD"
    OBVIOUS
  <2>2. ~Overlaps(a.win, b.win)  BY <2>1 DEF ChecksHoldToTheEnd, NoDoubleBooking
  <2> QED BY <2>2
<1>2. ModeIsTheResources'
  BY DEF ChecksHoldToTheEnd, ModeIsTheResources, Held
<1>3. \A rid, win : Meeting(reservations, rid, win) = {} => Meeting(reservations', rid, win) = {}
  BY DEF Meeting, Held
<1>4. ASSUME NEW u \in Txns \ {t} PROVE StillFree(u)'
  <2>1. /\ pc'[u] = pc[u] /\ req'[u] = req[u] /\ pend'[u] = pend[u] /\ run'[u] = run[u]
    BY DEF TurnOf
  <2>2. StillFree(u)  BY DEF ChecksHoldToTheEnd
  <2> QED BY <1>3, <2>1, <2>2 DEF StillFree
<1>5. \A u \in Txns : Guarding(u)' /\ StillFree(u)'
  BY <1>4, OthersGuarding DEF ChecksHoldToTheEnd
<1> QED BY <1>1, <1>2, <1>5 DEF ChecksHoldToTheEnd

\* Cancelling and re-referencing.
LEMMA AmendSafe ==
    ASSUME TypeOK, ChecksHoldToTheEnd, NEW t \in Txns, Amend(t)
    PROVE  ChecksHoldToTheEnd'
<1>0. reservations \subseteq Row  BY DEF TypeOK, TablesOK
<1>1. CASE NotChangeable(t)  BY <1>1, RefuseSafe DEF NotChangeable
<1>2. CASE CancelTwice(t)  BY <1>2, RefuseSafe DEF CancelTwice
<1>3. CASE CancelRead(t)  BY <1>3, ReadSafe DEF CancelRead, Starts
<1>4. CASE CancelChildren(t)
  <2>1. /\ pc[t] = "cancel" /\ pc' = [pc EXCEPT ![t] = "letgo"]
        /\ UNCHANGED <<tables, lock, req, pend, answer>>
        /\ run'[t].agenda = run[t].agenda /\ \A u \in Txns \ {t} : run'[u] = run[u]
    BY <1>4 DEF CancelChildren, Goto, TypeOK, TxnsOK
  <2>2. pc'[t] = "letgo" /\ \A u \in Txns \ {t} : pc'[u] = pc[u]  BY <2>1 DEF TypeOK, TxnsOK
  <2>3. TurnOf(t)  BY <2>1, <2>2 DEF TurnOf
  <2>4. Guarding(t) /\ pend[t] = {}  BY <2>1 DEF ChecksHoldToTheEnd, Guarding
  <2>5. Guarding(t)'  BY <2>1, <2>2, <2>4 DEF Guarding
  <2>6. StillFree(t)'  BY <2>1, <2>2, <2>4 DEF StillFree
  <2> QED BY <2>1, <2>3, <2>5, <2>6, OwnTurn
<1>5. CASE CancelWrite(t)
  <2> DEFINE f == [b \in reservations |-> IF b \in LetGo(t)
                                          THEN [b EXCEPT !.status = "CANCELLED", !.at = t] ELSE b]
  <2>1. reservations' = {f[b] : b \in reservations} /\ res' = res  BY <1>5 DEF CancelWrite
  <2>2. \A b \in reservations : /\ f[b].rid = b.rid /\ f[b].win = b.win /\ f[b].mode = b.mode
                                /\ f[b].status = "HELD" => b.status = "HELD"
    BY <1>0 DEF Row
  <2>3. TurnOf(t) /\ Guarding(t)' /\ StillFree(t)'  BY <1>5, FinishTurn DEF CancelWrite
  <2> HIDE DEF f
  <2> QED BY <2>1, <2>2, <2>3, RewriteSafe
<1>6. CASE ReferSame(t)  BY <1>6, RefuseSafe DEF ReferSame
<1>7. CASE ReferRefused(t)  BY <1>7, RefuseSafe DEF ReferRefused
<1>8. CASE ReferRead(t)  BY <1>8, ReadSafe DEF ReferRead, Starts
<1>9. CASE ReferWrite(t)
  <2>1. CASE Rollback(t, "referlost")  BY <2>1, RollbackSafe
  <2>2. CASE ~Rollback(t, "referlost")
    <3> DEFINE f == [b \in reservations |-> IF b.id = req[t].row THEN [b EXCEPT !.ref = req[t].ref] ELSE b]
    <3>1. /\ reservations' = {f[b] : b \in reservations} /\ res' = res
          /\ Finish(t, "updated", req[t].row)
      BY <1>9, <2>2 DEF ReferWrite
    <3>2. \A b \in reservations : /\ f[b].rid = b.rid /\ f[b].win = b.win /\ f[b].mode = b.mode
                                  /\ f[b].status = "HELD" => b.status = "HELD"
      BY <1>0 DEF Row
    <3>3. TurnOf(t) /\ Guarding(t)' /\ StillFree(t)'  BY <3>1, FinishTurn
    <3> HIDE DEF f
    <3> QED BY <3>1, <3>2, <3>3, RewriteSafe
  <2> QED BY <2>1, <2>2
<1>10. CASE ReferLost(t)  BY <1>10, RefuseSafe DEF ReferLost
<1> QED BY <1>1, <1>2, <1>3, <1>5, <1>6, <1>7, <1>8, <1>9, <1>10, <1>4 DEF Amend

\* A mode change: nobody is booking the resource, its holds fit the new mode,
\* and they take it along.
LEMMA ChangeSafe ==
    ASSUME TypeOK, ChecksHoldToTheEnd, NEW t \in Txns, Change(t)
    PROVE  ChecksHoldToTheEnd'
<1> DEFINE r == req[t]
           rid == req[t].rid
           moves == r.mode # res[rid].mode
           f == [b \in reservations |-> IF moves /\ b \in Held(reservations, rid)
                                        THEN [b EXCEPT !.mode = r.mode] ELSE b]
<1>1. Starts(t, "change") /\ CanLock(t, rid)  BY DEF Change
<1>2. r \in ChangeRequest  BY <1>1, StartsType
<1>3. rid \in Resources /\ r.mode \in Modes  BY <1>2 DEF ChangeRequest
<1>4. /\ Tightens(r) => Misfits(rid, r.mode, r.cap) = {}
      /\ res' = [res EXCEPT ![rid] = [mode |-> r.mode, cap |-> r.cap, active |-> r.active]]
      /\ reservations' = {f[b] : b \in reservations}
  BY DEF Change
<1>5. TurnOf(t) /\ Guarding(t)' /\ StillFree(t)'
  <2>1. Finish(t, "changed", NoRow)  BY DEF Change
  <2> QED BY <2>1, FinishTurn
<1>6. \A u \in Txns : lock[rid] # u
  <2>1. pc[t] = "asked"  BY <1>1 DEF Starts
  <2>2. lock[rid] # t  BY <1>3, <2>1 DEF ChecksHoldToTheEnd, Guarding
  <2> QED BY <1>1, <2>2, TxnsAssumption DEF CanLock
<1>7. reservations \subseteq Row  BY DEF TypeOK, TablesOK
<1>8. \A b \in reservations :
        /\ f[b].rid = b.rid /\ f[b].win = b.win /\ f[b].status = b.status
        /\ b.rid # rid \/ b.status # "HELD" \/ ~moves => f[b] = b
        /\ b.rid = rid /\ b.status = "HELD" /\ moves => f[b].mode = r.mode
  BY <1>7 DEF Row, Held
<1>9. /\ res'[rid].mode = r.mode
      /\ \A other \in Resources \ {rid} : res'[other] = res[other]
  BY <1>3, <1>4 DEF TypeOK, TablesOK
<1> HIDE DEF f
<1>10. ModeIsTheResources'
  <2> SUFFICES ASSUME NEW b \in reservations, f[b].rid \in Resources, f[b].status = "HELD"
               PROVE  f[b].mode = res'[f[b].rid].mode
    BY <1>4 DEF ModeIsTheResources, Held
  <2>1. b.mode = res[b.rid].mode  BY <1>8 DEF ChecksHoldToTheEnd, ModeIsTheResources, Held
  <2>2. CASE b.rid # rid  BY <1>8, <1>9, <2>1, <2>2
  <2>3. CASE b.rid = rid /\ moves  BY <1>8, <1>9, <2>3
  <2>4. CASE b.rid = rid /\ ~moves  BY <1>8, <1>9, <2>1, <2>4
  <2> QED BY <2>2, <2>3, <2>4
<1>11. NoDoubleBooking'
  <2> SUFFICES ASSUME NEW a \in reservations, NEW b \in reservations,
                      f[a] # f[b], f[a].rid = f[b].rid, res'[f[a].rid].mode = "EXCLUSIVE",
                      f[a].status = "HELD", f[b].status = "HELD"
               PROVE  ~Overlaps(f[a].win, f[b].win)
    BY <1>4 DEF NoDoubleBooking
  <2>1. a # b /\ a.rid = b.rid /\ a.rid \in Resources /\ a.status = "HELD" /\ b.status = "HELD"
    BY <1>7, <1>8 DEF Row
  <2>2. CASE res[a.rid].mode = "EXCLUSIVE"
    <3>1. ~Overlaps(a.win, b.win)  BY <2>1, <2>2 DEF ChecksHoldToTheEnd, NoDoubleBooking
    <3> QED BY <1>8, <3>1
  <2>3. CASE res[a.rid].mode # "EXCLUSIVE"
    <3>1. a.rid = rid /\ r.mode = "EXCLUSIVE" /\ moves  BY <1>8, <1>9, <2>1, <2>3
    <3>2. Misfits(rid, "EXCLUSIVE", r.cap) = {}  BY <1>4, <3>1 DEF Tightens
    <3>3. a \in Held(reservations, rid) /\ b \in Held(reservations, rid) \ {a}
      BY <2>1, <3>1 DEF Held
    <3>4. ~Overlaps(a.win, b.win)  BY <3>2, <3>3 DEF Misfits
    <3> QED BY <1>8, <3>4
  <2> QED BY <2>2, <2>3
<1>12. \A other, win : Meeting(reservations, other, win) = {} => Meeting(reservations', other, win) = {}
  BY <1>4, <1>8 DEF Meeting, Held
<1>13. ASSUME NEW u \in Txns \ {t} PROVE StillFree(u)'
  <2>1. /\ pc'[u] = pc[u] /\ req'[u] = req[u] /\ pend'[u] = pend[u] /\ run'[u] = run[u]
    BY <1>5 DEF TurnOf
  <2>2. Guarding(u) /\ StillFree(u)  BY DEF ChecksHoldToTheEnd
  <2>3. \A b \in pend[u] : b.rid \in Resources /\ b.rid # rid /\ res'[b.rid] = res[b.rid]
    <3>1. pend[u] \subseteq Row  BY DEF TypeOK, TxnsOK
    <3>2. \A b \in pend[u] : b.rid \in Resources  BY <3>1 DEF Row
    <3>3. \A b \in pend[u] : b.rid # rid  BY <1>6, <2>2 DEF Guarding
    <3> QED BY <1>9, <3>2, <3>3
  <2>4. pc[u] = "flush" => req[u].rid \in Resources /\ res'[req[u].rid] = res[req[u].rid]
    <3>1. pc[u] = "flush" => req[u].rid \in Resources  BY DEF TypeOK, TxnsOK, Placed, BookRequest
    <3>2. pc[u] = "flush" => req[u].rid # rid  BY <1>6, <2>2 DEF Guarding
    <3> QED BY <1>9, <3>1, <3>2
  <2>5. pc[u] = "flush" /\ res'[req[u].rid].mode = "EXCLUSIVE" =>
          Meeting(reservations', req[u].rid, req[u].win) = {}
    BY <1>12, <2>2, <2>4 DEF StillFree
  <2>6. ASSUME NEW b \in pend[u]
        PROVE  /\ b.status = "HELD" /\ b.mode = res'[b.rid].mode /\ b.rid \in run[u].used
               /\ b.mode = "EXCLUSIVE" => Meeting(reservations', b.rid, b.win) = {}
    BY <1>12, <2>2, <2>3 DEF StillFree
  <2>7. \A a, b \in pend[u] : a.rid = b.rid => a = b  BY <2>2 DEF StillFree
  <2> QED BY <2>1, <2>5, <2>6, <2>7 DEF StillFree
<1>14. \A u \in Txns : Guarding(u)' /\ StillFree(u)'
  BY <1>5, <1>13, OthersGuarding DEF ChecksHoldToTheEnd
<1> QED BY <1>10, <1>11, <1>14 DEF ChecksHoldToTheEnd

\* Mode changes and the timetable.
LEMMA PlanSafe ==
    ASSUME TypeOK, ChecksHoldToTheEnd, NEW t \in Txns, Plan(t)
    PROVE  ChecksHoldToTheEnd'
<1>1. CASE ChangeRefused(t)  BY <1>1, RefuseSafe DEF ChangeRefused
<1>2. CASE Change(t)  BY <1>2, ChangeSafe
<1>3. CASE SlotRefused(t)  BY <1>3, RefuseSafe DEF SlotRefused
<1>4. CASE SlotRead(t)  BY <1>4, ReadSafe DEF SlotRead, Starts
<1>5. CASE SlotWrite(t)
  <2>1. Finish(t, "created", NoRow) /\ UNCHANGED <<res, reservations>>  BY <1>5 DEF SlotWrite
  <2> QED BY <2>1, FinishTurn, OwnTurnOnRows
<1>6. CASE SlotDelete(t)
  <2>1. PICK code : Finish(t, code, NoRow)  BY <1>6 DEF SlotDelete
  <2>2. UNCHANGED <<res, reservations>>  BY <1>6 DEF SlotDelete
  <2> QED BY <2>1, <2>2, FinishTurn, OwnTurnOnRows
<1> QED BY <1>1, <1>2, <1>3, <1>4, <1>5, <1>6 DEF Plan

\* Every step keeps the invariant.
LEMMA SafeNext ==
    ASSUME TypeOK, ChecksHoldToTheEnd, [Next]_vars
    PROVE  ChecksHoldToTheEnd'
<1>1. ASSUME NEW t \in Txns, Book(t) PROVE ChecksHoldToTheEnd'
  <2>1. CASE BookRefused(t)  BY <2>1, RefuseSafe DEF BookRefused
  <2>2. CASE FlushLost(t)  BY <2>2, RollbackSafe DEF FlushLost
  <2>3. CASE Lost(t)
    <3>1. PICK code : Refuse(t, code, Named(req[t], code))  BY <2>3 DEF Lost
    <3> QED BY <3>1, RefuseSafe
  <2>4. CASE LeftOver(t)  BY <2>4, RefuseSafe DEF LeftOver
  <2>5. CASE DeadlockVictim(t)  BY <2>5, RefuseSafe DEF DeadlockVictim
  <2> QED BY <1>1, <2>1, <2>2, <2>3, <2>4, <2>5, BookAdmittedSafe, FlushTakenSafe, WalkLockSafe,
             WalkRowSafe, KindAssignedSafe, KindPickSafe, KindListSafe, CommitSafe DEF Book
<1>2. ASSUME NEW t \in Txns, Crash(t) PROVE ChecksHoldToTheEnd'
  BY <1>2, RefuseSafe DEF Crash
<1>3. ASSUME UNCHANGED vars PROVE ChecksHoldToTheEnd'
  BY <1>3 DEF vars, ChecksHoldToTheEnd, NoDoubleBooking, ModeIsTheResources, Guarding, StillFree,
              Covered, Meeting, Held
<1> QED BY <1>1, <1>2, <1>3, AmendSafe, PlanSafe DEF Next, Step, Quiet

\* Nothing is held, nothing is locked.
LEMMA SafeInit == Init => ChecksHoldToTheEnd
<1> SUFFICES ASSUME Init PROVE ChecksHoldToTheEnd  OBVIOUS
<1>1. NoDoubleBooking /\ ModeIsTheResources  BY DEF Init, NoDoubleBooking, ModeIsTheResources, Held
<1>2. ASSUME NEW t \in Txns PROVE Guarding(t) /\ StillFree(t)
  <2>1. /\ pc[t] = "asked" /\ pend[t] = {} /\ run[t].agenda = <<>>
        /\ \A rid \in Resources : lock[rid] = Nobody
    BY DEF Init, NoRun
  <2>2. Covered(lock, t, run[t].agenda)
    <3>1. Len(<<>>) = 0  OBVIOUS
    <3> QED BY <2>1, <3>1 DEF Covered
  <2> QED BY <2>1, <2>2, TxnsAssumption DEF Guarding, StillFree
<1> QED BY <1>1, <1>2 DEF ChecksHoldToTheEnd

\* What a booking finds under its row locks stays true until it commits: no
\* other booking, walk, cancellation, re-reference, mode change, class,
\* deadlock victim or crash can come in between.
THEOREM ChecksHold == Spec => []ChecksHoldToTheEnd
<1>1. Init => TypeOK /\ ChecksHoldToTheEnd  BY TypeInit, SafeInit
<1>2. TypeOK /\ ChecksHoldToTheEnd /\ [Next]_vars => (TypeOK /\ ChecksHoldToTheEnd)'
  BY TypeNext, SafeNext
<1> QED BY <1>1, <1>2, PTL DEF Spec

\* Two holds of an exclusive resource never meet, for every set of requests,
\* resources and requirements, although the table's exclusion constraint is
\* not modelled: create_reservation and the walk need no help from it.
THEOREM NeverDoubleBooked == Spec => []NoDoubleBooking
<1>1. ChecksHoldToTheEnd => NoDoubleBooking  BY DEF ChecksHoldToTheEnd
<1> QED BY <1>1, ChecksHold, PTL

\* The mode on every standing hold is its resource's, which is what the
\* partial exclusion constraint relies on.
THEOREM ModesAgree == Spec => []ModeIsTheResources
<1>1. ChecksHoldToTheEnd => ModeIsTheResources  BY DEF ChecksHoldToTheEnd
<1> QED BY <1>1, ChecksHold, PTL

\* A transaction keeps the row lock of every resource it has written a row on.
THEOREM LocksKept == Spec => []LockedWhileHeld
<1>1. ChecksHoldToTheEnd => LockedWhileHeld  BY DEF ChecksHoldToTheEnd, Guarding, LockedWhileHeld
<1> QED BY <1>1, ChecksHold, PTL
-----------------------------------------------------------------------------
(* II. Whose the rows are. *)

\* The row is one of those t's request makes.
Makes(t, b) ==
    /\ req[t] \in BookRequest
    /\ b.id = <<t, b.rid>> /\ b.by = req[t].by /\ b.key[1] = req[t].key
    /\ b.parent \in {NoRow, <<t, req[t].rid>>}

\* The row on the resource asked for.
First(t, b) == b.id = <<t, req[t].rid>> /\ b.by = req[t].by /\ b.key = <<req[t].key, 0>>

\* The rows not committed: numbered in the order they were made, the first among them.
Writes(t) ==
    /\ \A b \in pend[t] : Makes(t, b) /\ b.key[2] < Cardinality(pend[t])
    /\ pc[t] = "walk" => \E b \in pend[t] : First(t, b)

Booked(t) == req[t].op = "book" /\ answer[t].code = "created"

\* The rows committed: their request was told so, and of the first of them.
Written ==
    /\ \A b \in reservations : \E t \in Txns : Makes(t, b) /\ Booked(t)
    /\ \A t \in Txns : Booked(t) =>
         /\ pc[t] = "done" /\ answer[t].row = <<t, req[t].rid>>
         /\ \E b \in reservations : First(t, b)

AllRows == reservations \cup UNION {pend[t] : t \in Txns}

\* The two unique constraints and the primary key, over what is committed and what is not.
RowsAreUnique == \A a, b \in AllRows : a.id = b.id \/ SameUnique(a, b) => a = b

\* A replay was answered with a row under the same key.
ReplaysAreFounded ==
    \A t \in Txns : answer[t].code = "replayed" =>
        \E b \in reservations : b.id = answer[t].row /\ b.by = req[t].by /\ b.key = <<req[t].key, 0>>

MarksAreFounded ==
    \A m \in feed : m.what = "CANCELLED" => \E b \in reservations : b.id = m.row

Records ==
    /\ \A t \in Txns : Writes(t)
    /\ Written /\ RowsAreUnique /\ ReplaysAreFounded /\ MarksAreFounded /\ EveryChangeIsMarked
-----------------------------------------------------------------------------
(* What a booking still has to do. *)

Items(s) == {s[n] : n \in DOMAIN s}

OfKind(rows, kind, rid) == {r \in Resources : r # rid /\ KindOf[r] = kind /\ \E c \in rows : c.rid = r}

\* A requirement of the resource of b is met by the rows.
Met(rows, b, row) ==
    IF row.target # NoTarget
    THEN \E c \in rows : c.rid = row.target /\ c.win = Padded(b.win, row.before, row.after)
    ELSE Cardinality(OfKind(rows, row.kind, b.rid)) >= row.qty

\* It is still to be done, or being done and counted.
Owed(items, rows, b, row) ==
    \E item \in items :
        /\ item.do # "lock" /\ item.row = row
        /\ \/ item.do = "row" /\ item.win = b.win
           \/ item.do = "kind" /\ item.got <= Cardinality(OfKind(rows, row.kind, b.rid))

OfTheirKind(left) == \A k \in Kinds : \A n \in DOMAIN left[k] : KindOf[left[k][n]] = k

Sought(item) == item.row.target = NoTarget /\ \A r \in item.cands : KindOf[r] = item.row.kind

\* What t has left to do covers what its rows still require, and counts only the kind.
Provides(t) ==
    /\ pc[t] = "flush" => OfTheirKind(req[t].assign)
    /\ pc[t] = "walk" =>
         /\ OfTheirKind(run[t].left)
         /\ \A item \in Items(run[t].agenda) : item.do = "kind" => Sought(item)
         /\ \A b \in pend[t] : \A i \in DOMAIN Reqs[b.rid] : Enforced(Reqs[b.rid][i]) =>
              Met(pend[t], b, Reqs[b.rid][i]) \/ Owed(Items(run[t].agenda), pend[t], b, Reqs[b.rid][i])

\* A booking in the table has all it requires.
Whole ==
    \A b \in reservations :
        /\ IsFiniteSet({c.rid : c \in Family(b)})
        /\ \A i \in DOMAIN Reqs[b.rid] :
             Enforced(Reqs[b.rid][i]) => Met(Family(b), b, Reqs[b.rid][i])

Complete == (\A t \in Txns : Provides(t)) /\ Whole
-----------------------------------------------------------------------------
(* One writer at a time. *)

Alone == \A t, u \in Txns : Running(t) /\ Running(u) => t = u

\* What a request read is so until it writes.
ReadsHold(t) ==
    /\ pc[t] = "flush" =>
         /\ \A b \in reservations : ~SameUnique(ParentRow(t), b)
         /\ res[req[t].rid].mode # "SHARED" => ~OnTimetable(req[t].rid, req[t].win)
    /\ \A b \in pend[t] : b.mode # "SHARED" => ~OnTimetable(b.rid, b.win)
    /\ pc[t] = "cancel" => \A b \in reservations : b.id = req[t].row => b.status = "HELD"
    /\ pc[t] = "letgo" => \A b \in LetGo(t) : b.status = "HELD"
    /\ pc[t] = "slot" => ~ClassBlocked(req[t])
    /\ pc[t] # "lost"

OneWriter == Alone /\ (\A t \in Txns : ReadsHold(t)) /\ OneWriterKeepsThem

-----------------------------------------------------------------------------
(* A row and the request that makes it. *)

LEMMA FirstMakes ==
    ASSUME NEW t \in Txns, NEW u \in Txns, NEW b, Makes(t, b), Makes(u, b)
    PROVE  t = u
BY DEF Makes

\* A row is its transaction's until the commit, and in the table from then on;
\* the first row of its booking is where it is.
LEMMA RowOwner ==
    ASSUME TypeOK, ChecksHoldToTheEnd, Records, NEW b \in AllRows
    PROVE  \E u \in Txns :
             /\ Makes(u, b)
             /\ \/ b \in pend[u] /\ pc[u] = "walk" /\ \E p \in pend[u] : First(u, p)
                \/ b \in reservations /\ pc[u] = "done" /\ Booked(u) /\ \E p \in reservations : First(u, p)
<1>1. CASE b \in reservations
  <2>1. PICK u \in Txns : Makes(u, b) /\ Booked(u)  BY <1>1 DEF Records, Written
  <2>2. pc[u] = "done" /\ \E p \in reservations : First(u, p)  BY <2>1 DEF Records, Written
  <2> QED BY <1>1, <2>1, <2>2
<1>2. CASE \E u \in Txns : b \in pend[u]
  <2>1. PICK u \in Txns : b \in pend[u]  BY <1>2
  <2>2. pc[u] = "walk"  BY <2>1 DEF ChecksHoldToTheEnd, Guarding
  <2>3. Makes(u, b) /\ \E p \in pend[u] : First(u, p)  BY <2>1, <2>2 DEF Records, Writes
  <2> QED BY <2>1, <2>2, <2>3
<1> QED BY <1>1, <1>2 DEF AllRows

\* Two bookings under one key of one caller are one.
LEMMA OneFamilyPerKey ==
    ASSUME TypeOK, ChecksHoldToTheEnd, Records, NEW p \in AllRows, NEW q \in AllRows,
           NEW t \in Txns, NEW u \in Txns, First(t, p), First(u, q),
           req[t].by = req[u].by, req[t].key = req[u].key
    PROVE  t = u
<1>1. SameUnique(p, q)  BY DEF First, SameUnique
<1>2. p = q  BY <1>1 DEF Records, RowsAreUnique
<1> QED BY <1>2 DEF First
-----------------------------------------------------------------------------
(* The records, step by step. *)

\* A step of t that writes no row and no marker: a refusal, a rollback, a
\* reading, a turn of the walk, a class.
LEMMA QuietRecords ==
    ASSUME TypeOK, Records, NEW t \in Txns, pc[t] # "done",
           UNCHANGED <<reservations, feed, req>>,
           NEW where, pc' = [pc EXCEPT ![t] = where],
           \/ pend' = pend /\ (where = "walk" => pc[t] = "walk")
           \/ pend' = [pend EXCEPT ![t] = {}] /\ where # "walk",
           \/ answer' = answer
           \/ \E code, row :
                /\ answer' = [answer EXCEPT ![t] = [code |-> code, row |-> row]]
                /\ where = "done" /\ (code = "created" => req[t].op # "book")
                /\ (code = "replayed" => \E b \in ByKey(req[t]) : row = b.id)
    PROVE  Records'
<1>1. /\ \A u \in Txns : pc'[u] = IF u = t THEN where ELSE pc[u]
      /\ \A u \in Txns : u # t => answer'[u] = answer[u] /\ pend'[u] = pend[u]
      /\ pend'[t] = pend[t] \/ (pend'[t] = {} /\ where # "walk")
  BY DEF TypeOK, TxnsOK
<1>2. ~Booked(t) /\ ~Booked(t)'
  <2>1. ~Booked(t)  BY DEF Records, Written
  <2>2. CASE answer' = answer  BY <2>1, <2>2 DEF Booked
  <2>3. CASE answer' # answer
    <3>1. PICK code, row :
            /\ answer' = [answer EXCEPT ![t] = [code |-> code, row |-> row]]
            /\ (code = "created" => req[t].op # "book")
      BY <2>3
    <3>2. answer'[t].code = code  BY <3>1 DEF TypeOK, TxnsOK
    <3> QED BY <2>1, <3>1, <3>2 DEF Booked
  <2> QED BY <2>1, <2>2, <2>3
<1>3. \A u \in Txns : (Booked(u)' <=> Booked(u)) /\ (Booked(u) => u # t /\ answer'[u] = answer[u])
  BY <1>1, <1>2 DEF Booked
<1>4. ASSUME NEW u \in Txns PROVE Writes(u)'
  <2>1. Writes(u)  BY DEF Records
  <2>2. CASE pend'[u] = pend[u]
    <3>1. pc'[u] = "walk" => pc[u] = "walk"
      BY <1>1, <2>2
    <3> QED BY <2>1, <2>2, <3>1 DEF Writes, Makes, First
  <2>3. CASE pend'[u] = {} /\ pc'[u] # "walk"  BY <2>3 DEF Writes
  <2> QED BY <1>1, <2>2, <2>3
<1>5. Written'
  <2>1. \A b \in reservations : \E u \in Txns : Makes(u, b)' /\ Booked(u)'
    BY <1>3 DEF Records, Written, Makes
  <2>2. ASSUME NEW u \in Txns, Booked(u)'
        PROVE  pc'[u] = "done" /\ answer'[u].row = <<u, req[u].rid>> /\ \E b \in reservations : First(u, b)
    BY <1>1, <1>3, <2>2 DEF Records, Written
  <2> QED BY <2>1, <2>2 DEF Written, First
<1>6. RowsAreUnique'
  <2>1. AllRows' \subseteq AllRows
    <3>1. \A u \in Txns : pend'[u] \subseteq pend[u]  BY <1>1
    <3> QED BY <3>1 DEF AllRows
  <2> QED BY <2>1 DEF Records, RowsAreUnique, SameUnique
<1>7. ReplaysAreFounded'
  <2> SUFFICES ASSUME NEW u \in Txns, answer'[u].code = "replayed"
               PROVE  \E b \in reservations : b.id = answer'[u].row /\ b.by = req[u].by /\ b.key = <<req[u].key, 0>>
    BY DEF ReplaysAreFounded
  <2>1. CASE answer'[u] = answer[u]  BY <2>1 DEF Records, ReplaysAreFounded
  <2>2. CASE answer'[u] # answer[u]
    <3>1. PICK code, row :
            /\ answer' = [answer EXCEPT ![t] = [code |-> code, row |-> row]]
            /\ (code = "replayed" => \E b \in ByKey(req[t]) : row = b.id)
      BY <2>2
    <3>2. u = t /\ answer'[u].code = code /\ answer'[u].row = row  BY <1>1, <2>2, <3>1 DEF TypeOK, TxnsOK
    <3> QED BY <3>1, <3>2 DEF ByKey
  <2> QED BY <2>1, <2>2
<1>8. MarksAreFounded' /\ EveryChangeIsMarked'
  BY DEF Records, MarksAreFounded, EveryChangeIsMarked
<1> QED BY <1>4, <1>5, <1>6, <1>7, <1>8 DEF Records

\* One more row, under a number and on a resource of its own.
LEMMA AddedRecords ==
    ASSUME TypeOK, ChecksHoldToTheEnd, Records, NEW t \in Txns, pc[t] \in {"flush", "walk"},
           NEW c, Makes(t, c), c.key[2] = Cardinality(pend[t]),
           pc[t] = "flush" => First(t, c),
           \A b \in AllRows : b.id # c.id /\ ~SameUnique(b, c),
           pend' = [pend EXCEPT ![t] = pend[t] \cup {c}], pc' = [pc EXCEPT ![t] = "walk"],
           UNCHANGED <<reservations, feed, req, answer>>
    PROVE  Records'
<1>1. /\ \A u \in Txns : pc'[u] = IF u = t THEN "walk" ELSE pc[u]
      /\ \A u \in Txns : u # t => pend'[u] = pend[u]
      /\ pend'[t] = pend[t] \cup {c} /\ pc[t] # "done"
  BY DEF TypeOK, TxnsOK
<1>2. c \notin pend[t]  BY DEF AllRows
<1>3. Cardinality(pend'[t]) = Cardinality(pend[t]) + 1 /\ Cardinality(pend[t]) \in Nat
  <2>1. IsFiniteSet(pend[t])  BY DEF TypeOK, TxnsOK
  <2> QED BY <1>1, <1>2, <2>1, FS_AddElement, FS_CardinalityType
<1>4. ASSUME NEW u \in Txns PROVE Writes(u)'
  <2>1. Writes(u)  BY DEF Records
  <2>2. CASE u # t  BY <1>1, <2>1, <2>2 DEF Writes, Makes, First
  <2>3. CASE u = t
    <3>1. ASSUME NEW b \in pend'[t] PROVE Makes(t, b)' /\ b.key[2] < Cardinality(pend'[t])
      <4>1. CASE b = c  BY <1>3, <4>1 DEF Makes
      <4>2. CASE b \in pend[t]
        <5>1. Makes(t, b) /\ b.key[2] < Cardinality(pend[t])  BY <2>1, <2>3, <4>2 DEF Writes
        <5>2. b.key[2] \in Nat  BY <4>2 DEF TypeOK, TxnsOK, Row
        <5>3. b.key[2] < Cardinality(pend'[t])  BY <1>3, <5>1, <5>2
        <5> QED BY <5>1, <5>3 DEF Makes
      <4> QED BY <1>1, <4>1, <4>2
    <3>2. \E b \in pend'[t] : First(t, b)'
      <4>1. CASE pc[t] = "flush"  BY <1>1, <4>1 DEF First
      <4>2. CASE pc[t] = "walk"  BY <1>1, <2>1, <2>3, <4>2 DEF Writes, First
      <4> QED BY <4>1, <4>2
    <3> QED BY <2>3, <3>1, <3>2 DEF Writes
  <2> QED BY <2>2, <2>3
<1>5. Written'
  <2>1. \A u \in Txns : Booked(u)' <=> Booked(u)  BY DEF Booked
  <2>2. ~Booked(t)  BY <1>1 DEF Records, Written
  <2>3. \A b \in reservations : \E u \in Txns : Makes(u, b)' /\ Booked(u)'
    BY <2>1 DEF Records, Written, Makes
  <2>4. \A u \in Txns : Booked(u) => /\ pc'[u] = "done" /\ answer'[u].row = <<u, req'[u].rid>>
                                     /\ \E b \in reservations : First(u, b)'
    BY <1>1, <2>2 DEF Records, Written, First
  <2> QED BY <2>1, <2>3, <2>4 DEF Written
<1>6. RowsAreUnique'
  <2>1. AllRows' \subseteq AllRows \cup {c}
    <3>1. \A u \in Txns : pend'[u] \subseteq pend[u] \cup {c}  BY <1>1
    <3> QED BY <3>1 DEF AllRows
  <2>2. \A b \in AllRows : c.id # b.id /\ ~SameUnique(c, b)  BY DEF SameUnique
  <2> QED BY <2>1, <2>2 DEF Records, RowsAreUnique, SameUnique
<1>7. ReplaysAreFounded' /\ MarksAreFounded' /\ EveryChangeIsMarked'
  BY DEF Records, ReplaysAreFounded, MarksAreFounded, EveryChangeIsMarked
<1> QED BY <1>4, <1>5, <1>6, <1>7 DEF Records

\* The insert of the booking itself: nobody has its key or reference.
LEMMA FlushTakenRecords ==
    ASSUME TypeOK, ChecksHoldToTheEnd, Records, NEW t \in Txns, FlushTaken(t)
    PROVE  Records'
<1> DEFINE c == ParentRow(t)
<1>1. /\ pc[t] = "flush" /\ req[t] \in BookRequest
      /\ UNCHANGED <<reservations, feed, req, answer>>
      /\ pend' = [pend EXCEPT ![t] = {c}] /\ pc' = [pc EXCEPT ![t] = "walk"]
  BY DEF FlushTaken, Goto, tables, TypeOK, TxnsOK, Placed
<1>2. pend[t] = {}  BY <1>1 DEF ChecksHoldToTheEnd, Guarding
<1>3. pend[t] \cup {c} = {c} /\ Cardinality(pend[t]) = 0  BY <1>2, FS_EmptySet
<1>4. /\ c.id = <<t, req[t].rid>> /\ c.rid = req[t].rid /\ c.by = req[t].by
      /\ c.key = <<req[t].key, 0>> /\ c.parent = NoRow
  BY DEF ParentRow
<1>5. c.key[1] = req[t].key /\ c.key[2] = 0  BY <1>4
<1>6. Makes(t, c) /\ First(t, c)  BY <1>1, <1>4, <1>5 DEF Makes, First
<1> HIDE DEF c
<1>7. ASSUME NEW b \in AllRows PROVE b.id # c.id /\ ~SameUnique(b, c)
  <2>1. PICK u \in Txns : /\ Makes(u, b)
                          /\ (b \in pend[u] /\ pc[u] = "walk") \/ (b \in reservations /\ pc[u] = "done")
    BY RowOwner
  <2>2. u # t  BY <1>1, <2>1
  <2>3. b.id # c.id  BY <1>4, <2>1, <2>2 DEF Makes
  <2>4. ~SameUnique(c, b)
    <3>1. CASE b \in reservations  BY <3>1 DEF FlushTaken, c
    <3>2. CASE b \in pend[u]  BY <2>2, <3>2 DEF FlushTaken, FlushWaitsFor, c
    <3> QED BY <2>1, <3>1, <3>2
  <2> QED BY <2>3, <2>4 DEF SameUnique
<1> QED BY <1>1, <1>3, <1>5, <1>6, <1>7, AddedRecords

\* A child: the key is this booking's alone, and so is its number.
LEMMA HoldRecords ==
    ASSUME TypeOK, ChecksHoldToTheEnd, Records, NEW t \in Txns, pc[t] = "walk",
           NEW rid \in Resources, NEW win, NEW qty, NEW depth, NEW left, NEW after,
           Hold(t, rid, win, qty, depth, left, after), rid \notin run[t].used
    PROVE  Records'
<1> DEFINE c == ChildRow(t, rid, win, qty)
<1>1. /\ UNCHANGED <<reservations, feed, req, answer, pc>>
      /\ pend' = [pend EXCEPT ![t] = pend[t] \cup {c}] /\ pc' = [pc EXCEPT ![t] = "walk"]
      /\ req[t] \in BookRequest
  BY DEF Hold, tables, TypeOK, TxnsOK, Placed
<1>2. /\ c.id = <<t, rid>> /\ c.rid = rid /\ c.by = req[t].by
      /\ c.key = <<req[t].key, Cardinality(pend[t])>> /\ c.parent = <<t, req[t].rid>> /\ c.ref = NoRef
  BY DEF ChildRow
<1>3. c.key[1] = req[t].key /\ c.key[2] = Cardinality(pend[t])  BY <1>2
<1>4. Makes(t, c)  BY <1>1, <1>2, <1>3 DEF Makes
<1> HIDE DEF c
<1>5. ASSUME NEW b \in AllRows PROVE b.id # c.id /\ ~SameUnique(b, c)
  <2>1. PICK u \in Txns :
             /\ Makes(u, b)
             /\ \/ b \in pend[u] /\ pc[u] = "walk" /\ \E p \in pend[u] : First(u, p)
                \/ b \in reservations /\ pc[u] = "done" /\ \E p \in reservations : First(u, p)
    BY RowOwner
  <2>2. u = t => b \in pend[t]  BY <2>1
  <2>3. b.id # c.id
    <3>1. CASE u # t  BY <1>2, <2>1, <3>1 DEF Makes
    <3>2. CASE u = t
      <4>1. b.rid \in run[t].used  BY <2>2, <3>2 DEF ChecksHoldToTheEnd, StillFree
      <4> QED BY <1>2, <2>1, <4>1 DEF Makes
    <3> QED BY <3>1, <3>2
  <2>4. ~(b.by = c.by /\ b.key = c.key)
    <3> SUFFICES ASSUME b.by = c.by, b.key = c.key PROVE FALSE  OBVIOUS
    <3>1. req[u].by = req[t].by /\ req[u].key = req[t].key  BY <1>2, <1>3, <2>1 DEF Makes
    <3>2. PICK p \in AllRows : First(u, p)  BY <2>1 DEF AllRows
    <3>3. PICK q \in AllRows : First(t, q)
      <4>1. \E q \in pend[t] : First(t, q)  BY DEF Records, Writes
      <4> QED BY <4>1 DEF AllRows
    <3>4. u = t  BY <3>1, <3>2, <3>3, OneFamilyPerKey
    <3>5. b.key[2] < Cardinality(pend[t])  BY <2>2, <3>4 DEF Records, Writes
    <3>6. Cardinality(pend[t]) \in Nat  BY FS_CardinalityType DEF TypeOK, TxnsOK
    <3> QED BY <1>3, <3>5, <3>6
  <2> QED BY <1>2, <2>3, <2>4 DEF SameUnique
<1> QED BY <1>1, <1>3, <1>4, <1>5, AddedRecords

\* The commit moves rows from one place to the other and marks them.
LEMMA CommitRecords ==
    ASSUME TypeOK, ChecksHoldToTheEnd, Records, NEW t \in Txns, Commit(t)
    PROVE  Records'
<1>1. /\ pc[t] = "walk" /\ req[t] \in BookRequest /\ req' = req
      /\ reservations' = reservations \cup pend[t]
      /\ feed' = feed \cup {Mark(t, b.id, "CREATED") : b \in pend[t]}
      /\ \A u \in Txns : pc'[u] = IF u = t THEN "done" ELSE pc[u]
      /\ \A u \in Txns : pend'[u] = IF u = t THEN {} ELSE pend[u]
      /\ \A u \in Txns : u # t => answer'[u] = answer[u]
      /\ answer'[t].code = "created" /\ answer'[t].row = <<t, req[t].rid>>
  BY DEF Commit, Finish, Goto, TypeOK, TxnsOK, Placed
<1>2. Booked(t)' /\ ~Booked(t)
  <2>1. req[t].op = "book"  BY <1>1 DEF BookRequest
  <2>2. ~Booked(t)  BY <1>1 DEF Records, Written
  <2> QED BY <1>1, <2>1, <2>2 DEF Booked
<1>3. \A u \in Txns : u # t => (Booked(u)' <=> Booked(u))  BY <1>1 DEF Booked
<1>4. \A u \in Txns : Writes(u)'
  <2>1. ASSUME NEW u \in Txns, u # t PROVE Writes(u)'
    <3>1. pend'[u] = pend[u] /\ pc'[u] = pc[u] /\ req' = req  BY <1>1, <2>1
    <3>2. Writes(u)  BY DEF Records
    <3> QED BY <3>1, <3>2 DEF Writes, Makes, First
  <2>2. Writes(t)'  BY <1>1 DEF Writes
  <2> QED BY <2>1, <2>2
<1>5. Written'
  <2>1. ASSUME NEW b \in reservations' PROVE \E u \in Txns : Makes(u, b)' /\ Booked(u)'
    <3>1. CASE b \in reservations
      <4>1. PICK u \in Txns : Makes(u, b) /\ Booked(u)  BY <3>1 DEF Records, Written
      <4> QED BY <1>1, <1>2, <1>3, <4>1 DEF Makes
    <3>2. CASE b \in pend[t]
      <4>1. Makes(t, b)  BY <3>2 DEF Records, Writes
      <4> QED BY <1>1, <1>2, <4>1 DEF Makes
    <3> QED BY <1>1, <3>1, <3>2
  <2>2. ASSUME NEW u \in Txns, Booked(u)'
        PROVE  pc'[u] = "done" /\ answer'[u].row = <<u, req'[u].rid>> /\ \E b \in reservations' : First(u, b)'
    <3>1. CASE u = t
      <4>1. \E b \in pend[t] : First(t, b)  BY <1>1 DEF Records, Writes
      <4> QED BY <1>1, <3>1, <4>1 DEF First
    <3>2. CASE u # t
      <4>1. /\ pc[u] = "done" /\ answer[u].row = <<u, req[u].rid>>
            /\ \E b \in reservations : First(u, b)
        BY <1>3, <2>2, <3>2 DEF Records, Written
      <4> QED BY <1>1, <3>2, <4>1 DEF First
    <3> QED BY <3>1, <3>2
  <2> QED BY <2>1, <2>2 DEF Written
<1>6. RowsAreUnique'
  <2>1. AllRows' \subseteq AllRows  BY <1>1 DEF AllRows
  <2> QED BY <2>1 DEF Records, RowsAreUnique, SameUnique
<1>7. ReplaysAreFounded'
  <2> SUFFICES ASSUME NEW u \in Txns, answer'[u].code = "replayed"
               PROVE  \E b \in reservations' : b.id = answer'[u].row /\ b.by = req'[u].by /\ b.key = <<req'[u].key, 0>>
    BY DEF ReplaysAreFounded
  <2>1. answer'[u] = answer[u]  BY <1>1
  <2>2. \E b \in reservations : b.id = answer[u].row /\ b.by = req[u].by /\ b.key = <<req[u].key, 0>>
    BY <2>1 DEF Records, ReplaysAreFounded
  <2> QED BY <1>1, <2>1, <2>2
<1>8. /\ \A m \in feed' : m.what = "CANCELLED" <=> m \in feed /\ m.what = "CANCELLED"
      /\ \A b \in pend[t] : \E m \in feed' : m.row = b.id /\ m.what = "CREATED"
  <2>1. \A b : Mark(t, b.id, "CREATED").row = b.id /\ Mark(t, b.id, "CREATED").what = "CREATED"
    BY DEF Mark
  <2>2. ASSUME NEW m \in feed', m \notin feed PROVE m.what # "CANCELLED"
    <3>1. PICK b \in pend[t] : m = Mark(t, b.id, "CREATED")  BY <1>1, <2>2
    <3> QED BY <2>1, <3>1
  <2>3. ASSUME NEW b \in pend[t] PROVE \E m \in feed' : m.row = b.id /\ m.what = "CREATED"
    <3>1. Mark(t, b.id, "CREATED") \in feed'  BY <1>1
    <3> QED BY <2>1, <3>1
  <2>4. feed \subseteq feed'  BY <1>1
  <2> QED BY <2>2, <2>3, <2>4
<1>9. MarksAreFounded'  BY <1>1, <1>8 DEF Records, MarksAreFounded
<1>10. EveryChangeIsMarked'
  <2> SUFFICES ASSUME NEW b \in reservations'
               PROVE  /\ \E m \in feed' : m.row = b.id /\ m.what = "CREATED"
                      /\ b.status = "CANCELLED" <=> \E m \in feed' : m.row = b.id /\ m.what = "CANCELLED"
    BY DEF EveryChangeIsMarked
  <2>1. CASE b \in reservations
    <3>1. /\ \E m \in feed : m.row = b.id /\ m.what = "CREATED"
          /\ b.status = "CANCELLED" <=> \E m \in feed : m.row = b.id /\ m.what = "CANCELLED"
      BY <2>1 DEF Records, EveryChangeIsMarked
    <3>2. feed \subseteq feed'  BY <1>1
    <3> QED BY <1>8, <3>1, <3>2
  <2>2. CASE b \in pend[t]
    <3>1. b.status = "HELD"  BY <2>2 DEF ChecksHoldToTheEnd, StillFree
    <3>2. ASSUME NEW m \in feed, m.row = b.id, m.what = "CANCELLED" PROVE FALSE
      <4>1. PICK a \in reservations : a.id = m.row  BY <3>2 DEF Records, MarksAreFounded
      <4>2. a \in AllRows /\ b \in AllRows  BY <2>2 DEF AllRows
      <4>3. a = b  BY <3>2, <4>1, <4>2 DEF Records, RowsAreUnique
      <4>4. PICK u \in Txns : Makes(u, a) /\ Booked(u)  BY <4>1 DEF Records, Written
      <4>5. Makes(t, b)  BY <2>2 DEF Records, Writes
      <4>6. u = t  BY <4>3, <4>4, <4>5, FirstMakes
      <4> QED BY <1>2, <4>4, <4>6
    <3> QED BY <1>8, <2>2, <3>1, <3>2
  <2> QED BY <1>1, <2>1, <2>2
<1> QED BY <1>4, <1>5, <1>6, <1>7, <1>9, <1>10 DEF Records

\* No row is both committed and not.
LEMMA CommittedOrNot ==
    ASSUME TypeOK, ChecksHoldToTheEnd, Records, NEW u \in Txns, NEW b \in pend[u]
    PROVE  b \notin reservations
<1> SUFFICES ASSUME b \in reservations PROVE FALSE  OBVIOUS
<1>1. PICK v \in Txns : Makes(v, b) /\ Booked(v)  BY DEF Records, Written
<1>2. pc[v] = "done"  BY <1>1 DEF Records, Written
<1>3. Makes(u, b)  BY DEF Records, Writes
<1>4. pc[u] = "walk"  BY DEF ChecksHoldToTheEnd, Guarding
<1> QED BY <1>1, <1>2, <1>3, <1>4, FirstMakes

\* Rows rewritten in place: they keep what they are called and whose they are.
\* Only the row answered with may get another reference, one nobody of its caller has.
LEMMA RewrittenRecords ==
    ASSUME TypeOK, ChecksHoldToTheEnd, Records, NEW t \in Txns, pc[t] # "done",
           NEW code \in Codes \ {"created", "replayed"}, NEW row, Finish(t, code, row),
           NEW f, reservations' = {f[b] : b \in reservations},
           \A b \in reservations : /\ f[b].id = b.id /\ f[b].rid = b.rid /\ f[b].by = b.by
                                   /\ f[b].key = b.key /\ f[b].parent = b.parent,
           \A b \in reservations : \/ f[b].ref = b.ref \/ f[b].ref = NoRef
                                   \/ /\ b.id = row
                                      /\ \A c \in AllRows : c.id # row /\ c.by = b.by => c.ref # f[b].ref,
           feed \subseteq feed',
           \A b \in reservations :
             f[b].status = "CANCELLED" <=> \E m \in feed' : m.row = b.id /\ m.what = "CANCELLED",
           \A m \in feed' \ feed : m.what = "CANCELLED" => \E b \in reservations : b.id = m.row
    PROVE  Records'
<1>1. /\ req' = req
      /\ \A u \in Txns : pc'[u] = IF u = t THEN "done" ELSE pc[u]
      /\ \A u \in Txns : pend'[u] = IF u = t THEN {} ELSE pend[u]
      /\ \A u \in Txns : u # t => answer'[u] = answer[u]
      /\ answer'[t].code = code
  BY DEF Finish, Goto, TypeOK, TxnsOK
<1>2. \A u \in Txns : Booked(u)' <=> Booked(u)
  <2>1. ~Booked(t)  BY DEF Records, Written
  <2>2. ~Booked(t)'  BY <1>1 DEF Booked
  <2>3. \A u \in Txns : u # t => (Booked(u)' <=> Booked(u))  BY <1>1 DEF Booked
  <2> QED BY <2>1, <2>2, <2>3
<1>3. ASSUME NEW u \in Txns PROVE Writes(u)'
  <2>1. CASE u = t  BY <1>1, <2>1 DEF Writes
  <2>2. CASE u # t
    <3>1. pend'[u] = pend[u] /\ pc'[u] = pc[u] /\ req' = req  BY <1>1, <2>2
    <3>2. Writes(u)  BY DEF Records
    <3> QED BY <3>1, <3>2 DEF Writes, Makes, First
  <2> QED BY <2>1, <2>2
<1>4. Written'
  <2>1. ASSUME NEW b \in reservations PROVE \E u \in Txns : Makes(u, f[b])' /\ Booked(u)'
    <3>1. PICK u \in Txns : Makes(u, b) /\ Booked(u)  BY DEF Records, Written
    <3>2. Makes(u, f[b])'
      <4> DEFINE c == f[b]
      <4>1. /\ c.id = b.id /\ c.rid = b.rid /\ c.by = b.by /\ c.key = b.key /\ c.parent = b.parent
        OBVIOUS
      <4> HIDE DEF c
      <4>2. Makes(u, c)  BY <3>1, <4>1 DEF Makes
      <4> QED BY <1>1, <4>2 DEF Makes, c
    <3> QED BY <1>2, <3>1, <3>2
  <2>2. ASSUME NEW u \in Txns, Booked(u)
        PROVE  pc'[u] = "done" /\ answer'[u].row = <<u, req[u].rid>> /\ \E b \in reservations' : First(u, b)
    <3>1. /\ pc[u] = "done" /\ answer[u].row = <<u, req[u].rid>>
          /\ \E b \in reservations : First(u, b)
      BY <2>2 DEF Records, Written
    <3>2. PICK b \in reservations : First(u, b)  BY <3>1
    <3>3. First(u, f[b]) /\ f[b] \in reservations'  BY <3>2 DEF First
    <3> QED BY <1>1, <3>1, <3>3
  <2>3. ASSUME NEW b \in reservations' PROVE \E u \in Txns : Makes(u, b)' /\ Booked(u)'
    <3>1. PICK a \in reservations : b = f[a]  OBVIOUS
    <3> QED BY <2>1, <3>1
  <2> QED BY <1>1, <1>2, <2>2, <2>3 DEF Written, First
<1>5. RowsAreUnique'
  <2>1. ASSUME NEW b \in AllRows'
        PROVE  \E a \in AllRows :
                 /\ b.id = a.id /\ b.by = a.by /\ b.key = a.key
                 /\ (a \in reservations /\ b = f[a]) \/ (a \notin reservations /\ b = a)
    <3>1. CASE b \in reservations'
      <4>1. PICK a \in reservations : b = f[a]  BY <3>1
      <4> QED BY <4>1 DEF AllRows
    <3>2. CASE b \notin reservations'
      <4>1. PICK u \in Txns : b \in pend'[u]  BY <3>2 DEF AllRows
      <4>2. b \in pend[u] /\ b \in AllRows  BY <1>1, <4>1 DEF AllRows
      <4> QED BY <4>2, CommittedOrNot
    <3> QED BY <3>1, <3>2
  <2>2. ASSUME NEW a \in AllRows', NEW b \in AllRows', a.id = b.id \/ SameUnique(a, b)
        PROVE  a = b
    <3>1. PICK c \in AllRows :
                 /\ a.id = c.id /\ a.by = c.by /\ a.key = c.key
                 /\ (c \in reservations /\ a = f[c]) \/ (c \notin reservations /\ a = c)
      BY <2>1
    <3>2. PICK d \in AllRows :
                 /\ b.id = d.id /\ b.by = d.by /\ b.key = d.key
                 /\ (d \in reservations /\ b = f[d]) \/ (d \notin reservations /\ b = d)
      BY <2>1
    <3>3. c = d => a = b  BY <3>1, <3>2
    <3>4. CASE a.id = b.id  BY <3>1, <3>2, <3>3, <3>4 DEF Records, RowsAreUnique
    <3>5. CASE a.id # b.id /\ a.by = b.by /\ a.key = b.key
      <4>1. SameUnique(c, d)  BY <3>1, <3>2, <3>5 DEF SameUnique
      <4> QED BY <3>3, <4>1 DEF Records, RowsAreUnique
    <3>6. CASE a.id # b.id /\ a.by = b.by /\ a.ref # NoRef /\ a.ref = b.ref
      <4>1. CASE a.ref = c.ref /\ b.ref = d.ref
        <5>1. SameUnique(c, d)  BY <3>1, <3>2, <3>6, <4>1 DEF SameUnique
        <5> QED BY <3>3, <5>1 DEF Records, RowsAreUnique
      <4>2. CASE a.ref # c.ref
        <5>1. c \in reservations /\ a = f[c]  BY <3>1, <4>2
        <5>2. /\ c.id = row
              /\ \A e \in AllRows : e.id # row /\ e.by = c.by => e.ref # f[c].ref
          BY <3>6, <4>2, <5>1
        <5>3. d.id # row /\ d.by = c.by  BY <3>1, <3>2, <3>6, <5>2
        <5>4. b.ref = d.ref
          <6>1. CASE d \in reservations
            <7>1. f[d].ref = d.ref \/ f[d].ref = NoRef  BY <5>3, <6>1
            <7> QED BY <3>2, <3>6, <6>1, <7>1
          <6>2. CASE d \notin reservations  BY <3>2, <6>2
          <6> QED BY <6>1, <6>2
        <5> QED BY <3>6, <5>1, <5>2, <5>3, <5>4
      <4>3. CASE b.ref # d.ref /\ a.ref = c.ref
        <5>1. d \in reservations /\ b = f[d]  BY <3>2, <4>3
        <5>2. /\ d.id = row
              /\ \A e \in AllRows : e.id # row /\ e.by = d.by => e.ref # f[d].ref
          BY <3>6, <4>3, <5>1
        <5>3. c.id # row /\ c.by = d.by  BY <3>1, <3>2, <3>6, <5>2
        <5> QED BY <3>6, <4>3, <5>1, <5>2, <5>3
      <4> QED BY <4>1, <4>2, <4>3
    <3> QED BY <2>2, <3>4, <3>5, <3>6 DEF SameUnique
  <2> QED BY <2>2 DEF RowsAreUnique, SameUnique
<1>6. ReplaysAreFounded'
  <2> SUFFICES ASSUME NEW u \in Txns, answer'[u].code = "replayed"
               PROVE  \E b \in reservations' : b.id = answer'[u].row /\ b.by = req'[u].by /\ b.key = <<req'[u].key, 0>>
    BY DEF ReplaysAreFounded
  <2>1. answer'[u] = answer[u]  BY <1>1
  <2>2. PICK b \in reservations : b.id = answer[u].row /\ b.by = req[u].by /\ b.key = <<req[u].key, 0>>
    BY <2>1 DEF Records, ReplaysAreFounded
  <2>3. f[b] \in reservations'  OBVIOUS
  <2> QED BY <1>1, <2>1, <2>2, <2>3
<1>7. MarksAreFounded'
  <2> SUFFICES ASSUME NEW m \in feed', m.what = "CANCELLED" PROVE \E b \in reservations' : b.id = m.row
    BY DEF MarksAreFounded
  <2>1. PICK b \in reservations : b.id = m.row  BY DEF Records, MarksAreFounded
  <2>2. f[b] \in reservations' /\ f[b].id = m.row  BY <2>1
  <2> QED BY <2>2
<1>8. EveryChangeIsMarked'
  <2> SUFFICES ASSUME NEW b \in reservations
               PROVE  /\ \E m \in feed' : m.row = f[b].id /\ m.what = "CREATED"
                      /\ f[b].status = "CANCELLED" <=> \E m \in feed' : m.row = f[b].id /\ m.what = "CANCELLED"
    BY DEF EveryChangeIsMarked
  <2>1. \E m \in feed : m.row = b.id /\ m.what = "CREATED"  BY DEF Records, EveryChangeIsMarked
  <2> QED BY <2>1
<1> QED BY <1>3, <1>4, <1>5, <1>6, <1>7, <1>8 DEF Records
-----------------------------------------------------------------------------
(* The items of a list. *)

LEMMA ItemsConcat ==
    ASSUME NEW S, NEW s1 \in Seq(S), NEW s2 \in Seq(S)
    PROVE  Items(s1 \o s2) = Items(s1) \cup Items(s2)
<1> DEFINE s == s1 \o s2
           m == Len(s1)
<1>1. /\ m \in Nat /\ Len(s2) \in Nat /\ Len(s) = m + Len(s2)
      /\ \A i \in 1..Len(s) : s[i] = IF i <= m THEN s1[i] ELSE s2[i - m]
  BY ConcatProperties, LenProperties
<1>2. s \in Seq(S)  BY ConcatProperties
<1>3. DOMAIN s = 1..Len(s) /\ DOMAIN s1 = 1..m /\ DOMAIN s2 = 1..Len(s2)  BY <1>2, LenProperties
<1> HIDE DEF s, m
<1>4. ASSUME NEW i \in DOMAIN s PROVE s[i] \in Items(s1) \cup Items(s2)
  <2>1. CASE i <= m  BY <1>1, <1>3, <2>1 DEF Items
  <2>2. CASE i > m
    <3>1. i - m \in DOMAIN s2 /\ s[i] = s2[i - m]  BY <1>1, <1>3, <2>2
    <3> QED BY <3>1 DEF Items
  <2> QED BY <1>1, <1>3, <2>1, <2>2
<1>5. ASSUME NEW i \in DOMAIN s1 PROVE s1[i] \in Items(s)
  <2>1. i \in DOMAIN s /\ s[i] = s1[i]  BY <1>1, <1>3
  <2> QED BY <2>1 DEF Items
<1>6. ASSUME NEW i \in DOMAIN s2 PROVE s2[i] \in Items(s)
  <2>1. i + m \in DOMAIN s /\ ~(i + m <= m) /\ (i + m) - m = i  BY <1>1, <1>3
  <2>2. s[i + m] = s2[i]  BY <1>1, <1>3, <2>1
  <2> QED BY <2>1, <2>2 DEF Items
<1>7. Items(s) \subseteq Items(s1) \cup Items(s2)  BY <1>4 DEF Items
<1>8. Items(s1) \cup Items(s2) \subseteq Items(s)  BY <1>5, <1>6 DEF Items
<1> QED BY <1>7, <1>8 DEF s

LEMMA ItemsOne == \A x : Items(<<x>>) = {x}
BY DEF Items

LEMMA ItemsPush ==
    ASSUME NEW S, NEW x \in S, NEW rest \in Seq(S)
    PROVE  Items(<<x>> \o rest) = {x} \cup Items(rest)
<1>1. <<x>> \in Seq(S)  OBVIOUS
<1>2. Items(<<x>> \o rest) = Items(<<x>>) \cup Items(rest)  BY <1>1, ItemsConcat
<1> QED BY <1>2, ItemsOne

LEMMA ItemsHead ==
    ASSUME NEW S, NEW s \in Seq(S), s # <<>>
    PROVE  Items(s) = {Head(s)} \cup Items(Tail(s))
<1>1. Head(s) \in S /\ Tail(s) \in Seq(S) /\ s = <<Head(s)>> \o Tail(s)
  BY HeadTailProperties
<1> DEFINE h == Head(s)
           r == Tail(s)
<1> HIDE DEF h, r
<1>2. Items(<<h>> \o r) = {h} \cup Items(r)  BY <1>1, ItemsPush DEF h, r
<1> QED BY <1>1, <1>2 DEF h, r

\* The walk of an owner has an item for each of its requirements, and begins no kind.
LEMMA ItemsWalk ==
    ASSUME NEW rid \in Resources, NEW win \in Spans, NEW depth \in Nat
    PROVE  /\ \A i \in DOMAIN Reqs[rid] : \E x \in Items(Walk(rid, win, depth)) :
                x.do = "row" /\ x.row = Reqs[rid][i] /\ x.win = win
           /\ \A x \in Items(Walk(rid, win, depth)) : x.do # "kind"
<1> DEFINE rows == [i \in DOMAIN Reqs[rid] |->
                      [do |-> "row", row |-> Reqs[rid][i], win |-> win, depth |-> depth]]
           first == ToLock(NamedTargets(rid))
<1>1. Reqs[rid] \in Seq(Requirement)  BY RequirementsAssumption
<1>2. DOMAIN Reqs[rid] = 1..Len(Reqs[rid]) /\ Len(Reqs[rid]) \in Nat  BY <1>1, LenProperties
<1>3. \A i \in DOMAIN Reqs[rid] : rows[i] \in Item /\ rows[i].do = "row"
  <2>1. \A i \in DOMAIN Reqs[rid] : Reqs[rid][i] \in Requirement  BY <1>1, <1>2, ElementOfSeq
  <2> QED BY <2>1 DEF Item, RowItem
<1>4. rows \in Seq(Item)
  <2>1. rows \in [1..Len(Reqs[rid]) -> Item]
    <3> HIDE DEF Item
    <3> QED BY <1>2, <1>3
  <2> HIDE DEF rows, Item
  <2> QED BY <1>2, <2>1, FunctionIsSeq
<1>5. first \in Seq(Item)
  <2>1. NamedTargets(rid) \in SUBSET Resources
    <3>1. \A i \in DOMAIN Reqs[rid] : Reqs[rid][i] \in Requirement  BY <1>1, <1>2, ElementOfSeq
    <3> QED BY <3>1 DEF NamedTargets, Requirement
  <2> QED BY <2>1, ToLockType
<1>6. \A x \in Items(first) : x.do = "lock"  BY ItemsOne DEF ToLock, Items
<1>7. Walk(rid, win, depth) = first \o rows  BY DEF Walk
<1>8. Items(rows) = {rows[i] : i \in DOMAIN Reqs[rid]}  BY DEF Items
<1>9. Items(Walk(rid, win, depth)) = Items(first) \cup Items(rows)
  <2> HIDE DEF first, rows, Item
  <2> QED BY <1>4, <1>5, <1>7, ItemsConcat
<1>10. \A i \in DOMAIN Reqs[rid] : rows[i].do = "row" /\ rows[i].row = Reqs[rid][i] /\ rows[i].win = win
  OBVIOUS
<1> HIDE DEF rows, first
<1> QED BY <1>6, <1>8, <1>9, <1>10
-----------------------------------------------------------------------------
(* What a step of a walk does to the list and to the rows. *)

\* The request is answered with nothing written, and is neither told of a
\* booking nor that its key is used.
Declined(t) ==
    \E code \in Codes \ {"created", "replayed", "key reused"} : \E row : Refuse(t, code, row)

\* The other items of the list stay.
Keeps(items, h, left) == \A x \in items : x # h => x \in left

\* The item h is done with, or is counted on as it was.
Done(items, h) ==
    \/ h.do = "lock" \/ ~Enforced(h.row) \/ (h.do = "kind" /\ h.got >= h.row.qty)
    \/ \E g \in items : /\ g.do = "kind" /\ g.row = h.row
                        /\ g.got = 0 \/ (h.do = "kind" /\ g.got = h.got)

Trimmed(t) ==
    /\ pc[t] = "walk" /\ UNCHANGED <<tables, pc, req, pend, answer>>
    /\ \A u \in Txns \ {t} : run'[u] = run[u]
    /\ OfTheirKind(run'[t].left)
    /\ \A x \in Items(run'[t].agenda) : x.do = "kind" => Sought(x)
    /\ \E h \in Items(run[t].agenda) :
         Keeps(Items(run[t].agenda), h, Items(run'[t].agenda)) /\ Done(Items(run'[t].agenda), h)

\* A row is added for the item h, which is done or has one more.
Grows(t, rid, win, qty, depth, left, after) ==
    /\ pc[t] = "walk" /\ Hold(t, rid, win, qty, depth, left, after)
    /\ rid \notin run[t].used /\ ~Problem(rid, win, qty, Seen(t))
    /\ OfTheirKind(left)
    /\ \A x \in Items(after) : x.do = "kind" => Sought(x)
    /\ \E h \in Items(run[t].agenda) :
         /\ Keeps(Items(run[t].agenda), h, Items(after))
         /\ \/ h.do = "row" /\ h.row.target = rid /\ win = RowWindow(h)
            \/ /\ h.do = "kind" /\ KindOf[rid] = h.row.kind
               /\ \E g \in Items(after) : g.do = "kind" /\ g.row = h.row /\ g.got = h.got + 1

Grown(t) ==
    \E rid \in Resources, win \in Spans, qty \in Nat \ {0}, depth \in Nat, left \in Assigns, after \in Seq(Item) :
        Grows(t, rid, win, qty, depth, left, after)

\* Another list, made of the rest of the old and one item, or none.
LEMMA TrimmedTo ==
    ASSUME TypeOK, NEW t \in Txns, Provides(t), NEW do, Walking(t, do),
           NEW agenda, NEW left, OfTheirKind(left),
           run'[t].agenda = agenda, run'[t].left = left, \A u \in Txns \ {t} : run'[u] = run[u],
           UNCHANGED <<tables, pc, req, pend, answer>>,
           Items(Tail(run[t].agenda)) \subseteq Items(agenda),
           \A x \in Items(agenda) \ Items(Tail(run[t].agenda)) : x.do = "kind" => Sought(x),
           Done(Items(agenda), Head(run[t].agenda))
    PROVE  Trimmed(t)
<1> DEFINE s == run[t].agenda
<1>1. s \in Seq(Item) /\ s # <<>> /\ pc[t] = "walk"  BY WalkingItem DEF Walking
<1>2. Items(s) = {Head(s)} \cup Items(Tail(s))
  <2> HIDE DEF Item
  <2> QED BY <1>1, ItemsHead
<1>3. \A x \in Items(s) : x.do = "kind" => Sought(x)  BY <1>1 DEF Provides
<1>4. \A x \in Items(agenda) : x.do = "kind" => Sought(x)  BY <1>2, <1>3
<1>5. Head(s) \in Items(s) /\ Keeps(Items(s), Head(s), Items(agenda))  BY <1>2 DEF Keeps
<1> QED BY <1>1, <1>4, <1>5 DEF Trimmed

\* A gap is passed over or refused.
LEMMA MissDoes ==
    ASSUME TypeOK, NEW t \in Txns, Provides(t), NEW do, Walking(t, do), do # "lock", Miss(t, Head(run[t].agenda).row)
    PROVE  Declined(t) \/ Trimmed(t)
<1> DEFINE h == Head(run[t].agenda)
           rest == Tail(run[t].agenda)
<1>1. CASE Enforced(h.row)
  <2>1. Refuse(t, "requirement unsatisfied", NoRow)  BY <1>1 DEF Miss, Enforced
  <2> QED BY <2>1 DEF Declined, Codes
<1>2. CASE ~Enforced(h.row)
  <2>1. Then(t, rest)  BY <1>2 DEF Miss, Enforced
  <2>2. run[t] \in Walker /\ pc[t] = "walk" /\ run \in [Txns -> Walker]
    BY WalkingItem DEF Walking, TypeOK, TxnsOK, Walker
  <2>3. /\ run'[t].agenda = rest /\ run'[t].left = run[t].left /\ \A u \in Txns \ {t} : run'[u] = run[u]
        /\ UNCHANGED <<tables, pc, req, pend, answer>>
    BY <2>1, <2>2 DEF Then, Walker
  <2>4. OfTheirKind(run[t].left)  BY <2>2 DEF Provides
  <2>5. Done(Items(rest), h)  BY <1>2 DEF Done
  <2> HIDE DEF h, rest
  <2> QED BY <2>3, <2>4, <2>5, TrimmedTo DEF h, rest
<1> QED BY <1>1, <1>2

LEMMA WalkLockDoes ==
    ASSUME TypeOK, NEW t \in Txns, Provides(t), WalkLock(t)
    PROVE  Trimmed(t)
<1> DEFINE s == run[t].agenda
<1>1. Walking(t, "lock")  BY DEF WalkLock
<1>2. /\ run[t] \in Walker /\ s \in Seq(Item) /\ s # <<>> /\ Tail(s) \in Seq(Item)
      /\ Head(s) \in LockItem /\ Head(s).do = "lock" /\ pc[t] = "walk"
  BY <1>1, WalkingItem DEF Walking
<1>3. PICK rid \in Head(s).rids :
        /\ run' = [run EXCEPT ![t] = [run[t] EXCEPT !.agenda = ToLock(Head(s).rids \ {rid}) \o Tail(s)]]
        /\ UNCHANGED <<tables, pc, req, pend, answer>>
  BY DEF WalkLock, Lowest
<1> DEFINE first == ToLock(Head(s).rids \ {rid})
           agenda == first \o Tail(s)
<1>4. first \in Seq(Item) /\ \A x \in Items(first) : x.do = "lock"
  <2>1. Head(s).rids \ {rid} \in SUBSET Resources  BY <1>2 DEF LockItem
  <2>2. \A x \in Items(first) : x.do = "lock"  BY ItemsOne DEF ToLock, Items
  <2> QED BY <2>1, <2>2, ToLockType
<1>5. Items(agenda) = Items(first) \cup Items(Tail(s))
  <2> HIDE DEF first, s, Item
  <2> QED BY <1>2, <1>4, ItemsConcat
<1>6. run \in [Txns -> Walker]  BY DEF TypeOK, TxnsOK, Walker
<1>7. run'[t].agenda = agenda /\ run'[t].left = run[t].left /\ \A u \in Txns \ {t} : run'[u] = run[u]
  <2> HIDE DEF agenda
  <2> QED BY <1>2, <1>3, <1>6 DEF Walker, agenda
<1>8. OfTheirKind(run[t].left)  BY <1>2 DEF Provides
<1>9. Done(Items(agenda), Head(s))  BY <1>2 DEF Done
<1> HIDE DEF first
<1>10. \A x \in Items(agenda) \ Items(Tail(s)) : x.do = "kind" => Sought(x)  BY <1>4, <1>5
<1>11. Items(Tail(s)) \subseteq Items(agenda)  BY <1>5
<1> HIDE DEF agenda
<1> QED BY <1>1, <1>3, <1>7, <1>8, <1>9, <1>10, <1>11, TrimmedTo

\* The list becomes the rest of it behind one item about the same kind.
LEMMA PushDoes ==
    ASSUME TypeOK, NEW t \in Txns, Provides(t), NEW do, Walking(t, do),
           NEW item \in Item, item.do = "kind", Sought(item), NEW left, OfTheirKind(left),
           run'[t].agenda = <<item>> \o Tail(run[t].agenda), run'[t].left = left,
           \A u \in Txns \ {t} : run'[u] = run[u],
           UNCHANGED <<tables, pc, req, pend, answer>>,
           item.row = Head(run[t].agenda).row,
           item.got = 0 \/ (do = "kind" /\ item.got = Head(run[t].agenda).got)
    PROVE  Trimmed(t)
<1> DEFINE s == run[t].agenda
           agenda == <<item>> \o Tail(s)
<1>1. s \in Seq(Item) /\ Tail(s) \in Seq(Item) /\ Head(s).do = do  BY WalkingItem DEF Walking
<1>2. Items(agenda) = {item} \cup Items(Tail(s))
  <2> HIDE DEF Item, s
  <2> QED BY <1>1, ItemsPush
<1>3. Done(Items(agenda), Head(s))
  <2> HIDE DEF agenda, s
  <2> QED BY <1>1, <1>2 DEF Done, s
<1> HIDE DEF agenda
<1>4. \A x \in Items(agenda) \ Items(Tail(s)) : x.do = "kind" => Sought(x)  BY <1>2
<1>5. Items(Tail(s)) \subseteq Items(agenda)  BY <1>2
<1>6. run'[t].agenda = agenda  BY DEF agenda
<1> QED BY <1>3, <1>4, <1>5, <1>6, TrimmedTo

\* One requirement of the walk.
LEMMA WalkRowDoes ==
    ASSUME TypeOK, NEW t \in Txns, Provides(t),
           WalkTooDeep(t) \/ WalkPastMidnight(t) \/ WalkNamed(t) \/ WalkKind(t)
    PROVE  Declined(t) \/ Trimmed(t) \/ Grown(t)
<1> DEFINE s == run[t].agenda
           item == Head(s)
           rest == Tail(s)
<1>1. Walking(t, "row")  BY DEF WalkTooDeep, WalkPastMidnight, WalkNamed, WalkKind
<1>2. /\ s \in Seq(Item) /\ s # <<>> /\ rest \in Seq(Item) /\ item \in RowItem
      /\ pc[t] = "walk" /\ item.do = "row" /\ run[t] \in Walker
  BY <1>1, WalkingItem DEF Walking
<1>3. /\ item.row \in Requirement /\ item.depth \in Nat /\ item.row.qty \in Nat \ {0}
      /\ item.row.target \in Resources \cup {NoTarget}
      /\ RowWindow(item) \in Spans \cup {NoWindow}
  BY <1>2, RowItemFields
<1>4. /\ OfTheirKind(run[t].left) /\ run[t].left \in Assigns
      /\ \A x \in Items(s) : x.do = "kind" => Sought(x)
  BY <1>2 DEF Provides, Walker
<1>5. Items(s) = {item} \cup Items(rest)
  <2> HIDE DEF Item
  <2> QED BY <1>2, ItemsHead
<1>6. CASE WalkTooDeep(t)
  <2>1. Miss(t, item.row)  BY <1>6 DEF WalkTooDeep
  <2> QED BY <1>1, <2>1, MissDoes
<1>7. CASE WalkPastMidnight(t)
  <2>1. Refuse(t, "invalid", NoRow)  BY <1>7 DEF WalkPastMidnight
  <2> QED BY <2>1 DEF Declined, Codes
<1>8. CASE WalkNamed(t)
  <2> DEFINE rid == item.row.target
             win == RowWindow(item)
             qty == IF res[rid].mode = "POOLED" THEN item.row.qty ELSE 1
  <2>1. rid \in Resources /\ win \in Spans /\ rid # NoTarget /\ qty \in Nat \ {0}
    BY <1>3, <1>8 DEF WalkNamed
  <2>2. CASE Miss(t, item.row)  BY <1>1, <2>2, MissDoes
  <2>3. CASE /\ rid \notin run[t].used /\ ~Problem(rid, win, qty, Seen(t))
             /\ Hold(t, rid, win, qty, item.depth, run[t].left, rest)
    <3>1. \A x \in Items(rest) : x.do = "kind" => Sought(x)  BY <1>4, <1>5
    <3>2. item \in Items(s) /\ Keeps(Items(s), item, Items(rest))  BY <1>5 DEF Keeps
    <3>3. item.do = "row" /\ item.row.target = rid /\ win = RowWindow(item)  BY <1>2
    <3> HIDE DEF rid, win, qty, rest, item
    <3>4. Grows(t, rid, win, qty, item.depth, run[t].left, rest)
      BY <1>2, <1>4, <2>3, <3>1, <3>2, <3>3 DEF Grows
    <3> QED BY <1>2, <1>3, <1>4, <2>1, <3>4 DEF Grown
  <2> QED BY <1>8, <2>2, <2>3 DEF WalkNamed
<1>9. CASE WalkKind(t)
  <2> DEFINE kind == [do |-> "kind", row |-> item.row, win |-> RowWindow(item), depth |-> item.depth,
                      got |-> 0, missed |-> 0, scanned |-> FALSE, cands |-> {}]
  <2>1. RowWindow(item) \in Spans /\ Then(t, <<kind>> \o rest) /\ item.row.target = NoTarget
    BY <1>3, <1>9 DEF WalkKind
  <2>2. kind \in Item /\ kind.do = "kind" /\ kind.row = item.row /\ kind.got = 0 /\ kind.cands = {}
    BY <1>3, <2>1 DEF Item, KindItem
  <2> HIDE DEF kind
  <2>3. Sought(kind)  BY <2>1, <2>2 DEF Sought
  <2> DEFINE agenda == <<kind>> \o rest
  <2> HIDE DEF agenda
  <2>4. /\ run'[t].agenda = agenda /\ run'[t].left = run[t].left
        /\ \A u \in Txns \ {t} : run'[u] = run[u]
    <3>1. run \in [Txns -> Walker]  BY DEF TypeOK, TxnsOK, Walker
    <3>2. Then(t, agenda)  BY <2>1 DEF agenda
    <3>3. run' = [run EXCEPT ![t] = [run[t] EXCEPT !.agenda = agenda]] /\ UNCHANGED <<tables, pc, req, pend, answer>>
      BY <3>2 DEF Then
    <3> QED BY <1>2, <3>1, <3>3 DEF Walker
  <2>5. UNCHANGED <<tables, pc, req, pend, answer>>  BY <2>1 DEF Then
  <2> QED BY <1>1, <1>4, <2>2, <2>3, <2>4, <2>5, PushDoes DEF agenda
<1> QED BY <1>6, <1>7, <1>8, <1>9

\* A resource the caller assigned to the kind is of the kind.
LEMMA KindAssignedDoes ==
    ASSUME TypeOK, NEW t \in Txns, Provides(t), KindAssigned(t)
    PROVE  Trimmed(t) \/ Grown(t)
<1> DEFINE s == run[t].agenda
           item == Head(s)
           kind == item.row.kind
           rid  == Head(run[t].left[kind])
           left == [run[t].left EXCEPT ![kind] = Tail(run[t].left[kind])]
           rest == Tail(s)
           noted == [item EXCEPT !.missed = @ + 1]
           taken == [item EXCEPT !.got = @ + 1]
<1>1. Walking(t, "kind")  BY DEF KindAssigned
<1>2. /\ run[t] \in Walker /\ s \in Seq(Item) /\ s # <<>>
      /\ item \in KindItem /\ rest \in Seq(Item) /\ pc[t] = "walk" /\ item.do = "kind"
  BY <1>1, WalkingItem DEF Walking
<1>3. item.win \in Spans /\ item.depth \in Nat /\ kind \in Kinds  BY <1>2, KindItemSteps
<1>4. run[t].left \in Assigns /\ run[t].left[kind] \in Seq(Resources) /\ run[t].left[kind] # <<>>
  BY <1>2, <1>3 DEF Walker, Assigns, KindAssigned
<1>5. rid \in Resources /\ Tail(run[t].left[kind]) \in Seq(Resources)  BY <1>4, HeadTailProperties
<1>6. left \in Assigns  BY <1>4, <1>5 DEF Assigns
<1>7. /\ noted \in Item /\ noted.do = "kind" /\ noted.row = item.row /\ noted.got = item.got
      /\ noted.cands = item.cands
      /\ taken \in Item /\ taken.do = "kind" /\ taken.row = item.row /\ taken.got = item.got + 1
      /\ taken.cands = item.cands
  BY <1>2, KindItemSteps DEF Item, KindItem
<1>8. \/ /\ run' = [run EXCEPT ![t] = [run[t] EXCEPT !.left = left, !.agenda = <<noted>> \o rest]]
         /\ UNCHANGED <<tables, pc, req, pend, answer>>
      \/ /\ rid \notin run[t].used /\ ~Problem(rid, item.win, 1, Seen(t))
         /\ Hold(t, rid, item.win, 1, item.depth, left, <<taken>> \o rest)
  BY DEF KindAssigned
<1>9. /\ OfTheirKind(run[t].left)
      /\ \A x \in Items(s) : x.do = "kind" => Sought(x)
  BY <1>2 DEF Provides
<1>10. Items(s) = {item} \cup Items(rest)
  <2> HIDE DEF Item
  <2> QED BY <1>2, ItemsHead
<1>11. Items(run[t].left[kind]) = {rid} \cup Items(Tail(run[t].left[kind]))
  BY <1>4, ItemsHead
<1>12. \A k \in Kinds : \A x \in Items(run[t].left[k]) : KindOf[x] = k  BY <1>9 DEF OfTheirKind, Items
<1>13. KindOf[rid] = kind  BY <1>3, <1>11, <1>12
<1>14. OfTheirKind(left)
  <2>1. \A k \in Kinds : left[k] = IF k = kind THEN Tail(run[t].left[kind]) ELSE run[t].left[k]
    BY <1>4 DEF Assigns
  <2>2. \A k \in Kinds : Items(left[k]) \subseteq Items(run[t].left[k])  BY <1>11, <2>1
  <2>3. ASSUME NEW k \in Kinds, NEW n \in DOMAIN left[k] PROVE KindOf[left[k][n]] = k
    <3>1. left[k][n] \in Items(left[k])  BY DEF Items
    <3> HIDE DEF left
    <3> QED BY <1>12, <2>2, <3>1
  <2> HIDE DEF left
  <2> QED BY <2>3 DEF OfTheirKind
<1>15. Sought(item)  BY <1>2, <1>9, <1>10
<1>16. Sought(noted) /\ Sought(taken)
  <2> HIDE DEF noted, taken, item
  <2> QED BY <1>7, <1>15 DEF Sought
<1> HIDE DEF kind, rid, left, noted, taken
<1>17. CASE /\ run' = [run EXCEPT ![t] = [run[t] EXCEPT !.left = left, !.agenda = <<noted>> \o rest]]
            /\ UNCHANGED <<tables, pc, req, pend, answer>>
  <2> DEFINE agenda == <<noted>> \o rest
  <2> HIDE DEF agenda
  <2>1. run \in [Txns -> Walker]  BY DEF TypeOK, TxnsOK, Walker
  <2>2. run' = [run EXCEPT ![t] = [run[t] EXCEPT !.left = left, !.agenda = agenda]]
    BY <1>17 DEF agenda
  <2>3. /\ run'[t].agenda = agenda /\ run'[t].left = left
        /\ \A u \in Txns \ {t} : run'[u] = run[u]
    BY <1>2, <2>1, <2>2 DEF Walker
  <2> QED BY <1>1, <1>7, <1>14, <1>16, <1>17, <2>3, PushDoes DEF agenda
<1>18. CASE /\ rid \notin run[t].used /\ ~Problem(rid, item.win, 1, Seen(t))
            /\ Hold(t, rid, item.win, 1, item.depth, left, <<taken>> \o rest)
  <2> DEFINE after == <<taken>> \o rest
  <2>1. after \in Seq(Item) /\ Items(after) = {taken} \cup Items(rest)
    <3> HIDE DEF Item
    <3> QED BY <1>2, <1>7, PushType, ItemsPush
  <2>2. Hold(t, rid, item.win, 1, item.depth, left, after)  BY <1>18
  <2> HIDE DEF after
  <2>3. \A x \in Items(after) : x.do = "kind" => Sought(x)  BY <1>9, <1>10, <1>16, <2>1
  <2>4. item \in Items(s) /\ Keeps(Items(s), item, Items(after))  BY <1>10, <2>1 DEF Keeps
  <2>5. \E g \in Items(after) : g.do = "kind" /\ g.row = item.row /\ g.got = item.got + 1
    BY <1>7, <2>1
  <2>6. KindOf[rid] = item.row.kind /\ item.do = "kind"  BY <1>2, <1>13 DEF kind
  <2> HIDE DEF item
  <2>7. Grows(t, rid, item.win, 1, item.depth, left, after)
    BY <1>2, <1>14, <1>18, <2>2, <2>3, <2>4, <2>5, <2>6 DEF Grows
  <2>8. 1 \in Nat \ {0}  OBVIOUS
  <2> QED BY <1>3, <1>5, <1>6, <2>1, <2>7, <2>8 DEF Grown
<1> QED BY <1>8, <1>17, <1>18

\* A candidate was read as one of the kind.
LEMMA KindPickDoes ==
    ASSUME TypeOK, NEW t \in Txns, Provides(t), KindPick(t)
    PROVE  Trimmed(t) \/ Grown(t)
<1> DEFINE s == run[t].agenda
           head == Head(s)
           rest == Tail(s)
<1>1. Walking(t, "kind")  BY DEF KindPick
<1>2. /\ run[t] \in Walker /\ s \in Seq(Item) /\ s # <<>>
      /\ head \in KindItem /\ rest \in Seq(Item) /\ pc[t] = "walk" /\ head.do = "kind"
  BY <1>1, WalkingItem DEF Walking
<1>3. PICK rid \in Lowest(Open(t), CodeRank) :
        LET item == [head EXCEPT !.cands = @ \ {rid}]
        IN  \/ /\ run' = [run EXCEPT ![t] = [run[t] EXCEPT !.agenda = <<item>> \o rest]]
               /\ UNCHANGED <<tables, pc, req, pend, answer>>
            \/ /\ ~Problem(rid, item.win, 1, Seen(t))
               /\ Hold(t, rid, item.win, 1, item.depth, run[t].left,
                       <<[item EXCEPT !.got = @ + 1]>> \o rest)
  BY DEF KindPick
<1>4. rid \in Resources /\ rid \notin run[t].used /\ rid \in head.cands
  BY <1>2 DEF Lowest, Open, KindItem
<1> DEFINE item == [head EXCEPT !.cands = @ \ {rid}]
           taken == [item EXCEPT !.got = @ + 1]
<1>5. item \in KindItem  BY <1>2, KindItemSteps
<1>6. /\ item \in Item /\ item.do = "kind" /\ item.row = head.row /\ item.got = head.got
      /\ item.cands \subseteq head.cands /\ item.win \in Spans /\ item.depth \in Nat
  BY <1>2, <1>5 DEF Item, KindItem
<1>7. /\ taken \in Item /\ taken.do = "kind" /\ taken.row = head.row /\ taken.got = head.got + 1
      /\ taken.cands \subseteq head.cands
  <2> HIDE DEF item
  <2>1. taken \in KindItem  BY <1>5, KindItemSteps
  <2> QED BY <1>5, <1>6, <2>1 DEF Item, KindItem
<1>8. \/ /\ run' = [run EXCEPT ![t] = [run[t] EXCEPT !.agenda = <<item>> \o rest]]
         /\ UNCHANGED <<tables, pc, req, pend, answer>>
      \/ /\ ~Problem(rid, item.win, 1, Seen(t))
         /\ Hold(t, rid, item.win, 1, item.depth, run[t].left, <<taken>> \o rest)
  BY <1>3
<1>9. /\ OfTheirKind(run[t].left) /\ run[t].left \in Assigns
      /\ \A x \in Items(s) : x.do = "kind" => Sought(x)
  BY <1>2 DEF Provides, Walker
<1>10. Items(s) = {head} \cup Items(rest)
  <2> HIDE DEF Item
  <2> QED BY <1>2, ItemsHead
<1>11. Sought(head)  BY <1>2, <1>9, <1>10
<1>12. Sought(item) /\ Sought(taken) /\ KindOf[rid] = head.row.kind
  <2> HIDE DEF head, item, taken
  <2> QED BY <1>4, <1>6, <1>7, <1>11 DEF Sought
<1> HIDE DEF item, taken
<1>13. CASE /\ run' = [run EXCEPT ![t] = [run[t] EXCEPT !.agenda = <<item>> \o rest]]
            /\ UNCHANGED <<tables, pc, req, pend, answer>>
  <2> DEFINE agenda == <<item>> \o rest
  <2> HIDE DEF agenda
  <2>1. run \in [Txns -> Walker]  BY DEF TypeOK, TxnsOK, Walker
  <2>2. run' = [run EXCEPT ![t] = [run[t] EXCEPT !.agenda = agenda]]  BY <1>13 DEF agenda
  <2>3. /\ run'[t].agenda = agenda /\ run'[t].left = run[t].left
        /\ \A u \in Txns \ {t} : run'[u] = run[u]
    BY <1>2, <2>1, <2>2 DEF Walker
  <2> QED BY <1>1, <1>6, <1>9, <1>12, <1>13, <2>3, PushDoes DEF agenda
<1>14. CASE /\ ~Problem(rid, item.win, 1, Seen(t))
            /\ Hold(t, rid, item.win, 1, item.depth, run[t].left, <<taken>> \o rest)
  <2> DEFINE after == <<taken>> \o rest
  <2>1. after \in Seq(Item) /\ Items(after) = {taken} \cup Items(rest)
    <3> HIDE DEF Item
    <3> QED BY <1>2, <1>7, PushType, ItemsPush
  <2>2. Hold(t, rid, item.win, 1, item.depth, run[t].left, after)  BY <1>14
  <2> HIDE DEF after
  <2>3. \A x \in Items(after) : x.do = "kind" => Sought(x)  BY <1>9, <1>10, <1>12, <2>1
  <2>4. head \in Items(s) /\ Keeps(Items(s), head, Items(after))  BY <1>10, <2>1 DEF Keeps
  <2>5. \E g \in Items(after) : g.do = "kind" /\ g.row = head.row /\ g.got = head.got + 1
    BY <1>7, <2>1
  <2> HIDE DEF head
  <2>6. Grows(t, rid, item.win, 1, item.depth, run[t].left, after)
    BY <1>2, <1>4, <1>9, <1>12, <1>14, <2>2, <2>3, <2>4, <2>5 DEF Grows
  <2>7. 1 \in Nat \ {0}  OBVIOUS
  <2> QED BY <1>4, <1>6, <1>9, <2>1, <2>6, <2>7 DEF Grown
<1> QED BY <1>8, <1>13, <1>14

\* The candidates are read, and the kind is done with.
LEMMA KindListDoes ==
    ASSUME TypeOK, NEW t \in Txns, Provides(t), KindScan(t) \/ KindDone(t)
    PROVE  Declined(t) \/ Trimmed(t)
<1> DEFINE item == Head(run[t].agenda)
           rest == Tail(run[t].agenda)
<1>1. Walking(t, "kind")  BY DEF KindScan, KindDone
<1>2. /\ run[t] \in Walker /\ run[t].agenda \in Seq(Item) /\ run[t].agenda # <<>> /\ item \in KindItem
      /\ rest \in Seq(Item) /\ pc[t] = "walk" /\ item.do = "kind" /\ run \in [Txns -> Walker]
  BY <1>1, WalkingItem DEF Walking, TypeOK, TxnsOK, Walker
<1>3. /\ OfTheirKind(run[t].left)
      /\ \A x \in Items(run[t].agenda) : x.do = "kind" => Sought(x)
  BY <1>2 DEF Provides
<1>4. Sought(item)
  <2>1. Items(run[t].agenda) = {item} \cup Items(rest)
    <3> HIDE DEF Item
    <3> QED BY <1>2, ItemsHead
  <2> QED BY <1>2, <1>3, <2>1
<1>5. CASE KindScan(t)
  <2> DEFINE read == [item EXCEPT !.scanned = TRUE,
                        !.cands = {r \in Resources : KindOf[r] = item.row.kind /\ res[r].active}]
             agenda == <<read>> \o rest
  <2>1. Then(t, agenda)  BY <1>5 DEF KindScan
  <2>2. /\ read \in Item /\ read.do = "kind" /\ read.row = item.row /\ read.got = item.got
        /\ \A r \in read.cands : KindOf[r] = item.row.kind
    BY <1>2 DEF Item, KindItem
  <2> HIDE DEF read, agenda
  <2>3. Sought(read)  BY <1>4, <2>2 DEF Sought
  <2>4. /\ run'[t].agenda = agenda /\ run'[t].left = run[t].left
        /\ \A u \in Txns \ {t} : run'[u] = run[u]
        /\ UNCHANGED <<tables, pc, req, pend, answer>>
    BY <1>2, <2>1 DEF Then, Walker
  <2> QED BY <1>1, <1>3, <2>2, <2>3, <2>4, PushDoes DEF agenda
<1>6. CASE KindDone(t)
  <2>1. CASE Miss(t, item.row)  BY <1>1, <2>1, MissDoes
  <2>2. CASE Then(t, rest) /\ ~(item.got < item.row.qty)
    <3>1. /\ run'[t].agenda = rest /\ run'[t].left = run[t].left
          /\ \A u \in Txns \ {t} : run'[u] = run[u]
          /\ UNCHANGED <<tables, pc, req, pend, answer>>
      <4> HIDE DEF rest
      <4> QED BY <1>2, <2>2 DEF Then, Walker
    <3>2. item.got >= item.row.qty
      <4>1. item.got \in Nat /\ item.row.qty \in Nat  BY <1>2 DEF KindItem, Requirement
      <4> QED BY <2>2, <4>1
    <3>3. Done(Items(rest), item)  BY <1>2, <3>2 DEF Done
    <3> HIDE DEF rest, item
    <3> QED BY <1>1, <1>3, <3>1, <3>3, TrimmedTo DEF rest, item
  <2> QED BY <1>6, <2>1, <2>2 DEF KindDone
<1> QED BY <1>5, <1>6

\* Every step of a walk.
WalkStep(t) ==
    \/ WalkLock(t) \/ WalkTooDeep(t) \/ WalkPastMidnight(t) \/ WalkNamed(t) \/ WalkKind(t)
    \/ KindAssigned(t) \/ KindScan(t) \/ KindPick(t) \/ KindDone(t)

LEMMA WalkDoes ==
    ASSUME TypeOK, NEW t \in Txns, Provides(t), WalkStep(t)
    PROVE  pc[t] = "walk" /\ (Declined(t) \/ Trimmed(t) \/ Grown(t))
<1>1. pc[t] = "walk"
  BY DEF WalkStep, Walking, WalkLock, WalkTooDeep, WalkPastMidnight, WalkNamed, WalkKind,
         KindAssigned, KindScan, KindPick, KindDone
<1> QED BY <1>1, WalkLockDoes, WalkRowDoes, KindAssignedDoes, KindPickDoes, KindListDoes DEF WalkStep
-----------------------------------------------------------------------------
(* The records, through every step. *)

LEMMA RefuseRecords ==
    ASSUME TypeOK, Records, NEW t \in Txns, pc[t] # "done", NEW code, NEW row, Refuse(t, code, row),
           code # "created", code = "replayed" => \E b \in ByKey(req[t]) : row = b.id
    PROVE  Records'
<1>1. /\ UNCHANGED <<reservations, feed, req>> /\ pc' = [pc EXCEPT ![t] = "done"]
      /\ pend' = [pend EXCEPT ![t] = {}]
      /\ answer' = [answer EXCEPT ![t] = [code |-> code, row |-> row]]
  BY DEF Refuse, Finish, Goto, tables
<1> QED BY <1>1, QuietRecords

LEMMA DeclinedRecords ==
    ASSUME TypeOK, Records, NEW t \in Txns, pc[t] # "done", Declined(t)
    PROVE  Records'
BY RefuseRecords DEF Declined

LEMMA RollbackRecords ==
    ASSUME TypeOK, Records, NEW t \in Txns, pc[t] # "done", NEW where, where # "walk", Rollback(t, where)
    PROVE  Records'
<1>1. /\ UNCHANGED <<reservations, feed, req, answer>> /\ pc' = [pc EXCEPT ![t] = where]
      /\ pend' = [pend EXCEPT ![t] = {}]
  BY DEF Rollback, Goto, tables
<1> QED BY <1>1, QuietRecords

LEMMA ReadRecords ==
    ASSUME TypeOK, Records, NEW t \in Txns, pc[t] # "done", NEW where, where # "walk", Goto(t, where),
           UNCHANGED <<tables, req, pend, answer>>
    PROVE  Records'
<1>1. UNCHANGED <<reservations, feed, req, pend, answer>> /\ pc' = [pc EXCEPT ![t] = where]
  BY DEF Goto, tables
<1> QED BY <1>1, QuietRecords

\* The row a replay is answered with has the request's key.
LEMMA NamedByKey ==
    ASSUME NEW r, ByKey(r) # {}
    PROVE  \E b \in ByKey(r) : Named(r, "replayed") = b.id
<1> DEFINE b == CHOOSE b \in ByKey(r) : TRUE
<1>1. b \in ByKey(r)  OBVIOUS
<1>2. Named(r, "replayed") = b.id  BY DEF Named
<1> QED BY <1>1, <1>2

LEMMA BookRecords ==
    ASSUME TypeOK, ChecksHoldToTheEnd, Records, NEW t \in Txns, Provides(t), Book(t)
    PROVE  Records'
<1>1. CASE BookRefused(t)
  <2>1. pc[t] = "asked" /\ Refuse(t, Verdict(req[t]), Named(req[t], Verdict(req[t])))
    BY <1>1 DEF BookRefused, Starts
  <2>2. Verdict(req[t]) # "created" /\ (Verdict(req[t]) = "replayed" => ByKey(req[t]) # {})
    BY DEF Verdict
  <2> QED BY <2>1, <2>2, NamedByKey, RefuseRecords
<1>2. CASE BookAdmitted(t)
  <2>1. pc[t] = "asked" /\ Goto(t, "flush") /\ UNCHANGED <<tables, req, pend, answer>>
    BY <1>2 DEF BookAdmitted, Starts
  <2> QED BY <2>1, ReadRecords
<1>3. CASE FlushLost(t)  BY <1>3, RollbackRecords DEF FlushLost
<1>4. CASE Lost(t)
  <2> DEFINE r == req[t]
             verdict == IF ByKey(r) = {} /\ r.ref # NoRef /\ ByRef(r.by, r.ref) # {}
                        THEN "reference taken"
                        ELSE IF \E b \in ByKey(r) : b.fp = Fingerprint(r)
                        THEN "replayed" ELSE "key reused"
  <2>1. pc[t] = "lost" /\ Refuse(t, verdict, Named(r, verdict))  BY <1>4 DEF Lost
  <2>2. verdict # "created" /\ (verdict = "replayed" => ByKey(r) # {})  OBVIOUS
  <2> HIDE DEF verdict
  <2> QED BY <2>1, <2>2, NamedByKey, RefuseRecords
<1>5. CASE WalkStep(t)
  <2>1. CASE Declined(t)  BY <1>5, <2>1, WalkDoes, DeclinedRecords
  <2>2. CASE Trimmed(t)
    <3>1. UNCHANGED <<reservations, feed, req, pend, answer>> /\ pc' = [pc EXCEPT ![t] = "walk"] /\ pc[t] = "walk"
      BY <2>2 DEF Trimmed, tables, TypeOK, TxnsOK
    <3> QED BY <3>1, QuietRecords
  <2>3. CASE Grown(t)
    <3>1. PICK rid \in Resources, win \in Spans, qty \in Nat \ {0}, depth \in Nat, left \in Assigns, after \in Seq(Item) :
            Grows(t, rid, win, qty, depth, left, after)
      BY <2>3 DEF Grown
    <3>2. /\ pc[t] = "walk" /\ Hold(t, rid, win, qty, depth, left, after)
          /\ rid \notin run[t].used
      BY <3>1 DEF Grows
    <3> QED BY <3>2, HoldRecords
  <2> QED BY <1>5, <2>1, <2>2, <2>3, WalkDoes
<1>6. CASE LeftOver(t)  BY <1>6, RefuseRecords DEF LeftOver
<1>7. CASE DeadlockVictim(t)  BY <1>7, RefuseRecords DEF DeadlockVictim
<1> QED BY <1>1, <1>2, <1>3, <1>4, <1>5, <1>6, <1>7, FlushTakenRecords, CommitRecords DEF Book, WalkStep

\* Letting go marks what it lets go, and nothing else.
LEMMA CancelWriteRecords ==
    ASSUME TypeOK, ChecksHoldToTheEnd, Records, NEW t \in Txns, CancelWrite(t)
    PROVE  Records'
<1> DEFINE f == [b \in reservations |-> IF b \in LetGo(t)
                                        THEN [b EXCEPT !.status = "CANCELLED", !.at = t] ELSE b]
<1>1. /\ pc[t] = "letgo" /\ Finish(t, "cancelled", req[t].row)
      /\ reservations' = {f[b] : b \in reservations}
      /\ feed' = feed \cup {Mark(t, b.id, "CANCELLED") : b \in LetGo(t)}
  BY DEF CancelWrite
<1>2. reservations \subseteq Row /\ LetGo(t) \subseteq reservations  BY DEF TypeOK, TablesOK, LetGo
<1>3. \A b \in reservations :
        /\ f[b].id = b.id /\ f[b].rid = b.rid /\ f[b].by = b.by
        /\ f[b].key = b.key /\ f[b].parent = b.parent /\ f[b].ref = b.ref
        /\ b \in LetGo(t) => f[b].status = "CANCELLED"
        /\ b \notin LetGo(t) => f[b].status = b.status
  BY <1>2 DEF Row
<1> HIDE DEF f
<1>4. \A b : Mark(t, b.id, "CANCELLED").row = b.id /\ Mark(t, b.id, "CANCELLED").what = "CANCELLED"
  BY DEF Mark
<1>5. ASSUME NEW m \in feed' \ feed
      PROVE  \E b \in LetGo(t) : b.id = m.row
  <2>1. PICK b \in LetGo(t) : m = Mark(t, b.id, "CANCELLED")  BY <1>1
  <2> QED BY <1>4, <2>1
<1>6. feed \subseteq feed'  BY <1>1
<1>7. ASSUME NEW b \in reservations
      PROVE  f[b].status = "CANCELLED" <=> \E m \in feed' : m.row = b.id /\ m.what = "CANCELLED"
  <2>1. CASE b \in LetGo(t)
    <3>1. Mark(t, b.id, "CANCELLED") \in feed'  BY <1>1, <2>1
    <3> QED BY <1>3, <1>4, <2>1, <3>1
  <2>2. CASE b \notin LetGo(t)
    <3>1. ASSUME NEW m \in feed', m.row = b.id PROVE m \in feed
      <4> SUFFICES ASSUME m \notin feed PROVE FALSE  OBVIOUS
      <4>1. PICK c \in LetGo(t) : c.id = b.id  BY <1>5, <3>1
      <4>2. c = b  BY <1>2, <4>1 DEF Records, RowsAreUnique, AllRows
      <4> QED BY <2>2, <4>2
    <3>2. b.status = "CANCELLED" <=> \E m \in feed : m.row = b.id /\ m.what = "CANCELLED"
      BY DEF Records, EveryChangeIsMarked
    <3> QED BY <1>3, <1>6, <2>2, <3>1, <3>2
  <2> QED BY <2>1, <2>2
<1>8. \A m \in feed' \ feed : m.what = "CANCELLED" => \E b \in reservations : b.id = m.row
  BY <1>2, <1>5
<1>9. "cancelled" \in Codes \ {"created", "replayed"}  BY DEF Codes
<1>10. \A b \in reservations : /\ f[b].id = b.id /\ f[b].rid = b.rid /\ f[b].by = b.by
                                /\ f[b].key = b.key /\ f[b].parent = b.parent
  BY <1>3
<1>11. \A b \in reservations : f[b].ref = b.ref  BY <1>3
<1>12. pc[t] # "done" /\ Finish(t, "cancelled", req[t].row) /\ reservations' = {f[b] : b \in reservations}
  BY <1>1
<1> QED BY <1>6, <1>7, <1>8, <1>9, <1>10, <1>11, <1>12, RewrittenRecords

\* A reference is written only where no other row has it.
LEMMA ReferWriteRecords ==
    ASSUME TypeOK, ChecksHoldToTheEnd, Records, NEW t \in Txns, ReferWrite(t)
    PROVE  Records'
<1>1. CASE Rollback(t, "referlost")  BY <1>1, RollbackRecords DEF ReferWrite
<1>2. CASE ~Rollback(t, "referlost")
  <2> DEFINE x == req[t].row
             f == [b \in reservations |-> IF b.id = x THEN [b EXCEPT !.ref = req[t].ref] ELSE b]
  <2>1. /\ pc[t] = "refer" /\ Finish(t, "updated", x)
        /\ reservations' = {f[b] : b \in reservations}
        /\ feed' = feed \cup {Mark(t, x, "UPDATED")}
        /\ Rivals(t, reservations) = {} /\ \A u \in Txns : Rivals(t, pend[u]) = {}
    BY <1>2 DEF ReferWrite
  <2>2. reservations \subseteq Row  BY DEF TypeOK, TablesOK
  <2>3. \A b \in reservations :
          /\ f[b].id = b.id /\ f[b].rid = b.rid /\ f[b].by = b.by /\ f[b].status = b.status
          /\ f[b].key = b.key /\ f[b].parent = b.parent
          /\ f[b].ref = IF b.id = x THEN req[t].ref ELSE b.ref
    BY <2>2 DEF Row
  <2> HIDE DEF f
  <2>4. ASSUME NEW b \in reservations, f[b].ref # b.ref, f[b].ref # NoRef
        PROVE  b.id = x /\ \A c \in AllRows : c.id # x /\ c.by = b.by => c.ref # f[b].ref
    <3>1. b.id = x /\ f[b].ref = req[t].ref /\ req[t].ref # NoRef  BY <2>3, <2>4
    <3>2. b \in Asked(req[t])  BY <3>1 DEF Asked
    <3>3. ASSUME NEW c \in AllRows, c.id # x, c.by = b.by PROVE c.ref # f[b].ref
      <4>1. c \in reservations \/ \E u \in Txns : c \in pend[u]  BY DEF AllRows
      <4> QED BY <2>1, <3>1, <3>2, <3>3, <4>1 DEF Rivals
    <3> QED BY <3>1, <3>3
  <2>5. /\ feed \subseteq feed' /\ \A m \in feed' \ feed : m.what # "CANCELLED"
    <3>1. Mark(t, x, "UPDATED").what # "CANCELLED"  BY DEF Mark
    <3> QED BY <2>1, <3>1
  <2>6. ASSUME NEW b \in reservations
        PROVE  f[b].status = "CANCELLED" <=> \E m \in feed' : m.row = b.id /\ m.what = "CANCELLED"
    BY <2>3, <2>5 DEF Records, EveryChangeIsMarked
  <2>7. "updated" \in Codes \ {"created", "replayed"}  BY DEF Codes
  <2> HIDE DEF x
  <2> QED BY <2>1, <2>3, <2>4, <2>5, <2>6, <2>7, RewrittenRecords
<1> QED BY <1>1, <1>2

LEMMA ChangeRecords ==
    ASSUME TypeOK, ChecksHoldToTheEnd, Records, NEW t \in Txns, Change(t)
    PROVE  Records'
<1> DEFINE r == req[t]
           f == [b \in reservations |-> IF r.mode # res[r.rid].mode /\ b \in Held(reservations, r.rid)
                                        THEN [b EXCEPT !.mode = r.mode] ELSE b]
<1>1. /\ pc[t] = "asked" /\ Finish(t, "changed", NoRow)
      /\ reservations' = {f[b] : b \in reservations}
      /\ feed' = feed \cup {Mark(t, NoRow, "RESOURCE")}
  BY DEF Change, Starts
<1>2. reservations \subseteq Row  BY DEF TypeOK, TablesOK
<1>3. \A b \in reservations :
        /\ f[b].id = b.id /\ f[b].rid = b.rid /\ f[b].by = b.by /\ f[b].status = b.status
        /\ f[b].key = b.key /\ f[b].parent = b.parent /\ f[b].ref = b.ref
  BY <1>2 DEF Row
<1> HIDE DEF f
<1>4. /\ feed \subseteq feed' /\ \A m \in feed' \ feed : m.what # "CANCELLED"
  <2>1. Mark(t, NoRow, "RESOURCE").what # "CANCELLED"  BY DEF Mark
  <2> QED BY <1>1, <2>1
<1>5. ASSUME NEW b \in reservations
      PROVE  f[b].status = "CANCELLED" <=> \E m \in feed' : m.row = b.id /\ m.what = "CANCELLED"
  BY <1>3, <1>4 DEF Records, EveryChangeIsMarked
<1>6. "changed" \in Codes \ {"created", "replayed"}  BY DEF Codes
<1> QED BY <1>1, <1>3, <1>4, <1>5, <1>6, RewrittenRecords

LEMMA AmendRecords ==
    ASSUME TypeOK, ChecksHoldToTheEnd, Records, NEW t \in Txns, Amend(t)
    PROVE  Records'
<1>1. CASE NotChangeable(t)
  <2>1. pc[t] = "asked"  BY <1>1 DEF NotChangeable, Starts
  <2>2. PICK code \in {"not found", "forbidden"} : Refuse(t, code, NoRow)  BY <1>1 DEF NotChangeable
  <2> QED BY <2>1, <2>2, RefuseRecords
<1>2. CASE CancelTwice(t)  BY <1>2, RefuseRecords DEF CancelTwice, Starts
<1>3. CASE CancelRead(t)
  <2>1. pc[t] = "asked" /\ Goto(t, "cancel") /\ UNCHANGED <<tables, req, pend, answer>>
    BY <1>3 DEF CancelRead, Starts
  <2> QED BY <2>1, ReadRecords
<1>4. CASE CancelChildren(t)
  <2>1. pc[t] = "cancel" /\ Goto(t, "letgo") /\ UNCHANGED <<tables, req, pend, answer>>
    BY <1>4 DEF CancelChildren
  <2> QED BY <2>1, ReadRecords
<1>5. CASE ReferSame(t)  BY <1>5, RefuseRecords DEF ReferSame, Starts
<1>6. CASE ReferRefused(t)  BY <1>6, RefuseRecords DEF ReferRefused, Starts
<1>7. CASE ReferRead(t)
  <2>1. pc[t] = "asked" /\ Goto(t, "refer") /\ UNCHANGED <<tables, req, pend, answer>>
    BY <1>7 DEF ReferRead, Starts
  <2> QED BY <2>1, ReadRecords
<1>8. CASE ReferLost(t)  BY <1>8, RefuseRecords DEF ReferLost
<1> QED BY <1>1, <1>2, <1>3, <1>4, <1>5, <1>6, <1>7, <1>8, CancelWriteRecords, ReferWriteRecords DEF Amend

\* A class writes no reservation, whatever it is told.
LEMMA SlotRecords ==
    ASSUME TypeOK, Records, NEW t \in Txns, pc[t] # "done", req[t].op # "book", NEW code, code # "replayed",
           Finish(t, code, NoRow), UNCHANGED <<res, reservations, feed>>
    PROVE  Records'
<1>1. /\ UNCHANGED <<reservations, feed, req>> /\ pc' = [pc EXCEPT ![t] = "done"]
      /\ pend' = [pend EXCEPT ![t] = {}]
      /\ answer' = [answer EXCEPT ![t] = [code |-> code, row |-> NoRow]]
  BY DEF Finish, Goto
<1> QED BY <1>1, QuietRecords

LEMMA PlanRecords ==
    ASSUME TypeOK, ChecksHoldToTheEnd, Records, NEW t \in Txns, Plan(t)
    PROVE  Records'
<1>1. CASE ChangeRefused(t)  BY <1>1, RefuseRecords DEF ChangeRefused, Starts
<1>2. CASE SlotRefused(t)  BY <1>2, RefuseRecords DEF SlotRefused, Starts
<1>3. CASE SlotRead(t)
  <2>1. pc[t] = "asked" /\ Goto(t, "slot") /\ UNCHANGED <<tables, req, pend, answer>>
    BY <1>3 DEF SlotRead, Starts
  <2> QED BY <2>1, ReadRecords
<1>4. CASE SlotWrite(t)
  <2>1. pc[t] = "slot" /\ req[t] \in SlotRequest  BY <1>4 DEF SlotWrite, TypeOK, TxnsOK, Placed
  <2>2. req[t].op # "book"  BY <2>1 DEF SlotRequest
  <2>3. Finish(t, "created", NoRow) /\ UNCHANGED <<res, reservations, feed>>  BY <1>4 DEF SlotWrite
  <2> QED BY <2>1, <2>2, <2>3, SlotRecords
<1>5. CASE SlotDelete(t)
  <2>1. pc[t] = "asked" /\ req[t].op = "unslot"  BY <1>5 DEF SlotDelete, Starts
  <2>2. PICK code \in {"not found", "deleted"} : Finish(t, code, NoRow)  BY <1>5 DEF SlotDelete
  <2>3. UNCHANGED <<res, reservations, feed>>  BY <1>5 DEF SlotDelete
  <2> QED BY <2>1, <2>2, <2>3, SlotRecords
<1> QED BY <1>1, <1>2, <1>3, <1>4, <1>5, ChangeRecords DEF Plan

LEMMA RecordsNext ==
    ASSUME TypeOK, ChecksHoldToTheEnd, Records, \A t \in Txns : Provides(t), [Next]_vars
    PROVE  Records'
<1>1. ASSUME NEW t \in Txns, Crash(t) PROVE Records'
  <2>1. pc[t] # "done"  BY <1>1 DEF Crash, Running
  <2> QED BY <1>1, <2>1, RefuseRecords DEF Crash
<1>2. ASSUME UNCHANGED vars PROVE Records'
  <2>1. /\ UNCHANGED <<reservations, feed, req, pc, pend, answer>>
    BY <1>2 DEF vars
  <2>2. \A t \in Txns : Writes(t)'  BY <2>1 DEF Records, Writes, Makes, First
  <2>3. Written'  BY <2>1 DEF Records, Written, Makes, First, Booked
  <2>4. RowsAreUnique'  BY <2>1 DEF Records, RowsAreUnique, AllRows, SameUnique
  <2>5. ReplaysAreFounded' /\ MarksAreFounded' /\ EveryChangeIsMarked'
    BY <2>1 DEF Records, ReplaysAreFounded, MarksAreFounded, EveryChangeIsMarked
  <2> QED BY <2>2, <2>3, <2>4, <2>5 DEF Records
<1> QED BY <1>1, <1>2, BookRecords, AmendRecords, PlanRecords DEF Next, Step, Quiet

LEMMA RecordsInit == Init => Records
<1> SUFFICES ASSUME Init PROVE Records  OBVIOUS
<1>1. /\ reservations = {} /\ feed = {}
      /\ \A t \in Txns : pc[t] = "asked" /\ pend[t] = {} /\ answer[t].code = "none"
  BY DEF Init
<1>2. \A t \in Txns : Writes(t)  BY <1>1 DEF Writes
<1>3. Written  BY <1>1 DEF Written, Booked
<1>4. RowsAreUnique  BY <1>1 DEF RowsAreUnique, AllRows
<1>5. ReplaysAreFounded /\ MarksAreFounded /\ EveryChangeIsMarked
  BY <1>1 DEF ReplaysAreFounded, MarksAreFounded, EveryChangeIsMarked
<1> QED BY <1>2, <1>3, <1>4, <1>5 DEF Records
-----------------------------------------------------------------------------
(* What a booking requires, step by step. *)

LEMMA RidsFinite ==
    ASSUME NEW rows, IsFiniteSet(rows)
    PROVE  IsFiniteSet({c.rid : c \in rows})
<1> DEFINE T == {c.rid : c \in rows}
           f == [c \in rows |-> c.rid]
<1>1. f \in Surjection(rows, T)  BY DEF Surjection
<1> HIDE DEF f, T
<1>2. IsFiniteSet(T)  BY <1>1, FS_Surjection
<1> QED BY <1>2 DEF T

\* The resources of a kind that a finite booking has.
LEMMA OfKindFinite ==
    ASSUME NEW rows, IsFiniteSet({c.rid : c \in rows}), NEW kind, NEW rid
    PROVE  IsFiniteSet(OfKind(rows, kind, rid)) /\ Cardinality(OfKind(rows, kind, rid)) \in Nat
<1>1. OfKind(rows, kind, rid) \in SUBSET {c.rid : c \in rows}  BY DEF OfKind
<1>2. IsFiniteSet(OfKind(rows, kind, rid))  BY <1>1, FS_Subset
<1> QED BY <1>2, FS_CardinalityType

LEMMA ReqType ==
    ASSUME NEW rid \in Resources, NEW i \in DOMAIN Reqs[rid]
    PROVE  Reqs[rid][i] \in Requirement
<1>1. Reqs[rid] \in Seq(Requirement)  BY RequirementsAssumption
<1>2. DOMAIN Reqs[rid] = 1..Len(Reqs[rid])  BY <1>1, LenProperties
<1> QED BY <1>1, <1>2, ElementOfSeq

\* More rows have no fewer of a kind.
LEMMA OfKindMore ==
    ASSUME NEW rows, NEW more, IsFiniteSet({c.rid : c \in more}),
           \A c \in rows : \E d \in more : d.rid = c.rid, NEW kind, NEW rid
    PROVE  /\ Cardinality(OfKind(rows, kind, rid)) \in Nat /\ Cardinality(OfKind(more, kind, rid)) \in Nat
           /\ Cardinality(OfKind(rows, kind, rid)) <= Cardinality(OfKind(more, kind, rid))
<1>1. IsFiniteSet(OfKind(more, kind, rid)) /\ Cardinality(OfKind(more, kind, rid)) \in Nat  BY OfKindFinite
<1>2. OfKind(rows, kind, rid) \in SUBSET OfKind(more, kind, rid)  BY DEF OfKind
<1>3. /\ IsFiniteSet(OfKind(rows, kind, rid))
      /\ Cardinality(OfKind(rows, kind, rid)) <= Cardinality(OfKind(more, kind, rid))
  BY <1>1, <1>2, FS_Subset
<1> QED BY <1>1, <1>3, FS_CardinalityType

\* What rows meet, more rows meet, and rows that stand where they stand.
LEMMA MetMore ==
    ASSUME NEW rows, NEW more, IsFiniteSet({c.rid : c \in more}),
           \A c \in rows : \E d \in more : d.rid = c.rid /\ d.win = c.win,
           NEW b, NEW a, a.rid = b.rid, a.win = b.win, NEW row \in Requirement, Met(rows, b, row)
    PROVE  Met(more, a, row)
<1>1. CASE row.target # NoTarget
  <2>1. PICK c \in rows : c.rid = row.target /\ c.win = Padded(b.win, row.before, row.after)
    BY <1>1 DEF Met
  <2>2. PICK d \in more : d.rid = c.rid /\ d.win = c.win  BY <2>1
  <2> QED BY <1>1, <2>1, <2>2 DEF Met
<1>2. CASE row.target = NoTarget
  <2>1. Cardinality(OfKind(rows, row.kind, b.rid)) >= row.qty  BY <1>2 DEF Met
  <2>2. /\ Cardinality(OfKind(rows, row.kind, b.rid)) \in Nat /\ Cardinality(OfKind(more, row.kind, b.rid)) \in Nat
        /\ Cardinality(OfKind(rows, row.kind, b.rid)) <= Cardinality(OfKind(more, row.kind, b.rid))
    BY OfKindMore
  <2>3. row.qty \in Nat  BY DEF Requirement
  <2>4. Cardinality(OfKind(more, row.kind, b.rid)) >= row.qty  BY <2>1, <2>2, <2>3
  <2> QED BY <1>2, <2>4 DEF Met
<1> QED BY <1>1, <1>2

\* The step of t leaves what the others have left to do alone.
Apart(t) == \A u \in Txns \ {t} : pc'[u] = pc[u] /\ req'[u] = req[u] /\ pend'[u] = pend[u] /\ run'[u] = run[u]

LEMMA ApartProvides ==
    ASSUME NEW t \in Txns, Apart(t), NEW u \in Txns \ {t}, Provides(u)
    PROVE  Provides(u)'
<1>1. pc'[u] = pc[u] /\ req'[u] = req[u] /\ pend'[u] = pend[u] /\ run'[u] = run[u]  BY DEF Apart
<1> QED BY <1>1 DEF Provides

LEMMA QuietComplete ==
    ASSUME Complete, NEW t \in Txns, Apart(t), Provides(t)', reservations' = reservations
    PROVE  Complete'
<1>1. \A u \in Txns : Provides(u)'  BY ApartProvides DEF Complete
<1>2. Whole'  BY DEF Complete, Whole, Family
<1> QED BY <1>1, <1>2 DEF Complete

\* An item that is done leaves nothing owed.
LEMMA TrimmedProvides ==
    ASSUME TypeOK, NEW t \in Txns, Provides(t), Trimmed(t)
    PROVE  Provides(t)'
<1> DEFINE rows == pend[t]
           old == Items(run[t].agenda)
           new == Items(run'[t].agenda)
<1>1. /\ pc[t] = "walk" /\ pc'[t] = "walk" /\ pend'[t] = rows /\ OfTheirKind(run'[t].left)
      /\ \A x \in new : x.do = "kind" => Sought(x)
  BY DEF Trimmed
<1>2. PICK h \in old : Keeps(old, h, new) /\ Done(new, h)  BY DEF Trimmed
<1>3. /\ \A x \in old : x.do = "kind" => Sought(x)
      /\ \A b \in rows : \A i \in DOMAIN Reqs[b.rid] : Enforced(Reqs[b.rid][i]) =>
           Met(rows, b, Reqs[b.rid][i]) \/ Owed(old, rows, b, Reqs[b.rid][i])
  BY <1>1 DEF Provides
<1>4. IsFiniteSet({c.rid : c \in rows})
  <2>1. IsFiniteSet(rows)  BY DEF TypeOK, TxnsOK
  <2> QED BY <2>1, RidsFinite
<1> HIDE DEF old, new
<1>5. ASSUME NEW b \in rows, NEW row \in Requirement, Enforced(row), Owed(old, rows, b, row)
      PROVE  Met(rows, b, row) \/ Owed(new, rows, b, row)
  <2> DEFINE n == Cardinality(OfKind(rows, row.kind, b.rid))
  <2>1. n \in Nat  BY <1>4, OfKindFinite
  <2>2. PICK x \in old : /\ x.do # "lock" /\ x.row = row
                         /\ (x.do = "row" /\ x.win = b.win) \/ (x.do = "kind" /\ x.got <= n)
    BY <1>5 DEF Owed
  <2>3. CASE x # h
    <3>1. x \in new  BY <1>2, <2>3 DEF Keeps
    <3> QED BY <2>2, <3>1 DEF Owed
  <2>4. CASE x = h /\ h.do = "kind" /\ h.got >= h.row.qty
    <3>1. row.target = NoTarget  BY <1>3, <2>2, <2>4 DEF Sought
    <3>2. h.got \in Nat /\ row.qty \in Nat
      <4>1. run[t].agenda \in Seq(Item)  BY DEF TypeOK, TxnsOK
      <4>2. h \in Item
        <5> HIDE DEF Item
        <5>1. PICK k \in DOMAIN run[t].agenda : h = run[t].agenda[k]  BY DEF old, Items
        <5>2. DOMAIN run[t].agenda = 1..Len(run[t].agenda)  BY <4>1, LenProperties
        <5> QED BY <4>1, <5>1, <5>2, ElementOfSeq
      <4> QED BY <2>4, <4>2 DEF Item, LockItem, RowItem, KindItem, Requirement
    <3>3. n >= row.qty  BY <2>1, <2>2, <2>4, <3>2
    <3> QED BY <3>1, <3>3 DEF Met
  <2>5. CASE x = h /\ \E g \in new : /\ g.do = "kind" /\ g.row = h.row
                                     /\ g.got = 0 \/ (h.do = "kind" /\ g.got = h.got)
    <3>1. PICK g \in new : /\ g.do = "kind" /\ g.row = h.row
                           /\ g.got = 0 \/ (h.do = "kind" /\ g.got = h.got)
      BY <2>5
    <3>2. g.got <= n  BY <2>1, <2>2, <2>5, <3>1
    <3> QED BY <2>2, <2>5, <3>1, <3>2 DEF Owed
  <2>6. CASE x = h /\ (h.do = "lock" \/ ~Enforced(h.row))  BY <1>5, <2>2, <2>6
  <2> QED BY <1>2, <2>3, <2>4, <2>5, <2>6 DEF Done
<1>6. ASSUME NEW b \in rows, NEW i \in DOMAIN Reqs[b.rid], Enforced(Reqs[b.rid][i])
      PROVE  Met(rows, b, Reqs[b.rid][i]) \/ Owed(new, rows, b, Reqs[b.rid][i])
  <2>1. b.rid \in Resources  BY DEF TypeOK, TxnsOK, Row
  <2>2. Reqs[b.rid][i] \in Requirement  BY <2>1, ReqType
  <2> QED BY <1>3, <1>5, <1>6, <2>2
<1> QED BY <1>1, <1>6 DEF Provides, new

\* One more row meets a named requirement or counts for its kind, and asks for what it requires itself.
LEMMA GrownProvides ==
    ASSUME TypeOK, ChecksHoldToTheEnd, NEW t \in Txns, Provides(t),
           NEW rid \in Resources, NEW win \in Spans, NEW qty, NEW depth \in Nat, NEW left, NEW after \in Seq(Item),
           Grows(t, rid, win, qty, depth, left, after)
    PROVE  Provides(t)'
<1> DEFINE rows == pend[t]
           c == ChildRow(t, rid, win, qty)
           more == rows \cup {c}
           old == Items(run[t].agenda)
           walk == Walk(rid, win, depth + 1)
           new == Items(walk) \cup Items(after)
<1>1. /\ pc[t] = "walk" /\ Hold(t, rid, win, qty, depth, left, after) /\ rid \notin run[t].used
      /\ OfTheirKind(left) /\ \A x \in Items(after) : x.do = "kind" => Sought(x)
  BY DEF Grows
<1>2. PICK h \in old :
         /\ Keeps(old, h, Items(after))
         /\ \/ h.do = "row" /\ h.row.target = rid /\ win = RowWindow(h)
            \/ /\ h.do = "kind" /\ KindOf[rid] = h.row.kind
               /\ \E g \in Items(after) : g.do = "kind" /\ g.row = h.row /\ g.got = h.got + 1
  BY DEF Grows
<1>3. /\ pc'[t] = "walk" /\ pend'[t] = more /\ run'[t].agenda = walk \o after /\ run'[t].left = left
  BY <1>1 DEF Hold, TypeOK, TxnsOK
<1>4. Items(walk \o after) = new
  <2>1. walk \in Seq(Item)  BY WalkType
  <2> HIDE DEF walk, Item
  <2> QED BY <2>1, ItemsConcat
<1>5. c.rid = rid /\ c.win = win  BY DEF ChildRow
<1>6. /\ \A i \in DOMAIN Reqs[rid] : \E x \in Items(walk) : x.do = "row" /\ x.row = Reqs[rid][i] /\ x.win = win
      /\ \A x \in Items(walk) : x.do # "kind"
  BY ItemsWalk
<1>7. \A b \in rows : b.rid \in run[t].used /\ b.rid \in Resources
  BY DEF ChecksHoldToTheEnd, StillFree, TypeOK, TxnsOK, Row
<1> HIDE DEF c, walk
<1>8. IsFiniteSet({d.rid : d \in rows}) /\ IsFiniteSet({d.rid : d \in more})
  <2>1. IsFiniteSet(rows)  BY DEF TypeOK, TxnsOK
  <2>2. IsFiniteSet(more)  BY <2>1, FS_AddElement
  <2> QED BY <2>1, <2>2, RidsFinite
<1>9. /\ \A x \in old : x.do = "kind" => Sought(x)
      /\ \A b \in rows : \A i \in DOMAIN Reqs[b.rid] : Enforced(Reqs[b.rid][i]) =>
           Met(rows, b, Reqs[b.rid][i]) \/ Owed(old, rows, b, Reqs[b.rid][i])
  BY <1>1 DEF Provides
<1>10. \A x \in old : x \in Item
  <2>1. run[t].agenda \in Seq(Item)  BY DEF TypeOK, TxnsOK
  <2>2. DOMAIN run[t].agenda = 1..Len(run[t].agenda)
    <3> HIDE DEF Item
    <3> QED BY <2>1, LenProperties
  <2> HIDE DEF Item
  <2> QED BY <2>1, <2>2, ElementOfSeq DEF Items
<1> HIDE DEF old
<1>11. ASSUME NEW b \in rows, NEW row \in Requirement, Enforced(row),
              Met(rows, b, row) \/ Owed(old, rows, b, row)
       PROVE  Met(more, b, row) \/ Owed(new, more, b, row)
  <2> DEFINE n == Cardinality(OfKind(rows, row.kind, b.rid))
             m == Cardinality(OfKind(more, row.kind, b.rid))
  <2>1. n \in Nat /\ m \in Nat /\ n <= m
    <3>1. \A d \in rows : \E e \in more : e.rid = d.rid  OBVIOUS
    <3> HIDE DEF more
    <3> QED BY <1>8, <3>1, OfKindMore
  <2>2. CASE Met(rows, b, row)
    <3>1. \A d \in rows : \E e \in more : e.rid = d.rid /\ e.win = d.win  OBVIOUS
    <3> HIDE DEF more
    <3> QED BY <1>8, <2>2, <3>1, MetMore
  <2>3. CASE Owed(old, rows, b, row)
    <3>1. PICK x \in old : /\ x.do # "lock" /\ x.row = row
                           /\ (x.do = "row" /\ x.win = b.win) \/ (x.do = "kind" /\ x.got <= n)
      BY <2>3 DEF Owed
    <3>2. x.do = "kind" => x.got \in Nat  BY <1>10 DEF Item, LockItem, RowItem, KindItem
    <3>3. CASE x # h
      <4>1. x \in new  BY <1>2, <3>3 DEF Keeps
      <4>2. x.do = "kind" => x.got <= m  BY <2>1, <3>1, <3>2
      <4> HIDE DEF new, more
      <4> QED BY <3>1, <4>1, <4>2 DEF Owed
    <3>4. CASE x = h /\ h.do = "row" /\ h.row.target = rid /\ win = RowWindow(h)
      <4>1. rid # NoTarget  BY ResourcesAssumption DEF NoTarget
      <4>2. c \in more /\ c.rid = row.target /\ c.win = Padded(b.win, row.before, row.after)
        <5>1. x.win = b.win  BY <3>1, <3>4
        <5> QED BY <1>5, <3>1, <3>4, <5>1 DEF RowWindow
      <4> HIDE DEF more
      <4> QED BY <3>1, <3>4, <4>1, <4>2 DEF Met
    <3>5. CASE /\ x = h /\ h.do = "kind" /\ KindOf[rid] = h.row.kind
               /\ \E g \in Items(after) : g.do = "kind" /\ g.row = h.row /\ g.got = h.got + 1
      <4>1. PICK g \in Items(after) : g.do = "kind" /\ g.row = h.row /\ g.got = h.got + 1  BY <3>5
      <4>2. OfKind(more, row.kind, b.rid) = OfKind(rows, row.kind, b.rid) \cup {rid}
        <5>1. rid # b.rid  BY <1>1, <1>7
        <5>2. KindOf[rid] = row.kind  BY <3>1, <3>5
        <5> QED BY <1>5, <5>1, <5>2 DEF OfKind
      <4>3. rid \notin OfKind(rows, row.kind, b.rid)  BY <1>1, <1>7 DEF OfKind
      <4>4. IsFiniteSet(OfKind(rows, row.kind, b.rid))  BY <1>8, OfKindFinite
      <4>5. m = n + 1  BY <4>2, <4>3, <4>4, FS_AddElement
      <4>6. g.got <= m  BY <2>1, <3>1, <3>2, <3>5, <4>1, <4>5
      <4> HIDE DEF more
      <4>7. g \in new  OBVIOUS
      <4> HIDE DEF new
      <4> QED BY <3>1, <3>5, <4>1, <4>6, <4>7 DEF Owed
    <3> QED BY <1>2, <3>3, <3>4, <3>5
  <2> QED BY <1>11, <2>2, <2>3
<1>12. ASSUME NEW b \in more, NEW i \in DOMAIN Reqs[b.rid], Enforced(Reqs[b.rid][i])
       PROVE  Met(more, b, Reqs[b.rid][i]) \/ Owed(new, more, b, Reqs[b.rid][i])
  <2>1. CASE b = c
    <3>1. PICK x \in Items(walk) : x.do = "row" /\ x.row = Reqs[b.rid][i] /\ x.win = win  BY <1>5, <1>6, <2>1
    <3>2. x \in new /\ x.win = b.win  BY <1>5, <2>1, <3>1
    <3> HIDE DEF new, more
    <3> QED BY <3>1, <3>2 DEF Owed
  <2>2. CASE b \in rows
    <3>1. Reqs[b.rid][i] \in Requirement  BY <1>7, <2>2, ReqType
    <3> HIDE DEF new, more
    <3> QED BY <1>9, <1>11, <1>12, <2>2, <3>1
  <2> QED BY <2>1, <2>2
<1>13. \A x \in new : x.do = "kind" => Sought(x)  BY <1>1, <1>6
<1> HIDE DEF new, more
<1> QED BY <1>1, <1>3, <1>4, <1>12, <1>13 DEF Provides

\* The booking itself: everything it requires is on the list.
LEMMA FlushTakenProvides ==
    ASSUME TypeOK, NEW t \in Txns, Provides(t), FlushTaken(t)
    PROVE  Provides(t)' /\ Apart(t) /\ reservations' = reservations
<1> DEFINE c == ParentRow(t)
           rid == req[t].rid
           win == req[t].win
           walk == Walk(rid, win, 1)
<1>1. rid \in Resources /\ win \in Spans /\ pc[t] = "flush"
  BY DEF FlushTaken, TypeOK, TxnsOK, Placed, BookRequest
<1>2. /\ pend'[t] = {c} /\ run'[t].agenda = walk /\ run'[t].left = req[t].assign /\ pc'[t] = "walk"
      /\ \A u \in Txns \ {t} : pc'[u] = pc[u] /\ pend'[u] = pend[u] /\ run'[u] = run[u]
      /\ req' = req /\ reservations' = reservations
  BY DEF FlushTaken, Goto, TypeOK, TxnsOK, tables
<1>3. c.rid = rid /\ c.win = win  BY DEF ParentRow
<1>4. /\ \A i \in DOMAIN Reqs[rid] : \E x \in Items(walk) : x.do = "row" /\ x.row = Reqs[rid][i] /\ x.win = win
      /\ \A x \in Items(walk) : x.do # "kind"
  BY <1>1, ItemsWalk
<1>5. OfTheirKind(req[t].assign)  BY <1>1 DEF Provides
<1> HIDE DEF c, walk
<1>6. ASSUME NEW i \in DOMAIN Reqs[c.rid] PROVE Owed(Items(walk), {c}, c, Reqs[c.rid][i])
  <2>1. PICK x \in Items(walk) : x.do = "row" /\ x.row = Reqs[c.rid][i] /\ x.win = win  BY <1>3, <1>4
  <2> QED BY <1>3, <2>1 DEF Owed
<1>7. Provides(t)'  BY <1>2, <1>4, <1>5, <1>6 DEF Provides
<1> QED BY <1>2, <1>7 DEF Apart

LEMMA BookAdmittedProvides ==
    ASSUME TypeOK, NEW t \in Txns, BookAdmitted(t)
    PROVE  Provides(t)' /\ Apart(t) /\ reservations' = reservations
<1>1. /\ pc'[t] = "flush" /\ req' = req /\ reservations' = reservations
      /\ \A u \in Txns \ {t} : pc'[u] = pc[u] /\ pend'[u] = pend[u] /\ run'[u] = run[u]
      /\ Verdict(req[t]) = "go"
  BY DEF BookAdmitted, Goto, TypeOK, TxnsOK, tables
<1>2. AssignmentsOk(req[t])  BY <1>1 DEF Verdict
<1>3. OfTheirKind(req[t].assign)  BY <1>2 DEF AssignmentsOk, OfTheirKind
<1> QED BY <1>1, <1>3 DEF Provides, Apart

\* A transaction that does not walk has nothing left to do.
LEMMA StoppedProvides ==
    ASSUME TypeOK, NEW t \in Txns, NEW where \in Places \ {"flush", "walk"}, Released(t, where)
    PROVE  Provides(t)' /\ Apart(t)
<1>1. /\ pc'[t] = where /\ req' = req
      /\ \A u \in Txns \ {t} : pc'[u] = pc[u] /\ pend'[u] = pend[u] /\ run'[u] = run[u]
  BY DEF Released, Goto, TypeOK, TxnsOK
<1> QED BY <1>1 DEF Provides, Apart

LEMMA FinishComplete ==
    ASSUME TypeOK, Complete, NEW t \in Txns, NEW code, NEW row, Finish(t, code, row),
           reservations' = reservations
    PROVE  Complete'
<1>1. Released(t, "done") /\ "done" \in Places \ {"flush", "walk"}  BY DEF Finish, Released, Places
<1> QED BY <1>1, StoppedProvides, QuietComplete

LEMMA RefuseComplete ==
    ASSUME TypeOK, Complete, NEW t \in Txns, NEW code, NEW row, Refuse(t, code, row)
    PROVE  Complete'
BY FinishComplete DEF Refuse, tables

LEMMA RollbackComplete ==
    ASSUME TypeOK, Complete, NEW t \in Txns, NEW where \in {"lost", "referlost"}, Rollback(t, where)
    PROVE  Complete'
<1>1. Released(t, where) /\ where \in Places \ {"flush", "walk"} /\ reservations' = reservations
  BY DEF Rollback, Released, Places, tables
<1> QED BY <1>1, StoppedProvides, QuietComplete

LEMMA ReadComplete ==
    ASSUME TypeOK, Complete, NEW t \in Txns, NEW where \in {"cancel", "letgo", "refer", "slot"}, Goto(t, where),
           UNCHANGED <<tables, req, pend>>, \A u \in Txns \ {t} : run'[u] = run[u]
    PROVE  Complete'
<1>1. pc'[t] = where /\ (\A u \in Txns \ {t} : pc'[u] = pc[u]) /\ reservations' = reservations
  BY DEF Goto, TypeOK, TxnsOK, tables
<1>2. Provides(t)' /\ Apart(t)  BY <1>1 DEF Provides, Apart
<1> QED BY <1>1, <1>2, QuietComplete

\* The list is empty: whatever the booking requires it has, and now the table has it.
LEMMA CommitComplete ==
    ASSUME TypeOK, ChecksHoldToTheEnd, Records, Complete, NEW t \in Txns, Commit(t)
    PROVE  Complete'
<1>1. /\ pc[t] = "walk" /\ run[t].agenda = <<>> /\ reservations' = reservations \cup pend[t]
      /\ Finish(t, "created", <<t, req[t].rid>>)
  BY DEF Commit
<1>2. \A u \in Txns : Provides(u)'
  <2>1. Released(t, "done") /\ "done" \in Places \ {"flush", "walk"}  BY <1>1 DEF Finish, Released, Places
  <2> QED BY <2>1, StoppedProvides, ApartProvides DEF Complete
<1>3. \A b \in pend[t] : b.id[1] = t  BY DEF Records, Writes, Makes
<1>4. \A b \in reservations : b.id[1] # t
  <2> SUFFICES ASSUME NEW b \in reservations PROVE b.id[1] # t  OBVIOUS
  <2>1. PICK u \in Txns : Makes(u, b) /\ Booked(u)  BY DEF Records, Written
  <2>2. u # t  BY <1>1, <2>1 DEF Records, Written
  <2> QED BY <2>1, <2>2 DEF Makes
<1>5. ASSUME NEW b \in reservations PROVE Family(b)' = Family(b)
  BY <1>1, <1>3, <1>4 DEF Family
<1>6. ASSUME NEW b \in pend[t] PROVE Family(b)' = pend[t]
  BY <1>1, <1>3, <1>4 DEF Family
<1>7. ASSUME NEW b \in pend[t], NEW i \in DOMAIN Reqs[b.rid], Enforced(Reqs[b.rid][i])
      PROVE  Met(pend[t], b, Reqs[b.rid][i])
  <2>1. Met(pend[t], b, Reqs[b.rid][i]) \/ Owed(Items(run[t].agenda), pend[t], b, Reqs[b.rid][i])
    BY <1>1, <1>7 DEF Complete, Provides
  <2>2. Items(run[t].agenda) = {}  BY <1>1 DEF Items
  <2>3. ~Owed(Items(run[t].agenda), pend[t], b, Reqs[b.rid][i])  BY <2>2 DEF Owed
  <2> QED BY <2>1, <2>3
<1>8. IsFiniteSet({c.rid : c \in pend[t]})
  <2>1. IsFiniteSet(pend[t])  BY DEF TypeOK, TxnsOK
  <2> QED BY <2>1, RidsFinite
<1>9. Whole'
  <2> SUFFICES ASSUME NEW b \in reservations'
               PROVE  /\ IsFiniteSet({c.rid : c \in Family(b)'})
                      /\ \A i \in DOMAIN Reqs[b.rid] :
                           Enforced(Reqs[b.rid][i]) => Met(Family(b)', b, Reqs[b.rid][i])
    BY DEF Whole
  <2>1. CASE b \in reservations
    <3>1. /\ IsFiniteSet({c.rid : c \in Family(b)})
          /\ \A i \in DOMAIN Reqs[b.rid] :
               Enforced(Reqs[b.rid][i]) => Met(Family(b), b, Reqs[b.rid][i])
      BY <2>1 DEF Complete, Whole
    <3> QED BY <1>5, <2>1, <3>1
  <2>2. CASE b \in pend[t]  BY <1>6, <1>7, <1>8, <2>2
  <2> QED BY <1>1, <2>1, <2>2
<1> QED BY <1>2, <1>9 DEF Complete

\* Rewriting rows in place moves none of them.
LEMMA RewrittenComplete ==
    ASSUME TypeOK, Complete, NEW t \in Txns, NEW code, NEW row, Finish(t, code, row),
           NEW f, reservations' = {f[b] : b \in reservations},
           \A b \in reservations : f[b].id = b.id /\ f[b].rid = b.rid /\ f[b].win = b.win
    PROVE  Complete'
<1>1. \A u \in Txns : Provides(u)'
  <2>1. Released(t, "done") /\ "done" \in Places \ {"flush", "walk"}  BY DEF Finish, Released, Places
  <2> QED BY <2>1, StoppedProvides, ApartProvides DEF Complete
<1>2. ASSUME NEW b \in reservations, NEW a \in reservations', a = f[b]
      PROVE  /\ IsFiniteSet({c.rid : c \in Family(a)'})
             /\ \A i \in DOMAIN Reqs[a.rid] :
                  Enforced(Reqs[a.rid][i]) => Met(Family(a)', a, Reqs[a.rid][i])
  <2> DEFINE rows == Family(b)
             more == Family(a)'
  <2>1. /\ IsFiniteSet({c.rid : c \in rows})
        /\ \A i \in DOMAIN Reqs[b.rid] :
             Enforced(Reqs[b.rid][i]) => Met(rows, b, Reqs[b.rid][i])
    BY DEF Complete, Whole
  <2>2. a.id = b.id /\ a.rid = b.rid /\ a.win = b.win  BY <1>2
  <2>3. \A c \in rows : \E d \in more : d.rid = c.rid /\ d.win = c.win  BY <2>2 DEF Family
  <2>4. \A d \in more : \E c \in rows : d.rid = c.rid /\ d.win = c.win
    <3> SUFFICES ASSUME NEW d \in more PROVE \E c \in rows : d.rid = c.rid /\ d.win = c.win  OBVIOUS
    <3>1. d \in reservations' /\ d.id[1] = a.id[1]  BY DEF Family
    <3>2. PICK c \in reservations : d = f[c]  BY <3>1
    <3> QED BY <2>2, <3>1, <3>2 DEF Family
  <2> HIDE DEF rows, more
  <2>5. {d.rid : d \in more} = {c.rid : c \in rows}
    <3>1. \A c \in rows : c.rid \in {d.rid : d \in more}  BY <2>3
    <3>2. \A d \in more : d.rid \in {c.rid : c \in rows}  BY <2>4
    <3> QED BY <3>1, <3>2
  <2>6. IsFiniteSet({d.rid : d \in more})  BY <2>1, <2>5
  <2>7. b.rid \in Resources  BY DEF TypeOK, TablesOK, Row
  <2>8. ASSUME NEW i \in DOMAIN Reqs[a.rid], Enforced(Reqs[a.rid][i]) PROVE Met(more, a, Reqs[a.rid][i])
    <3>1. Reqs[a.rid][i] \in Requirement  BY <2>2, <2>7, ReqType
    <3>2. Met(rows, b, Reqs[a.rid][i])  BY <2>1, <2>2, <2>8
    <3> QED BY <2>2, <2>3, <2>6, <3>1, <3>2, MetMore
  <2> QED BY <2>6, <2>8 DEF more
<1>3. Whole'
  <2> SUFFICES ASSUME NEW a \in reservations'
               PROVE  /\ IsFiniteSet({c.rid : c \in Family(a)'})
                      /\ \A i \in DOMAIN Reqs[a.rid] :
                           Enforced(Reqs[a.rid][i]) => Met(Family(a)', a, Reqs[a.rid][i])
    BY DEF Whole
  <2>1. PICK b \in reservations : a = f[b]  OBVIOUS
  <2> QED BY <1>2, <2>1
<1> QED BY <1>1, <1>3 DEF Complete

LEMMA BookComplete ==
    ASSUME TypeOK, ChecksHoldToTheEnd, Records, Complete, NEW t \in Txns, Book(t)
    PROVE  Complete'
<1>0. Provides(t)  BY DEF Complete
<1>1. CASE BookRefused(t)  BY <1>1, RefuseComplete DEF BookRefused
<1>2. CASE BookAdmitted(t)  BY <1>2, BookAdmittedProvides, QuietComplete
<1>3. CASE FlushTaken(t)  BY <1>0, <1>3, FlushTakenProvides, QuietComplete
<1>4. CASE FlushLost(t)  BY <1>4, RollbackComplete DEF FlushLost
<1>5. CASE Lost(t)
  <2>1. PICK code : Refuse(t, code, Named(req[t], code))  BY <1>5 DEF Lost
  <2> QED BY <2>1, RefuseComplete
<1>6. CASE WalkStep(t)
  <2>1. CASE Declined(t)  BY <2>1, RefuseComplete DEF Declined
  <2>2. CASE Trimmed(t)
    <3>1. Provides(t)'  BY <1>0, <2>2, TrimmedProvides
    <3>2. Apart(t) /\ reservations' = reservations  BY <2>2 DEF Trimmed, Apart, tables
    <3> QED BY <3>1, <3>2, QuietComplete
  <2>3. CASE Grown(t)
    <3>1. PICK rid \in Resources, win \in Spans, qty \in Nat \ {0}, depth \in Nat, left \in Assigns, after \in Seq(Item) :
            Grows(t, rid, win, qty, depth, left, after)
      BY <2>3 DEF Grown
    <3>2. Provides(t)'  BY <1>0, <3>1, GrownProvides
    <3>3. Hold(t, rid, win, qty, depth, left, after)  BY <3>1 DEF Grows
    <3>4. Apart(t) /\ reservations' = reservations  BY <3>3 DEF Hold, Apart, tables, TypeOK, TxnsOK
    <3> QED BY <3>2, <3>4, QuietComplete
  <2> QED BY <1>0, <1>6, <2>1, <2>2, <2>3, WalkDoes
<1>7. CASE LeftOver(t)  BY <1>7, RefuseComplete DEF LeftOver
<1>8. CASE DeadlockVictim(t)  BY <1>8, RefuseComplete DEF DeadlockVictim
<1> QED BY <1>1, <1>2, <1>3, <1>4, <1>5, <1>6, <1>7, <1>8, CommitComplete DEF Book, WalkStep

LEMMA AmendComplete ==
    ASSUME TypeOK, Complete, NEW t \in Txns, Amend(t)
    PROVE  Complete'
<1>0. reservations \subseteq Row  BY DEF TypeOK, TablesOK
<1>1. CASE NotChangeable(t)  BY <1>1, RefuseComplete DEF NotChangeable
<1>2. CASE CancelTwice(t)  BY <1>2, RefuseComplete DEF CancelTwice
<1>3. CASE CancelRead(t)  BY <1>3, ReadComplete DEF CancelRead
<1>4. CASE CancelChildren(t)
  <2>1. /\ Goto(t, "letgo") /\ UNCHANGED <<tables, req, pend>>
        /\ \A u \in Txns \ {t} : run'[u] = run[u]
    BY <1>4 DEF CancelChildren, TypeOK, TxnsOK
  <2> QED BY <2>1, ReadComplete
<1>5. CASE CancelWrite(t)
  <2> DEFINE f == [b \in reservations |-> IF b \in LetGo(t)
                                          THEN [b EXCEPT !.status = "CANCELLED", !.at = t] ELSE b]
  <2>1. reservations' = {f[b] : b \in reservations} /\ Finish(t, "cancelled", req[t].row)
    BY <1>5 DEF CancelWrite
  <2>2. \A b \in reservations : f[b].id = b.id /\ f[b].rid = b.rid /\ f[b].win = b.win
    BY <1>0 DEF Row
  <2> HIDE DEF f
  <2> QED BY <2>1, <2>2, RewrittenComplete
<1>6. CASE ReferSame(t)  BY <1>6, RefuseComplete DEF ReferSame
<1>7. CASE ReferRefused(t)  BY <1>7, RefuseComplete DEF ReferRefused
<1>8. CASE ReferRead(t)  BY <1>8, ReadComplete DEF ReferRead
<1>9. CASE ReferWrite(t)
  <2>1. CASE Rollback(t, "referlost")  BY <2>1, RollbackComplete
  <2>2. CASE ~Rollback(t, "referlost")
    <3> DEFINE f == [b \in reservations |-> IF b.id = req[t].row THEN [b EXCEPT !.ref = req[t].ref] ELSE b]
    <3>1. /\ reservations' = {f[b] : b \in reservations}
          /\ Finish(t, "updated", req[t].row)
      BY <1>9, <2>2 DEF ReferWrite
    <3>2. \A b \in reservations : f[b].id = b.id /\ f[b].rid = b.rid /\ f[b].win = b.win
      BY <1>0 DEF Row
    <3> HIDE DEF f
    <3> QED BY <3>1, <3>2, RewrittenComplete
  <2> QED BY <2>1, <2>2
<1>10. CASE ReferLost(t)  BY <1>10, RefuseComplete DEF ReferLost
<1> QED BY <1>1, <1>2, <1>3, <1>4, <1>5, <1>6, <1>7, <1>8, <1>9, <1>10 DEF Amend

LEMMA PlanComplete ==
    ASSUME TypeOK, Complete, NEW t \in Txns, Plan(t)
    PROVE  Complete'
<1>1. CASE ChangeRefused(t)  BY <1>1, RefuseComplete DEF ChangeRefused
<1>2. CASE Change(t)
  <2> DEFINE r == req[t]
             f == [b \in reservations |-> IF r.mode # res[r.rid].mode /\ b \in Held(reservations, r.rid)
                                          THEN [b EXCEPT !.mode = r.mode] ELSE b]
  <2>1. reservations' = {f[b] : b \in reservations} /\ Finish(t, "changed", NoRow)
    BY <1>2 DEF Change
  <2>2. reservations \subseteq Row  BY DEF TypeOK, TablesOK
  <2>3. \A b \in reservations : f[b].id = b.id /\ f[b].rid = b.rid /\ f[b].win = b.win
    BY <2>2 DEF Row
  <2> HIDE DEF f
  <2> QED BY <2>1, <2>3, RewrittenComplete
<1>3. CASE SlotRefused(t)  BY <1>3, RefuseComplete DEF SlotRefused
<1>4. CASE SlotRead(t)  BY <1>4, ReadComplete DEF SlotRead
<1>5. CASE SlotWrite(t)
  <2>1. Finish(t, "created", NoRow) /\ reservations' = reservations  BY <1>5 DEF SlotWrite
  <2> QED BY <2>1, FinishComplete
<1>6. CASE SlotDelete(t)
  <2>1. PICK code : Finish(t, code, NoRow)  BY <1>6 DEF SlotDelete
  <2>2. reservations' = reservations  BY <1>6 DEF SlotDelete
  <2> QED BY <2>1, <2>2, FinishComplete
<1> QED BY <1>1, <1>2, <1>3, <1>4, <1>5, <1>6 DEF Plan

LEMMA CompleteNext ==
    ASSUME TypeOK, ChecksHoldToTheEnd, Records, Complete, [Next]_vars
    PROVE  Complete'
<1>1. ASSUME NEW t \in Txns, Crash(t) PROVE Complete'  BY <1>1, RefuseComplete DEF Crash
<1>2. ASSUME UNCHANGED vars PROVE Complete'
  <2>1. /\ UNCHANGED <<reservations, req, pc, pend, run>>  BY <1>2 DEF vars
  <2>2. \A t \in Txns : Provides(t)'  BY <2>1 DEF Complete, Provides
  <2>3. Whole'  BY <2>1 DEF Complete, Whole, Family
  <2> QED BY <2>2, <2>3 DEF Complete
<1> QED BY <1>1, <1>2, BookComplete, AmendComplete, PlanComplete DEF Next, Step, Quiet

LEMMA CompleteInit == Init => Complete
<1> SUFFICES ASSUME Init PROVE Complete  OBVIOUS
<1>1. reservations = {} /\ \A t \in Txns : pc[t] = "asked"  BY DEF Init
<1>2. \A t \in Txns : Provides(t)  BY <1>1 DEF Provides
<1>3. Whole  BY <1>1 DEF Whole
<1> QED BY <1>2, <1>3 DEF Complete
-----------------------------------------------------------------------------
(* The theorems. *)

LEMMA FamiliesHold == Spec => [](TypeOK /\ ChecksHoldToTheEnd /\ Records /\ Complete)
<1>1. Init => TypeOK /\ ChecksHoldToTheEnd /\ Records /\ Complete
  BY TypeInit, SafeInit, RecordsInit, CompleteInit
<1>2. TypeOK /\ ChecksHoldToTheEnd /\ Records /\ Complete /\ [Next]_vars
        => (TypeOK /\ ChecksHoldToTheEnd /\ Records /\ Complete)'
  <2>1. Complete => \A t \in Txns : Provides(t)  BY DEF Complete
  <2> QED BY <2>1, TypeNext, SafeNext, RecordsNext, CompleteNext
<1> QED BY <1>1, <1>2, PTL DEF Spec

\* A caller's key makes one booking, and a reference names one of its reservations, however the retries
\* race: create_reservation's checks under the lock, the two unique constraints and lost together.
THEOREM KeysMakeOneBooking == Spec => []OneBookingPerKey
<1>1. ASSUME TypeOK, ChecksHoldToTheEnd, Records PROVE OneBookingPerKey
  <2>1. ASSUME NEW t \in Txns, NEW u \in Txns, t # u, req[t].op = "book", req[u].op = "book",
               req[t].by = req[u].by, req[t].key = req[u].key,
               answer[t].code = "created", answer[u].code \in {"created", "replayed"}
        PROVE  answer[u].code = "replayed" /\ answer[u].row = answer[t].row
    <3>1. Booked(t)  BY <2>1 DEF Booked
    <3>2. answer[t].row = <<t, req[t].rid>> /\ \E p \in reservations : First(t, p)
      BY <1>1, <3>1 DEF Records, Written
    <3>3. PICK p \in reservations : First(t, p)  BY <3>2
    <3>4. CASE answer[u].code = "created"
      <4>1. Booked(u)  BY <2>1, <3>4 DEF Booked
      <4>2. PICK q \in reservations : First(u, q)  BY <1>1, <4>1 DEF Records, Written
      <4>3. p \in AllRows /\ q \in AllRows  BY DEF AllRows
      <4>4. t = u  BY <1>1, <2>1, <3>3, <4>2, <4>3, OneFamilyPerKey
      <4> QED BY <2>1, <4>4
    <3>5. CASE answer[u].code = "replayed"
      <4>1. PICK b \in reservations : b.id = answer[u].row /\ b.by = req[u].by /\ b.key = <<req[u].key, 0>>
        BY <1>1, <3>5 DEF Records, ReplaysAreFounded
      <4>2. SameUnique(p, b)  BY <2>1, <3>3, <4>1 DEF First, SameUnique
      <4>3. p = b  BY <1>1, <4>2 DEF Records, RowsAreUnique, AllRows
      <4> QED BY <3>2, <3>3, <3>5, <4>1, <4>3 DEF First
    <3> QED BY <2>1, <3>4, <3>5
  <2>2. ASSUME NEW a \in reservations, NEW b \in reservations, a # b, a.by = b.by
        PROVE  a.key # b.key /\ (a.ref # b.ref \/ a.ref = NoRef)
    BY <1>1, <2>2 DEF Records, RowsAreUnique, AllRows, SameUnique
  <2> QED BY <2>1, <2>2 DEF OneBookingPerKey
<1> QED BY <1>1, FamiliesHold, PTL

\* The change feed tells of every reservation made and of every one let go, and of no other: the markers
\* are written in the transaction that writes the rows.
THEOREM ChangesAreMarked == Spec => []EveryChangeIsMarked
<1>1. Records => EveryChangeIsMarked  BY DEF Records
<1> QED BY <1>1, FamiliesHold, PTL

\* In a family a resource stands once.
LEMMA OneRowPerResource ==
    ASSUME Records, NEW b \in reservations, NEW c \in Family(b), NEW d \in Family(b), c.rid = d.rid
    PROVE  c = d
<1>1. c \in reservations /\ d \in reservations /\ c.id[1] = d.id[1]  BY DEF Family
<1>2. PICK t \in Txns : Makes(t, c)  BY <1>1 DEF Records, Written
<1>3. PICK u \in Txns : Makes(u, d)  BY <1>1 DEF Records, Written
<1>4. c.id = d.id  BY <1>1, <1>2, <1>3 DEF Makes
<1> QED BY <1>1, <1>4 DEF Records, RowsAreUnique, AllRows

\* A booking stands with everything it requires or not at all: every REQUIRED requirement, of the
\* resource asked for and of every resource held with it, has its rows, and they are the caller's.
THEOREM NothingIsHalfHeld == Spec => []NothingHalfHeld
<1>1. ASSUME TypeOK, ChecksHoldToTheEnd, Records, Complete PROVE NothingHalfHeld
  <2> SUFFICES ASSUME NEW b \in reservations
               PROVE  /\ b.parent # NoRow => \E p \in reservations : p.id = b.parent /\ p.by = b.by
                      /\ \A i \in DOMAIN Reqs[b.rid] :
                           LET row == Reqs[b.rid][i]
                           IN  Enforced(row) =>
                                 IF row.target # NoTarget
                                 THEN \E c \in Family(b) : c.rid = row.target /\ c.win = Padded(b.win, row.before, row.after)
                                 ELSE Cardinality({c \in Family(b) \ {b} : KindOf[c.rid] = row.kind}) >= row.qty
    BY DEF NothingHalfHeld
  <2>1. b.parent # NoRow => \E p \in reservations : p.id = b.parent /\ p.by = b.by
    <3>1. PICK u \in Txns : Makes(u, b) /\ Booked(u)  BY <1>1 DEF Records, Written
    <3>2. PICK p \in reservations : First(u, p)  BY <1>1, <3>1 DEF Records, Written
    <3> QED BY <3>1, <3>2 DEF Makes, First
  <2>2. ASSUME NEW i \in DOMAIN Reqs[b.rid], NEW row, row = Reqs[b.rid][i], Enforced(row)
        PROVE  IF row.target # NoTarget
               THEN \E c \in Family(b) : c.rid = row.target /\ c.win = Padded(b.win, row.before, row.after)
               ELSE Cardinality({c \in Family(b) \ {b} : KindOf[c.rid] = row.kind}) >= row.qty
    <3>1. Met(Family(b), b, row) /\ IsFiniteSet({c.rid : c \in Family(b)})  BY <1>1, <2>2 DEF Complete, Whole
    <3>2. CASE row.target # NoTarget  BY <3>1, <3>2 DEF Met
    <3>3. CASE row.target = NoTarget
      <4> DEFINE S == {c \in Family(b) \ {b} : KindOf[c.rid] = row.kind}
                 T == OfKind(Family(b), row.kind, b.rid)
                 f == [c \in S |-> c.rid]
      <4>1. \A c \in S : c.rid \in Resources  BY <1>1 DEF Family, TypeOK, TablesOK, Row
      <4>2. b \in Family(b)  BY DEF Family
      <4>3. \A c \in S : c.rid # b.rid  BY <1>1, <4>2, OneRowPerResource
      <4>4. f \in [S -> T]  BY <4>1, <4>3 DEF OfKind
      <4>5. \A c, d \in S : f[c] = f[d] => c = d  BY <1>1, OneRowPerResource
      <4>6. \A r \in T : \E c \in S : f[c] = r  BY DEF OfKind
      <4>7. IsFiniteSet(T)  BY <3>1, OfKindFinite
      <4> HIDE DEF S, T, f
      <4>8. f \in Injection(S, T) /\ f \in Surjection(S, T)
        BY <4>4, <4>5, <4>6 DEF Injection, Surjection, IsInjective
      <4>9. IsFiniteSet(S)  BY <4>7, <4>8, FS_Injection
      <4>10. Cardinality(T) <= Cardinality(S)  BY <4>8, <4>9, FS_Surjection
      <4>11. Cardinality(T) \in Nat /\ Cardinality(S) \in Nat  BY <4>7, <4>9, FS_CardinalityType
      <4>12. Cardinality(T) >= row.qty  BY <3>1, <3>3 DEF Met, T
      <4>13. row.qty \in Nat
        <5>1. b.rid \in Resources  BY <1>1 DEF TypeOK, TablesOK, Row
        <5>2. row \in Requirement  BY <2>2, <5>1, ReqType
        <5> QED BY <5>2 DEF Requirement
      <4>14. Cardinality(S) >= row.qty  BY <4>10, <4>11, <4>12, <4>13
      <4> QED BY <3>3, <4>14 DEF S
    <3> QED BY <3>2, <3>3
  <2> QED BY <2>1, <2>2
<1> QED BY <1>1, FamiliesHold, PTL
-----------------------------------------------------------------------------
(* One transaction at a time. *)

\* Whoever steps steps alone.
Solo(t) == \A u \in Txns \ {t} : ~Running(u)

LEMMA OnlyOne ==
    ASSUME Serial, OneWriter, NEW t \in Txns, Running(t) \/ \E op : Starts(t, op)
    PROVE  Solo(t)
BY DEF OneWriter, Alone, Starts, Solo

\* The others read nothing, so only t's own reading is to be judged.
LEMMA SoloWriter ==
    ASSUME TypeOK, ChecksHoldToTheEnd, NEW t \in Txns, Solo(t), Apart(t), ReadsHold(t)', OneWriterKeepsThem'
    PROVE  OneWriter'
<1>1. ASSUME NEW u \in Txns \ {t} PROVE ~Running(u)' /\ ReadsHold(u)'
  <2>1. pc'[u] = pc[u] /\ pend'[u] = pend[u] /\ pc[u] \in {"asked", "done"}
    BY DEF Apart, Solo, Running
  <2>2. pend[u] = {}  BY <2>1 DEF ChecksHoldToTheEnd, Guarding
  <2> QED BY <2>1, <2>2 DEF ReadsHold, Running
<1>2. Alone'  BY <1>1 DEF Alone
<1>3. \A u \in Txns : ReadsHold(u)'  BY <1>1
<1> QED BY <1>2, <1>3 DEF OneWriter

\* A step that writes none of the tables the promises are about.
LEMMA QuietWriter ==
    ASSUME TypeOK, ChecksHoldToTheEnd, OneWriter, NEW t \in Txns, Solo(t), Apart(t), ReadsHold(t)',
           UNCHANGED <<reservations, slots, feed, req>>,
           \/ answer' = answer
           \/ \E code, row : /\ answer' = [answer EXCEPT ![t] = [code |-> code, row |-> row]]
                             /\ code = "key reused" => ByKey(req[t]) # {}
    PROVE  OneWriter'
<1>1. HoldsMeetNoClass' /\ CancelledOnce'
  BY DEF OneWriter, OneWriterKeepsThem, HoldsMeetNoClass, CancelledOnce, OnTimetable
<1>2. KeyReusedMeansKeyUsed'
  <2> SUFFICES ASSUME NEW u \in Txns, answer'[u].code = "key reused"
               PROVE  \E b \in reservations : b.by = req[u].by /\ b.key = <<req[u].key, 0>>
    BY DEF KeyReusedMeansKeyUsed
  <2>1. CASE answer'[u] = answer[u]  BY <2>1 DEF OneWriter, OneWriterKeepsThem, KeyReusedMeansKeyUsed
  <2>2. CASE answer'[u] # answer[u]
    <3>1. PICK code, row : /\ answer' = [answer EXCEPT ![t] = [code |-> code, row |-> row]]
                           /\ code = "key reused" => ByKey(req[t]) # {}
      BY <2>2
    <3>2. u = t /\ answer'[u].code = code  BY <2>2, <3>1 DEF TypeOK, TxnsOK
    <3> QED BY <3>1, <3>2 DEF ByKey
  <2> QED BY <2>1, <2>2
<1> QED BY <1>1, <1>2, SoloWriter DEF OneWriterKeepsThem

\* A request that has ended reads no more.
LEMMA EndedReads ==
    ASSUME TypeOK, NEW t \in Txns, NEW where \in {"done", "referlost"}, Released(t, where)
    PROVE  Apart(t) /\ ReadsHold(t)'
<1>1. where \in Places \ {"flush", "walk"}  BY DEF Places
<1>2. Apart(t)  BY <1>1, StoppedProvides
<1>3. pc'[t] = where /\ pend'[t] = {}  BY DEF Released, Goto, TypeOK, TxnsOK
<1> QED BY <1>2, <1>3 DEF ReadsHold

LEMMA RefuseWriter ==
    ASSUME TypeOK, ChecksHoldToTheEnd, OneWriter, NEW t \in Txns, Solo(t), NEW code, NEW row, Refuse(t, code, row),
           code = "key reused" => ByKey(req[t]) # {}
    PROVE  OneWriter'
<1>1. /\ Released(t, "done") /\ UNCHANGED <<reservations, slots, feed, req>>
      /\ answer' = [answer EXCEPT ![t] = [code |-> code, row |-> row]]
  BY DEF Refuse, Finish, Released, tables
<1>2. Apart(t) /\ ReadsHold(t)'  BY <1>1, EndedReads
<1> QED BY <1>1, <1>2, QuietWriter

\* A request that ends with what it wrote.
LEMMA FinishWriter ==
    ASSUME TypeOK, ChecksHoldToTheEnd, OneWriter, NEW t \in Txns, Solo(t), NEW code, NEW row, Finish(t, code, row),
           code # "key reused", HoldsMeetNoClass', CancelledOnce',
           \A b \in reservations : \E d \in reservations' : d.by = b.by /\ d.key = b.key
    PROVE  OneWriter'
<1>1. Released(t, "done") /\ answer' = [answer EXCEPT ![t] = [code |-> code, row |-> row]] /\ req' = req
  BY DEF Finish, Released
<1>2. Apart(t) /\ ReadsHold(t)'  BY <1>1, EndedReads
<1>3. KeyReusedMeansKeyUsed'
  <2> SUFFICES ASSUME NEW u \in Txns, answer'[u].code = "key reused"
               PROVE  \E b \in reservations' : b.by = req[u].by /\ b.key = <<req[u].key, 0>>
    BY <1>1 DEF KeyReusedMeansKeyUsed
  <2>1. u # t  BY <1>1 DEF TypeOK, TxnsOK
  <2>2. answer'[u] = answer[u]  BY <1>1, <2>1 DEF TypeOK, TxnsOK
  <2>3. PICK b \in reservations : b.by = req[u].by /\ b.key = <<req[u].key, 0>>
    BY <2>2 DEF OneWriter, OneWriterKeepsThem, KeyReusedMeansKeyUsed
  <2> QED BY <2>3
<1> QED BY <1>2, <1>3, SoloWriter DEF OneWriterKeepsThem

\* What a resource that is not shared and not blocked is free of.
LEMMA UnblockedMeetsNoClass ==
    ASSUME TypeOK, NEW rid \in Resources, NEW win, NEW qty, NEW rows, ~Blocked(rid, win, qty, rows),
           res[rid].mode # "SHARED"
    PROVE  ~OnTimetable(rid, win)
<1>1. res[rid].mode \in {"EXCLUSIVE", "POOLED"}  BY DEF TypeOK, TablesOK, Resource, Modes
<1> QED BY <1>1 DEF Blocked

LEMMA BookAdmittedWriter ==
    ASSUME TypeOK, ChecksHoldToTheEnd, OneWriter, NEW t \in Txns, Solo(t), BookAdmitted(t)
    PROVE  OneWriter'
<1> DEFINE r == req[t]
<1>1. /\ pc'[t] = "flush" /\ Verdict(r) = "go"
      /\ UNCHANGED <<res, reservations, slots, feed, req, pend, answer>>
  BY DEF BookAdmitted, Goto, TypeOK, TxnsOK, tables
<1>2. r.rid \in Resources /\ pc[t] = "asked"
  <2>1. Starts(t, "book")  BY DEF BookAdmitted
  <2> QED BY <2>1, StartsType DEF Starts, BookRequest
<1>3. pend[t] = {}  BY <1>2 DEF ChecksHoldToTheEnd, Guarding
<1>4. /\ ByKey(r) = {} /\ (r.ref = NoRef \/ ByRef(r.by, r.ref) = {})
      /\ ~Blocked(r.rid, r.win, r.qty, reservations)
  BY <1>1 DEF Verdict
<1>5. \A b \in reservations : ~SameUnique(ParentRow(t), b)
  <2>1. ParentRow(t).by = r.by /\ ParentRow(t).key = <<r.key, 0>> /\ ParentRow(t).ref = r.ref
    BY DEF ParentRow
  <2> QED BY <1>4, <2>1 DEF SameUnique, ByKey, ByRef
<1>6. res[r.rid].mode # "SHARED" => ~OnTimetable(r.rid, r.win)  BY <1>2, <1>4, UnblockedMeetsNoClass
<1>7. ParentRow(t)' = ParentRow(t)  BY <1>1 DEF ParentRow, Fingerprint
<1>8. ReadsHold(t)'
  <2>1. \A b \in reservations : ~SameUnique(ParentRow(t)', b)  BY <1>5, <1>7
  <2>2. res'[r.rid].mode # "SHARED" => ~OnTimetable(r.rid, r.win)'  BY <1>1, <1>6 DEF OnTimetable
  <2> QED BY <1>1, <1>3, <2>1, <2>2 DEF ReadsHold
<1>9. Apart(t)  BY BookAdmittedProvides
<1> QED BY <1>1, <1>8, <1>9, QuietWriter

LEMMA FlushTakenWriter ==
    ASSUME TypeOK, ChecksHoldToTheEnd, OneWriter, NEW t \in Txns, Solo(t), Provides(t), FlushTaken(t)
    PROVE  OneWriter'
<1> DEFINE c == ParentRow(t)
<1>1. /\ pc[t] = "flush" /\ pc'[t] = "walk" /\ pend'[t] = {c}
      /\ UNCHANGED <<res, reservations, slots, feed, req, answer>>
  BY DEF FlushTaken, Goto, TypeOK, TxnsOK, tables
<1>2. c.rid = req[t].rid /\ c.win = req[t].win /\ c.mode = res[req[t].rid].mode  BY DEF ParentRow
<1>3. res[req[t].rid].mode # "SHARED" => ~OnTimetable(req[t].rid, req[t].win)
  BY <1>1 DEF OneWriter, ReadsHold
<1> HIDE DEF c
<1>4. c.mode # "SHARED" => ~OnTimetable(c.rid, c.win)  BY <1>2, <1>3
<1>5. c.mode # "SHARED" => ~\E s \in slots : s.rid = c.rid /\ Overlaps(s.win, c.win)
  BY <1>4 DEF OnTimetable
<1>6. ReadsHold(t)'  BY <1>1, <1>5 DEF ReadsHold, OnTimetable
<1>7. Apart(t)  BY FlushTakenProvides
<1> QED BY <1>1, <1>6, <1>7, QuietWriter

LEMMA TrimmedWriter ==
    ASSUME TypeOK, ChecksHoldToTheEnd, OneWriter, NEW t \in Txns, Solo(t), Trimmed(t)
    PROVE  OneWriter'
<1>1. /\ pc[t] = "walk" /\ UNCHANGED <<res, reservations, slots, feed, pc, req, pend, answer>> /\ Apart(t)
  BY DEF Trimmed, tables, Apart
<1>2. \A b \in pend[t] : b.mode # "SHARED" => ~OnTimetable(b.rid, b.win)  BY DEF OneWriter, ReadsHold
<1>3. ReadsHold(t)'  BY <1>1, <1>2 DEF ReadsHold, OnTimetable
<1> QED BY <1>1, <1>3, QuietWriter

LEMMA GrownWriter ==
    ASSUME TypeOK, ChecksHoldToTheEnd, OneWriter, NEW t \in Txns, Solo(t), Grown(t)
    PROVE  OneWriter'
<1>1. PICK rid \in Resources, win \in Spans, qty \in Nat \ {0}, depth \in Nat, left \in Assigns, after \in Seq(Item) :
        Grows(t, rid, win, qty, depth, left, after)
  BY DEF Grown
<1>2. pc[t] = "walk" /\ Hold(t, rid, win, qty, depth, left, after) /\ ~Problem(rid, win, qty, Seen(t))
  BY <1>1 DEF Grows
<1> DEFINE c == ChildRow(t, rid, win, qty)
<1>3. /\ pend'[t] = pend[t] \cup {c} /\ UNCHANGED <<res, reservations, slots, feed, pc, req, answer>> /\ Apart(t)
  BY <1>2 DEF Hold, TypeOK, TxnsOK, tables, Apart
<1>4. c.rid = rid /\ c.win = win /\ c.mode = res[rid].mode  BY DEF ChildRow
<1> HIDE DEF c
<1>5. c.mode # "SHARED" => ~OnTimetable(c.rid, c.win)
  BY <1>2, <1>4, UnblockedMeetsNoClass DEF Problem
<1>6. \A b \in pend[t] : b.mode # "SHARED" => ~OnTimetable(b.rid, b.win)  BY DEF OneWriter, ReadsHold
<1>7. \A b \in pend'[t] : b.mode # "SHARED" => ~OnTimetable(b.rid, b.win)  BY <1>3, <1>5, <1>6
<1>8. ReadsHold(t)'  BY <1>2, <1>3, <1>7 DEF ReadsHold, OnTimetable
<1> QED BY <1>3, <1>8, QuietWriter

LEMMA CommitWriter ==
    ASSUME TypeOK, ChecksHoldToTheEnd, OneWriter, NEW t \in Txns, Solo(t), Commit(t)
    PROVE  OneWriter'
<1>1. /\ reservations' = reservations \cup pend[t] /\ slots' = slots
      /\ feed' = feed \cup {Mark(t, b.id, "CREATED") : b \in pend[t]}
      /\ Finish(t, "created", <<t, req[t].rid>>)
  BY DEF Commit
<1>2. HoldsMeetNoClass'
  <2>1. \A b \in pend[t] : b.mode # "SHARED" => ~OnTimetable(b.rid, b.win)  BY DEF OneWriter, ReadsHold
  <2>2. \A b \in reservations : b.status = "HELD" /\ b.mode # "SHARED" => ~OnTimetable(b.rid, b.win)
    BY DEF OneWriter, OneWriterKeepsThem, HoldsMeetNoClass
  <2> QED BY <1>1, <2>1, <2>2 DEF HoldsMeetNoClass, OnTimetable
<1>3. CancelledOnce'
  <2>1. ASSUME NEW m \in feed', m.what = "CANCELLED" PROVE m \in feed
    <3> SUFFICES ASSUME m \notin feed PROVE FALSE  OBVIOUS
    <3>1. PICK b \in pend[t] : m = Mark(t, b.id, "CREATED")  BY <1>1
    <3> QED BY <2>1, <3>1 DEF Mark
  <2> QED BY <2>1 DEF OneWriter, OneWriterKeepsThem, CancelledOnce
<1> QED BY <1>1, <1>2, <1>3, FinishWriter

LEMMA BookWriter ==
    ASSUME Serial, TypeOK, ChecksHoldToTheEnd, OneWriter, NEW t \in Txns, Provides(t), Book(t)
    PROVE  OneWriter'
<1>1. CASE BookRefused(t)
  <2>1. Starts(t, "book") /\ Refuse(t, Verdict(req[t]), Named(req[t], Verdict(req[t])))
    BY <1>1 DEF BookRefused
  <2>2. Verdict(req[t]) = "key reused" => ByKey(req[t]) # {}  BY DEF Verdict
  <2> QED BY <2>1, <2>2, OnlyOne, RefuseWriter
<1>2. CASE BookAdmitted(t)
  <2>1. Starts(t, "book")  BY <1>2 DEF BookAdmitted
  <2> QED BY <1>2, <2>1, OnlyOne, BookAdmittedWriter
<1>3. CASE FlushTaken(t)
  <2>1. Running(t)  BY <1>3 DEF FlushTaken, Running
  <2> QED BY <1>3, <2>1, OnlyOne, FlushTakenWriter
<1>4. CASE FlushLost(t)  BY <1>4 DEF FlushLost, OneWriter, ReadsHold
<1>5. CASE Lost(t)  BY <1>5 DEF Lost, OneWriter, ReadsHold
<1>6. CASE WalkStep(t)
  <2>1. pc[t] = "walk" /\ (Declined(t) \/ Trimmed(t) \/ Grown(t))  BY <1>6, WalkDoes
  <2>2. Solo(t)  BY <2>1, OnlyOne DEF Running
  <2>3. CASE Declined(t)  BY <2>2, <2>3, RefuseWriter DEF Declined
  <2> QED BY <2>1, <2>2, <2>3, TrimmedWriter, GrownWriter
<1>7. CASE Commit(t)
  <2>1. Running(t)  BY <1>7 DEF Commit, Running
  <2> QED BY <1>7, <2>1, OnlyOne, CommitWriter
<1>8. CASE LeftOver(t)
  <2>1. Running(t)  BY <1>8 DEF LeftOver, Running
  <2> QED BY <1>8, <2>1, OnlyOne, RefuseWriter DEF LeftOver
<1>9. CASE DeadlockVictim(t)
  <2>1. Running(t)  BY <1>9 DEF DeadlockVictim, Running
  <2> QED BY <1>9, <2>1, OnlyOne, RefuseWriter DEF DeadlockVictim
<1> QED BY <1>1, <1>2, <1>3, <1>4, <1>5, <1>6, <1>7, <1>8, <1>9 DEF Book, WalkStep

\* A cancellation: the row was held when it was read, and nobody has come since.
LEMMA CancelReadWriter ==
    ASSUME TypeOK, ChecksHoldToTheEnd, Records, OneWriter, NEW t \in Txns, Solo(t), CancelRead(t)
    PROVE  OneWriter'
<1>1. /\ pc'[t] = "cancel" /\ UNCHANGED <<res, reservations, slots, feed, req, pend, run, answer>>
      /\ pc[t] = "asked" /\ \A u \in Txns \ {t} : pc'[u] = pc[u]
  BY DEF CancelRead, Starts, Goto, TypeOK, TxnsOK, tables
<1>2. PICK c \in reservations : c.id = req[t].row /\ c.status = "HELD"
  BY DEF CancelRead, Mine, Asked
<1>3. \A b \in reservations : b.id = req[t].row => b.status = "HELD"
  BY <1>2 DEF Records, RowsAreUnique, AllRows
<1>4. pend[t] = {}  BY <1>1 DEF ChecksHoldToTheEnd, Guarding
<1>5. ReadsHold(t)'  BY <1>1, <1>3, <1>4 DEF ReadsHold
<1>6. Apart(t)  BY <1>1 DEF Apart
<1> QED BY <1>1, <1>5, <1>6, QuietWriter

\* A resource has one child of a booking.
LEMMA OneChildPerResource ==
    ASSUME Records, NEW b \in reservations, NEW c \in reservations, b.parent = c.parent, b.parent # NoRow, b.rid = c.rid
    PROVE  b = c
<1>1. PICK u \in Txns : Makes(u, b)  BY DEF Records, Written
<1>2. PICK v \in Txns : Makes(v, c)  BY DEF Records, Written
<1>3. u = v  BY <1>1, <1>2 DEF Makes
<1>4. b.id = c.id  BY <1>1, <1>2, <1>3 DEF Makes
<1> QED BY <1>4 DEF Records, RowsAreUnique, AllRows

LEMMA CancelChildrenWriter ==
    ASSUME TypeOK, ChecksHoldToTheEnd, Records, OneWriter, NEW t \in Txns, Solo(t), CancelChildren(t)
    PROVE  OneWriter'
<1> DEFINE read == {b.rid : b \in {c \in reservations : c.parent = req[t].row /\ c.status = "HELD"}}
<1>1. /\ pc[t] = "cancel" /\ pc'[t] = "letgo" /\ UNCHANGED <<res, reservations, slots, feed, req, pend, answer>>
      /\ run'[t].used = read /\ \A u \in Txns \ {t} : pc'[u] = pc[u] /\ run'[u] = run[u]
  BY DEF CancelChildren, Goto, TypeOK, TxnsOK, tables
<1>2. \A b \in reservations : b.id = req[t].row => b.status = "HELD"  BY <1>1 DEF OneWriter, ReadsHold
<1>3. ASSUME NEW b \in reservations, b.parent = req[t].row, b.rid \in read PROVE b.status = "HELD"
  <2>1. PICK c \in reservations : c.parent = req[t].row /\ c.status = "HELD" /\ c.rid = b.rid  BY <1>3
  <2>2. req[t] \in CancelRequest  BY <1>1 DEF TypeOK, TxnsOK, Placed
  <2>3. req[t].row # NoRow  BY <2>2 DEF CancelRequest, Ids, NoRow
  <2>4. b = c  BY <1>3, <2>1, <2>3, OneChildPerResource
  <2> QED BY <2>1, <2>4
<1> HIDE DEF read
<1>4. \A b \in LetGo(t)' : b.status = "HELD"  BY <1>1, <1>2, <1>3 DEF LetGo
<1>5. pend[t] = {}  BY <1>1 DEF ChecksHoldToTheEnd, Guarding
<1>6. ReadsHold(t)'  BY <1>1, <1>4, <1>5 DEF ReadsHold
<1>7. Apart(t)  BY <1>1 DEF Apart
<1> QED BY <1>1, <1>6, <1>7, QuietWriter

LEMMA CancelWriteWriter ==
    ASSUME TypeOK, ChecksHoldToTheEnd, Records, OneWriter, NEW t \in Txns, Solo(t), CancelWrite(t)
    PROVE  OneWriter'
<1> DEFINE f == [b \in reservations |-> IF b \in LetGo(t)
                                        THEN [b EXCEPT !.status = "CANCELLED", !.at = t] ELSE b]
<1>1. /\ pc[t] = "letgo" /\ Finish(t, "cancelled", req[t].row) /\ slots' = slots
      /\ reservations' = {f[b] : b \in reservations}
      /\ feed' = feed \cup {Mark(t, b.id, "CANCELLED") : b \in LetGo(t)}
  BY DEF CancelWrite
<1>2. reservations \subseteq Row /\ LetGo(t) \subseteq reservations  BY DEF TypeOK, TablesOK, LetGo
<1>3. \A b \in reservations :
        /\ f[b].rid = b.rid /\ f[b].win = b.win /\ f[b].mode = b.mode /\ f[b].by = b.by /\ f[b].key = b.key
        /\ f[b].status = "HELD" => b.status = "HELD"
  BY <1>2 DEF Row
<1> HIDE DEF f
<1>4. HoldsMeetNoClass'
  <2> SUFFICES ASSUME NEW b \in reservations, f[b].status = "HELD", f[b].mode # "SHARED"
               PROVE  ~\E s \in slots : s.rid = f[b].rid /\ Overlaps(s.win, f[b].win)
    BY <1>1 DEF HoldsMeetNoClass, OnTimetable
  <2>1. ~OnTimetable(b.rid, b.win)  BY <1>3 DEF OneWriter, OneWriterKeepsThem, HoldsMeetNoClass
  <2> QED BY <1>3, <2>1 DEF OnTimetable
<1>5. CancelledOnce'
  <2>1. \A b \in LetGo(t) : b.status = "HELD"  BY <1>1 DEF OneWriter, ReadsHold
  <2>2. ASSUME NEW m \in feed' \ feed PROVE \E b \in LetGo(t) : m = Mark(t, b.id, "CANCELLED") /\ m.row = b.id
    <3>1. PICK b \in LetGo(t) : m = Mark(t, b.id, "CANCELLED")  BY <1>1
    <3> QED BY <3>1 DEF Mark
  <2>3. ASSUME NEW m \in feed, NEW n \in feed' \ feed, m.what = "CANCELLED", m.row = n.row PROVE FALSE
    <3>1. PICK b \in LetGo(t) : n.row = b.id  BY <2>2
    <3>2. b.status = "CANCELLED"  BY <1>2, <2>3, <3>1 DEF Records, EveryChangeIsMarked
    <3> QED BY <2>1, <3>2
  <2>4. ASSUME NEW m \in feed' \ feed, NEW n \in feed' \ feed, m.row = n.row PROVE m = n
    <3>1. PICK b \in LetGo(t) : m = Mark(t, b.id, "CANCELLED") /\ m.row = b.id  BY <2>2
    <3>2. PICK c \in LetGo(t) : n = Mark(t, c.id, "CANCELLED") /\ n.row = c.id  BY <2>2
    <3>3. b.id = c.id  BY <2>4, <3>1, <3>2
    <3> QED BY <3>1, <3>2, <3>3
  <2>5. ASSUME NEW m \in feed, NEW n \in feed, m.what = "CANCELLED", n.what = "CANCELLED", m.row = n.row PROVE m = n
    BY <2>5 DEF OneWriter, OneWriterKeepsThem, CancelledOnce
  <2>6. ASSUME NEW m \in feed', NEW n \in feed', m.what = "CANCELLED", n.what = "CANCELLED", m.row = n.row PROVE m = n
    <3>1. CASE m \in feed /\ n \in feed  BY <2>5, <2>6, <3>1
    <3>2. CASE m \in feed /\ n \notin feed  BY <2>3, <2>6, <3>2
    <3>3. CASE m \notin feed /\ n \in feed  BY <2>3, <2>6, <3>3
    <3>4. CASE m \notin feed /\ n \notin feed  BY <2>4, <2>6, <3>4
    <3> QED BY <3>1, <3>2, <3>3, <3>4
  <2> QED BY <2>6 DEF CancelledOnce
<1>6. \A b \in reservations : \E d \in reservations' : d.by = b.by /\ d.key = b.key  BY <1>1, <1>3
<1> QED BY <1>1, <1>4, <1>5, <1>6, FinishWriter

\* Rows rewritten where they stand, under a mode that meets no class.
LEMMA RewrittenWriter ==
    ASSUME TypeOK, ChecksHoldToTheEnd, OneWriter, NEW t \in Txns, Solo(t), NEW code, NEW row, Finish(t, code, row),
           code # "key reused", slots' = slots, NEW f, reservations' = {f[b] : b \in reservations},
           \A b \in reservations :
             /\ f[b].rid = b.rid /\ f[b].win = b.win /\ f[b].status = b.status
             /\ f[b].by = b.by /\ f[b].key = b.key
             /\ f[b].mode = b.mode \/ f[b].mode = "SHARED" \/ ~OnTimetable(b.rid, b.win),
           NEW mark, mark.what # "CANCELLED", feed' = feed \cup {mark}
    PROVE  OneWriter'
<1>1. HoldsMeetNoClass'
  <2>1. ASSUME NEW b \in reservations, f[b].status = "HELD", f[b].mode # "SHARED"
        PROVE  ~\E s \in slots : s.rid = f[b].rid /\ Overlaps(s.win, f[b].win)
    <3>1. ~OnTimetable(b.rid, b.win)  BY <2>1 DEF OneWriter, OneWriterKeepsThem, HoldsMeetNoClass
    <3> QED BY <3>1 DEF OnTimetable
  <2>2. ASSUME NEW c \in reservations', c.status = "HELD", c.mode # "SHARED"
        PROVE  ~\E s \in slots' : s.rid = c.rid /\ Overlaps(s.win, c.win)
    <3>1. PICK b \in reservations : c = f[b]  OBVIOUS
    <3> QED BY <2>1, <2>2, <3>1
  <2> QED BY ONLY <2>2 DEF HoldsMeetNoClass, OnTimetable
<1>2. CancelledOnce'  BY DEF OneWriter, OneWriterKeepsThem, CancelledOnce
<1>3. \A b \in reservations : \E d \in reservations' : d.by = b.by /\ d.key = b.key  OBVIOUS
<1> QED BY <1>1, <1>2, <1>3, FinishWriter

LEMMA ReferWriteWriter ==
    ASSUME TypeOK, ChecksHoldToTheEnd, OneWriter, NEW t \in Txns, Solo(t), ReferWrite(t)
    PROVE  OneWriter'
<1>1. CASE Rollback(t, "referlost")
  <2>1. Released(t, "referlost") /\ UNCHANGED <<reservations, slots, feed, req, answer>>
    BY <1>1 DEF Rollback, Released, tables
  <2>2. Apart(t) /\ ReadsHold(t)'  BY <2>1, EndedReads
  <2> QED BY <2>1, <2>2, QuietWriter
<1>2. CASE ~Rollback(t, "referlost")
  <2> DEFINE f == [b \in reservations |-> IF b.id = req[t].row THEN [b EXCEPT !.ref = req[t].ref] ELSE b]
             mark == Mark(t, req[t].row, "UPDATED")
  <2>1. /\ Finish(t, "updated", req[t].row) /\ slots' = slots
        /\ reservations' = {f[b] : b \in reservations} /\ feed' = feed \cup {mark}
    BY <1>2 DEF ReferWrite
  <2>2. reservations \subseteq Row  BY DEF TypeOK, TablesOK
  <2>3. \A b \in reservations :
          /\ f[b].rid = b.rid /\ f[b].win = b.win /\ f[b].status = b.status
          /\ f[b].by = b.by /\ f[b].key = b.key /\ f[b].mode = b.mode
    BY <2>2 DEF Row
  <2>4. mark.what # "CANCELLED"  BY DEF Mark
  <2> HIDE DEF f, mark
  <2> QED BY <2>1, <2>3, <2>4, RewrittenWriter
<1> QED BY <1>1, <1>2

\* A mode change tightens only where no class is in the way.
LEMMA ChangeWriter ==
    ASSUME TypeOK, ChecksHoldToTheEnd, OneWriter, NEW t \in Txns, Solo(t), Change(t)
    PROVE  OneWriter'
<1> DEFINE r == req[t]
           f == [b \in reservations |-> IF r.mode # res[r.rid].mode /\ b \in Held(reservations, r.rid)
                                        THEN [b EXCEPT !.mode = r.mode] ELSE b]
           mark == Mark(t, NoRow, "RESOURCE")
<1>1. /\ Finish(t, "changed", NoRow) /\ slots' = slots
      /\ reservations' = {f[b] : b \in reservations} /\ feed' = feed \cup {mark}
      /\ Tightens(r) => Misfits(r.rid, r.mode, r.cap) = {}
  BY DEF Change
<1>2. reservations \subseteq Row  BY DEF TypeOK, TablesOK
<1>3. \A b \in reservations :
        /\ f[b].rid = b.rid /\ f[b].win = b.win /\ f[b].status = b.status
        /\ f[b].by = b.by /\ f[b].key = b.key
        /\ f[b].mode = b.mode \/ (r.mode # res[r.rid].mode /\ b \in Held(reservations, r.rid) /\ f[b].mode = r.mode)
  BY <1>2 DEF Row
<1>4. mark.what # "CANCELLED"  BY DEF Mark
<1> HIDE DEF f, mark
<1>5. ASSUME NEW b \in reservations, f[b].mode # b.mode, f[b].mode # "SHARED" PROVE ~OnTimetable(b.rid, b.win)
  <2>1. r.mode # res[r.rid].mode /\ b \in Held(reservations, r.rid) /\ r.mode # "SHARED"  BY <1>3, <1>5
  <2>2. Misfits(r.rid, r.mode, r.cap) = {}  BY <1>1, <2>1 DEF Tightens
  <2>3. ~OnTimetable(r.rid, b.win)  BY <2>1, <2>2 DEF Misfits
  <2> QED BY <2>1, <2>3 DEF Held
<1> QED BY <1>1, <1>3, <1>4, <1>5, RewrittenWriter

\* A class meets no hold: nobody has booked since the check.
LEMMA SlotWriteWriter ==
    ASSUME TypeOK, ChecksHoldToTheEnd, OneWriter, NEW t \in Txns, Solo(t), SlotWrite(t)
    PROVE  OneWriter'
<1> DEFINE r == req[t]
           s == [id |-> t, rid |-> r.rid, win |-> r.win]
<1>1. /\ pc[t] = "slot" /\ slots' = slots \cup {s} /\ Finish(t, "created", NoRow)
      /\ UNCHANGED <<res, reservations, feed>>
  BY DEF SlotWrite
<1>2. ~ClassBlocked(r)  BY <1>1 DEF OneWriter, ReadsHold
<1>3. s.rid = r.rid /\ s.win = r.win  OBVIOUS
<1> HIDE DEF s
<1>4. HoldsMeetNoClass'
  <2> SUFFICES ASSUME NEW b \in reservations, b.status = "HELD", b.mode # "SHARED"
               PROVE  ~\E x \in slots \cup {s} : x.rid = b.rid /\ Overlaps(x.win, b.win)
    BY <1>1 DEF HoldsMeetNoClass, OnTimetable
  <2>1. ~\E x \in slots : x.rid = b.rid /\ Overlaps(x.win, b.win)
    BY DEF OneWriter, OneWriterKeepsThem, HoldsMeetNoClass, OnTimetable
  <2>2. b.rid = r.rid => ~Overlaps(b.win, r.win)  BY <1>2 DEF ClassBlocked, Meeting, Held
  <2> QED BY <1>3, <2>1, <2>2, OverlapsSymmetric
<1>5. CancelledOnce'  BY <1>1 DEF OneWriter, OneWriterKeepsThem, CancelledOnce
<1> QED BY <1>1, <1>4, <1>5, FinishWriter

LEMMA AmendWriter ==
    ASSUME Serial, TypeOK, ChecksHoldToTheEnd, Records, OneWriter, NEW t \in Txns, Amend(t)
    PROVE  OneWriter'
<1>1. CASE NotChangeable(t)
  <2>1. PICK code \in {"not found", "forbidden"} : Refuse(t, code, NoRow)  BY <1>1 DEF NotChangeable
  <2> QED BY <1>1, <2>1, OnlyOne, RefuseWriter DEF NotChangeable
<1>2. CASE CancelTwice(t)  BY <1>2, OnlyOne, RefuseWriter DEF CancelTwice
<1>3. CASE CancelRead(t)
  <2>1. Starts(t, "cancel")  BY <1>3 DEF CancelRead
  <2> QED BY <1>3, <2>1, OnlyOne, CancelReadWriter
<1>4. CASE CancelChildren(t)
  <2>1. Running(t)  BY <1>4 DEF CancelChildren, Running
  <2> QED BY <1>4, <2>1, OnlyOne, CancelChildrenWriter
<1>5. CASE CancelWrite(t)
  <2>1. Running(t)  BY <1>5 DEF CancelWrite, Running
  <2> QED BY <1>5, <2>1, OnlyOne, CancelWriteWriter
<1>6. CASE ReferSame(t)  BY <1>6, OnlyOne, RefuseWriter DEF ReferSame
<1>7. CASE ReferRefused(t)  BY <1>7, OnlyOne, RefuseWriter DEF ReferRefused
<1>8. CASE ReferRead(t)
  <2>1. Starts(t, "refer")  BY <1>8 DEF ReferRead
  <2>2. /\ pc'[t] = "refer" /\ UNCHANGED <<reservations, slots, feed, req, pend, run, answer>>
        /\ pc[t] = "asked" /\ \A u \in Txns \ {t} : pc'[u] = pc[u]
    BY <1>8 DEF ReferRead, Starts, Goto, TypeOK, TxnsOK, tables
  <2>3. pend[t] = {}  BY <2>2 DEF ChecksHoldToTheEnd, Guarding
  <2>4. ReadsHold(t)' /\ Apart(t)  BY <2>2, <2>3 DEF ReadsHold, Apart
  <2> QED BY <2>1, <2>2, <2>4, OnlyOne, QuietWriter
<1>9. CASE ReferWrite(t)
  <2>1. Running(t)  BY <1>9 DEF ReferWrite, Running
  <2> QED BY <1>9, <2>1, OnlyOne, ReferWriteWriter
<1>10. CASE ReferLost(t)
  <2>1. Running(t)  BY <1>10 DEF ReferLost, Running
  <2>2. CASE Rivals(t, reservations) = {}
    <3>1. Refuse(t, "error", NoRow)  BY <1>10, <2>2 DEF ReferLost
    <3> QED BY <2>1, <3>1, OnlyOne, RefuseWriter
  <2>3. CASE Rivals(t, reservations) # {}
    <3>1. Refuse(t, "reference taken", (CHOOSE c \in Rivals(t, reservations) : TRUE).id)
      BY <1>10, <2>3 DEF ReferLost
    <3> QED BY <2>1, <3>1, OnlyOne, RefuseWriter
  <2> QED BY <2>2, <2>3
<1> QED BY <1>1, <1>2, <1>3, <1>4, <1>5, <1>6, <1>7, <1>8, <1>9, <1>10 DEF Amend

LEMMA PlanWriter ==
    ASSUME Serial, TypeOK, ChecksHoldToTheEnd, OneWriter, NEW t \in Txns, Plan(t)
    PROVE  OneWriter'
<1>1. CASE ChangeRefused(t)
  <2>1. PICK code \in {"invalid", "would not fit"} : Refuse(t, code, NoRow)  BY <1>1 DEF ChangeRefused
  <2> QED BY <1>1, <2>1, OnlyOne, RefuseWriter DEF ChangeRefused
<1>2. CASE Change(t)
  <2>1. Starts(t, "change")  BY <1>2 DEF Change
  <2> QED BY <1>2, <2>1, OnlyOne, ChangeWriter
<1>3. CASE SlotRefused(t)  BY <1>3, OnlyOne, RefuseWriter DEF SlotRefused
<1>4. CASE SlotRead(t)
  <2>1. Starts(t, "slot") /\ ~ClassBlocked(req[t])  BY <1>4 DEF SlotRead
  <2>2. /\ pc'[t] = "slot" /\ UNCHANGED <<res, reservations, slots, feed, req, pend, run, answer>>
        /\ pc[t] = "asked" /\ \A u \in Txns \ {t} : pc'[u] = pc[u]
    BY <1>4 DEF SlotRead, Starts, Goto, TypeOK, TxnsOK, tables
  <2>3. pend[t] = {}  BY <2>2 DEF ChecksHoldToTheEnd, Guarding
  <2>4. ~ClassBlocked(req[t])'  BY <2>1, <2>2 DEF ClassBlocked, Meeting, Held, OnTimetable
  <2>5. ReadsHold(t)' /\ Apart(t)  BY <2>2, <2>3, <2>4 DEF ReadsHold, Apart
  <2> QED BY <2>1, <2>2, <2>5, OnlyOne, QuietWriter
<1>5. CASE SlotWrite(t)
  <2>1. Running(t)  BY <1>5 DEF SlotWrite, Running
  <2> QED BY <1>5, <2>1, OnlyOne, SlotWriteWriter
<1>6. CASE SlotDelete(t)
  <2>1. PICK code \in {"not found", "deleted"} : Finish(t, code, NoRow)  BY <1>6 DEF SlotDelete
  <2>2. slots' \subseteq slots /\ UNCHANGED <<reservations, feed>> /\ Starts(t, "unslot")  BY <1>6 DEF SlotDelete
  <2>3. HoldsMeetNoClass' /\ CancelledOnce'
    BY <2>2 DEF OneWriter, OneWriterKeepsThem, HoldsMeetNoClass, CancelledOnce, OnTimetable
  <2> QED BY <2>1, <2>2, <2>3, OnlyOne, FinishWriter
<1> QED BY <1>1, <1>2, <1>3, <1>4, <1>5, <1>6 DEF Plan

LEMMA WriterNext ==
    ASSUME Serial, TypeOK, ChecksHoldToTheEnd, Records, Complete, OneWriter, [Next]_vars
    PROVE  OneWriter'
<1>0. \A t \in Txns : Provides(t)  BY DEF Complete
<1>1. ASSUME NEW t \in Txns, Crash(t) PROVE OneWriter'
  BY <1>1, OnlyOne, RefuseWriter DEF Crash
<1>2. ASSUME UNCHANGED vars PROVE OneWriter'
  <2>1. UNCHANGED <<res, reservations, slots, feed, pc, req, pend, run, answer>>  BY <1>2 DEF vars
  <2>2. \A t \in Txns : ReadsHold(t)'
    BY <2>1 DEF OneWriter, ReadsHold, ParentRow, Fingerprint, OnTimetable, LetGo, ClassBlocked, Meeting, Held
  <2>3. Alone'  BY <2>1 DEF OneWriter, Alone, Running
  <2>4. OneWriterKeepsThem'
    BY <2>1 DEF OneWriter, OneWriterKeepsThem, HoldsMeetNoClass, CancelledOnce, KeyReusedMeansKeyUsed, OnTimetable
  <2> QED BY <2>2, <2>3, <2>4 DEF OneWriter
<1> QED BY <1>0, <1>1, <1>2, BookWriter, AmendWriter, PlanWriter DEF Next, Step, Quiet

LEMMA WriterInit == Init => OneWriter
<1> SUFFICES ASSUME Init PROVE OneWriter  OBVIOUS
<1>1. /\ reservations = {} /\ feed = {}
      /\ \A t \in Txns : pc[t] = "asked" /\ pend[t] = {} /\ answer[t].code = "none"
  BY DEF Init
<1>2. Alone /\ \A t \in Txns : ReadsHold(t)  BY <1>1 DEF Alone, Running, ReadsHold
<1>3. OneWriterKeepsThem
  BY <1>1 DEF OneWriterKeepsThem, HoldsMeetNoClass, CancelledOnce, KeyReusedMeansKeyUsed
<1> QED BY <1>2, <1>3 DEF OneWriter

\* Where one transaction runs at a time, as on SQLite, what is read before the write is so at the write:
\* no class shares an hour with a hold that is not shared, a reservation is let go once, and no fresh key
\* is called reused.
THEOREM OneWriterIsEnough == ASSUME Serial PROVE Spec => []OneWriterKeepsThem
<1>1. Init => OneWriter  BY WriterInit
<1>2. TypeOK /\ ChecksHoldToTheEnd /\ Records /\ Complete /\ OneWriter /\ [Next]_vars => OneWriter'
  BY WriterNext
<1>3. OneWriter => OneWriterKeepsThem  BY DEF OneWriter
<1> QED BY <1>1, <1>2, <1>3, FamiliesHold, PTL DEF Spec
-----------------------------------------------------------------------------
(* III. What a resource has out, and what there is room for. *)

\* The units of a resource that are out at an instant.
Out(rows, rid, i) == Units(RunAt(Held(rows, rid), i))

\* No pool has more out than it has.
PoolsFit ==
    \A rid \in Resources : res[rid].mode = "POOLED" =>
        \A i \in Int : Out(reservations, rid, i) <= res[rid].cap

\* What a booking found when it looked: units left all through the window, and no class.
RoomFor(rid, win, qty) ==
    /\ res[rid].mode = "POOLED" =>
         \A i \in Int : win[1] <= i /\ i < win[2] => Out(reservations, rid, i) + qty <= res[rid].cap
    /\ res[rid].mode # "SHARED" => ~OnTimetable(rid, win)

\* It is there until the booking ends; and its rows are one and the children of that one.
RoomKept(t) ==
    /\ pc[t] = "flush" => RoomFor(req[t].rid, req[t].win, req[t].qty)
    /\ \A b \in pend[t] : /\ RoomFor(b.rid, b.win, b.qty)
                          /\ b.parent = IF b.rid = req[t].rid THEN NoRow ELSE <<t, req[t].rid>>

\* The row asked about stays, and no child is held for it that was not read.
CancelKnows(t) ==
    /\ pc[t] \in {"cancel", "letgo"} => \E b \in reservations : b.id = req[t].row
    /\ pc[t] = "letgo" => \A b \in reservations :
                            b.parent = req[t].row /\ b.status = "HELD" => b.rid \in run[t].used

\* A request makes one class at most.
OneClassEach == (\A s \in slots : pc[s.id] = "done") /\ \A r, s \in slots : r.id = s.id => r = s

Ready ==
    /\ PoolsFit /\ OneClassEach /\ IsFiniteSet(reservations)
    /\ \A t \in Txns : RoomKept(t) /\ CancelKnows(t)

\* A finite set of rows of different ids.
Rows(H) == H \subseteq Row /\ IsFiniteSet(H) /\ \A a, b \in H : a.id = b.id => a = b

LEMMA RowsTimed == ASSUME NEW H, Rows(H) PROVE Timed(H)
<1>1. \A h \in H : /\ h.qty \in Nat
                   /\ h.win[1] \in Int /\ h.win[2] \in Int /\ h.win[1] < h.win[2]
  BY DEF Rows, Row, Spans
<1> QED BY <1>1 DEF Rows, Timed, Holds

LEMMA PartOfRows == ASSUME NEW H, Rows(H), NEW S, S \subseteq H PROVE Rows(S)
BY FS_Subset DEF Rows

LEMMA HeldRows ==
    ASSUME NEW H, Rows(H), NEW rid
    PROVE  /\ Rows(Held(H, rid)) /\ Timed(Held(H, rid))
           /\ \A i \in Int : Out(H, rid, i) \in Nat
<1>1. Held(H, rid) \subseteq H  BY DEF Held
<1>2. Rows(Held(H, rid)) /\ Timed(Held(H, rid))  BY <1>1, PartOfRows, RowsTimed
<1> QED BY <1>2, LevelIs DEF Out

LEMMA TableRows == ASSUME TypeOK, Records, Ready PROVE Rows(reservations)
<1>1. reservations \subseteq Row /\ IsFiniteSet(reservations)  BY DEF TypeOK, TablesOK, Ready
<1>2. reservations \subseteq AllRows  BY DEF AllRows
<1> QED BY <1>1, <1>2 DEF Rows, Records, RowsAreUnique

LEMMA RowsCut == ASSUME NEW H, Rows(H), NEW w \in Spans PROVE Cuts(H, w)
<1>1. Timed(H) /\ \A h, k \in H : h.id = k.id => h = k  BY RowsTimed DEF Rows
<1>2. w[1] \in Int /\ w[2] \in Int /\ w[1] < w[2]  BY DEF Spans
<1>3. ASSUME NEW h \in H PROVE CutTo([h EXCEPT !.win = Clip(h.win, w)], h, w)
  <2> DEFINE c == Clip(h.win, w)
             k == [h EXCEPT !.win = c]
  <2>1. h \in Row  BY DEF Rows
  <2>2. h.win[1] \in Int /\ h.win[2] \in Int /\ h.qty \in Nat  BY <2>1 DEF Row, Spans
  <2>3. /\ c[1] \in Int /\ c[2] \in Int /\ w[1] <= c[1] /\ c[2] <= w[2]
        /\ \A i \in Int : (w[1] <= i /\ i < w[2]) => ((c[1] <= i /\ i < c[2]) <=> (h.win[1] <= i /\ i < h.win[2]))
    BY <1>2, <2>2, ClipIs
  <2> HIDE DEF c
  <2>4. k.id = h.id /\ k.qty = h.qty /\ k.win = c  BY <2>1 DEF Row
  <2> HIDE DEF k
  <2>5. CutTo(k, h, w)  BY <2>2, <2>3, <2>4 DEF CutTo
  <2> QED BY <2>5 DEF k, c
<1> QED BY <1>1, <1>2, <1>3 DEF Cuts

LEMMA PeakOfRows == ASSUME NEW H, Rows(H), NEW w \in Spans PROVE MostIn(PoolPeak(H, w), H, w)
BY RowsCut, PeakIs
-----------------------------------------------------------------------------
(* The ledger's arithmetic is this module's. *)

LEMMA LedgerPeak == ASSUME NEW H, NEW w PROVE Ledger!PoolPeak(H, w) = PoolPeak(H, w)
<1> DEFINE C == {[h EXCEPT !.win = Clip(h.win, w)] : h \in H}
           D == {[h EXCEPT !.win = Ledger!Clip(h.win, w)] : h \in H}
           spans == {h \in C : h.win[1] < h.win[2]}
<1>1. \A v : Ledger!Clip(v, w) = Clip(v, w)
  BY Zenon DEF Ledger!Clip, Clip, Ledger!Max, Max, Ledger!Min, Min
<1>2. \A S : Ledger!Instants(S) = Instants(S)  BY DEF Ledger!Instants, Instants
<1>3. \A S, i : Ledger!Level(S, i) = Level(S, i)
  BY DEF Ledger!Level, Level, Ledger!Units, Units, Ledger!MapThenSumSet, MapThenSumSet,
         Ledger!MapThenFoldSet, MapThenFoldSet, Ledger!Delta, Delta, Ledger!Instants, Instants
<1>4. \A S : Ledger!Max(S) = Max(S)  BY Zenon DEF Ledger!Max, Max
<1>5. {Ledger!Level(spans, i) : i \in Ledger!Instants(spans)} = {Level(spans, i) : i \in Instants(spans)}
  BY <1>2, <1>3
<1>6. C = D  BY <1>1
<1>7. {h \in D : h.win[1] < h.win[2]} = spans  BY <1>6
<1>8. Ledger!PoolPeak(H, w) =
        IF spans = {} THEN 0 ELSE Ledger!Max({Ledger!Level(spans, i) : i \in Ledger!Instants(spans)})
  <2> HIDE DEF C
  <2> QED BY <1>7 DEF Ledger!PoolPeak
<1>9. PoolPeak(H, w) = IF spans = {} THEN 0 ELSE Max({Level(spans, i) : i \in Instants(spans)})
  BY DEF PoolPeak
<1> QED BY <1>4, <1>5, <1>8, <1>9

\* Rows that respect a mode fit it: disjoint where the resource is exclusive, never more out than there
\* is where it is a pool.
LEMMA FitsIf ==
    ASSUME NEW rid, NEW mode \in Modes, NEW cap \in Nat, NEW H, Rows(H),
           mode = "EXCLUSIVE" => \A a, b \in H : a # b => ~Overlaps(a.win, b.win),
           mode = "POOLED" => \A i \in Int : Units(RunAt(H, i)) <= cap
    PROVE  Ledger!Fits(rid, mode, cap, H)
<1>1. CASE mode = "EXCLUSIVE"  BY <1>1 DEF Ledger!Fits, Ledger!Overlaps, Overlaps
<1>2. CASE mode = "POOLED"
  <2>1. ASSUME NEW b \in H PROVE Ledger!PoolPeak(H, b.win) <= cap
    <3>1. b.win \in Spans  BY DEF Rows, Row
    <3>2. MostIn(PoolPeak(H, b.win), H, b.win)  BY <3>1, PeakOfRows
    <3>3. PoolPeak(H, b.win) <= cap  BY <1>2, <3>2 DEF MostIn
    <3> QED BY <3>3, LedgerPeak
  <2> QED BY <1>2, <2>1 DEF Ledger!Fits
<1>3. CASE mode = "SHARED"  BY <1>3 DEF Ledger!Fits
<1> QED BY <1>1, <1>2, <1>3 DEF Modes

\* What is not blocked is free: the peak a booking reads is the most that is out.
LEMMA UnblockedHasRoom ==
    ASSUME TypeOK, Rows(reservations), NEW rid \in Resources, NEW win \in Spans, NEW qty \in Nat, NEW rows,
           ~Blocked(rid, win, qty, rows), Held(rows, rid) = Held(reservations, rid)
    PROVE  RoomFor(rid, win, qty)
<1> DEFINE H == Held(reservations, rid)
           M == Meeting(rows, rid, win)
<1>1. res[rid].mode # "SHARED" => ~OnTimetable(rid, win)  BY UnblockedMeetsNoClass
<1>2. CASE res[rid].mode = "POOLED"
  <2>1. Rows(M) /\ M \subseteq H /\ \A h \in H : h \in M <=> Overlaps(h.win, win)
    <3>1. M \subseteq H /\ \A h \in H : h \in M <=> Overlaps(h.win, win)  BY DEF Meeting
    <3>2. H \subseteq reservations  BY DEF Held
    <3> HIDE DEF H, M
    <3> QED BY <3>1, <3>2, PartOfRows
  <2>3. MostIn(PoolPeak(M, win), M, win)  BY <2>1, PeakOfRows
  <2>2. PoolPeak(M, win) + qty <= res[rid].cap
    <3>1. ~(PoolPeak(M, win) + qty > res[rid].cap)  BY <1>2 DEF Blocked
    <3>2. res[rid].cap \in Nat /\ PoolPeak(M, win) \in Nat  BY <2>3 DEF TypeOK, TablesOK, Resource, MostIn
    <3> QED BY <3>1, <3>2
  <2>4. \A h \in H : h.win[1] \in Int /\ h.win[2] \in Int  BY DEF Held, Rows, Row, Spans
  <2>5. win[1] \in Int /\ win[2] \in Int  BY DEF Spans
  <2> HIDE DEF H, M
  <2>6. ASSUME NEW i \in Int, win[1] <= i, i < win[2] PROVE RunAt(H, i) = RunAt(M, i)
    <3>1. \A h \in H : h.win[1] <= i /\ i < h.win[2] => Overlaps(h.win, win)
      BY <2>4, <2>5, <2>6 DEF Overlaps
    <3> QED BY <2>1, <3>1 DEF RunAt
  <2>7. ASSUME NEW i \in Int, win[1] <= i, i < win[2] PROVE Units(RunAt(H, i)) + qty <= res[rid].cap
    <3>1. Units(RunAt(M, i)) <= PoolPeak(M, win) /\ PoolPeak(M, win) \in Nat  BY <2>3, <2>7 DEF MostIn
    <3>2. Units(RunAt(M, i)) \in Nat  BY <2>1, RowsTimed, LevelIs
    <3>3. res[rid].cap \in Nat  BY DEF TypeOK, TablesOK, Resource
    <3> QED BY <2>2, <2>6, <2>7, <3>1, <3>2, <3>3
  <2> QED BY <1>1, <2>7 DEF RoomFor, Out, H
<1>3. CASE res[rid].mode # "POOLED"  BY <1>1, <1>3 DEF RoomFor
<1> QED BY <1>2, <1>3

\* Rows rewritten where they stand, none put back: nothing more is out.
LessOut(G, H) ==
    /\ IsFiniteSet(G)
    /\ \A rid, i : i \in Int =>
          Out(G, rid, i) \in Nat /\ Out(H, rid, i) \in Nat /\ Out(G, rid, i) <= Out(H, rid, i)

LEMMA RewrittenOut ==
    ASSUME NEW H, Rows(H), NEW f, NEW G, G = {f[b] : b \in H},
           \A b \in H : /\ f[b].id = b.id /\ f[b].rid = b.rid /\ f[b].win = b.win /\ f[b].qty = b.qty
                        /\ f[b].status = "HELD" => b.status = "HELD"
    PROVE  LessOut(G, H)
<1> DEFINE m == [b \in H |-> f[b]]
<1>1. Holds(H) /\ \A b, c \in H : b.id = c.id => b = c  BY RowsTimed DEF Timed, Rows
<1>2. DOMAIN m = H /\ \A b \in H : m[b] = f[b]  OBVIOUS
<1> HIDE DEF m
<1>3. \A b \in H : m[b].qty = b.qty  BY <1>2
<1>4. \A b, c \in H : m[b] = m[c] => b = c  BY <1>1, <1>2
<1>5. Holds({m[b] : b \in H}) /\ \A S \in SUBSET H : Units({m[b] : b \in S}) = Units(S)
  BY <1>1, <1>2, <1>3, <1>4, UnitsOfImage
<1>6. IsFiniteSet(G)
  <2>1. G = {m[b] : b \in H}  BY <1>2
  <2> QED BY <1>5, <2>1 DEF Holds
<1>7. ASSUME NEW rid, NEW i \in Int
      PROVE  Out(G, rid, i) \in Nat /\ Out(H, rid, i) \in Nat /\ Out(G, rid, i) <= Out(H, rid, i)
  <2> DEFINE S == {b \in H : f[b] \in RunAt(Held(G, rid), i)}
             K == RunAt(Held(H, rid), i)
  <2>1. RunAt(Held(G, rid), i) = {m[b] : b \in S}  BY <1>2 DEF RunAt, Held
  <2>2. S \subseteq K  BY DEF RunAt, Held
  <2>3. K \subseteq H /\ S \subseteq H  BY DEF RunAt, Held
  <2> HIDE DEF S, K
  <2>4. Holds(K)  BY <1>1, <2>3, PartHolds
  <2>5. Units(K) \in Nat /\ Units(S) \in Nat /\ Units(S) <= Units(K)  BY <2>2, <2>4, UnitsSplit
  <2>6. Out(G, rid, i) = Units(S)  BY <1>5, <2>1, <2>3 DEF Out
  <2> QED BY <2>5, <2>6 DEF Out, K
<1> QED BY <1>6, <1>7 DEF LessOut
-----------------------------------------------------------------------------
(* Room kept, step by step. *)

\* A step that writes no table the room is judged by.
LEMMA QuietReady ==
    ASSUME TypeOK, Ready, NEW t \in Txns, Apart(t), pc[t] # "done", UNCHANGED <<res, reservations, slots>>,
           RoomKept(t)', CancelKnows(t)'
    PROVE  Ready'
<1>1. PoolsFit' /\ IsFiniteSet(reservations')  BY DEF Ready, PoolsFit, Out, Held
<1>2. OneClassEach'
  <2>1. \A s \in slots : s.id \in Txns /\ s.id # t  BY DEF Ready, OneClassEach, TypeOK, TablesOK
  <2> QED BY <2>1 DEF Ready, OneClassEach, Apart
<1>3. ASSUME NEW u \in Txns \ {t} PROVE RoomKept(u)' /\ CancelKnows(u)'
  BY DEF Ready, Apart, RoomKept, CancelKnows, RoomFor, Out, Held, OnTimetable
<1> QED BY <1>1, <1>2, <1>3 DEF Ready

\* A request that has ended has no room to keep.
LEMMA EndedRoom ==
    ASSUME TypeOK, NEW t \in Txns, NEW where \in {"done", "lost", "referlost"}, Released(t, where)
    PROVE  Apart(t) /\ RoomKept(t)' /\ CancelKnows(t)' /\ pc'[t] = where
<1>1. where \in Places \ {"flush", "walk"}  BY DEF Places
<1>2. Apart(t)  BY <1>1, StoppedProvides
<1>3. pc'[t] = where /\ pend'[t] = {}  BY DEF Released, Goto, TypeOK, TxnsOK
<1> QED BY <1>2, <1>3 DEF RoomKept, CancelKnows

LEMMA RefuseReady ==
    ASSUME TypeOK, Ready, NEW t \in Txns, pc[t] # "done", NEW code, NEW row, Refuse(t, code, row)
    PROVE  Ready'
<1>1. Released(t, "done") /\ UNCHANGED <<res, reservations, slots>>  BY DEF Refuse, Finish, Released, tables
<1> QED BY <1>1, EndedRoom, QuietReady

LEMMA RollbackReady ==
    ASSUME TypeOK, Ready, NEW t \in Txns, pc[t] # "done", NEW where \in {"lost", "referlost"}, Rollback(t, where)
    PROVE  Ready'
<1>1. Released(t, where) /\ UNCHANGED <<res, reservations, slots>>  BY DEF Rollback, Released, tables
<1> QED BY <1>1, EndedRoom, QuietReady

\* The booking is admitted: what it found is what it keeps.
LEMMA BookAdmittedReady ==
    ASSUME TypeOK, ChecksHoldToTheEnd, Records, Ready, NEW t \in Txns, BookAdmitted(t)
    PROVE  Ready'
<1> DEFINE r == req[t]
<1>1. /\ pc'[t] = "flush" /\ Verdict(r) = "go"
      /\ UNCHANGED <<res, reservations, slots, feed, req, pend, answer>>
  BY DEF BookAdmitted, Goto, TypeOK, TxnsOK, tables
<1>2. r \in BookRequest /\ pc[t] = "asked"
  <2>1. Starts(t, "book")  BY DEF BookAdmitted
  <2> QED BY <2>1, StartsType DEF Starts
<1>3. r.rid \in Resources /\ r.win \in Spans /\ r.qty \in Nat  BY <1>2 DEF BookRequest
<1>4. pend[t] = {}  BY <1>2 DEF ChecksHoldToTheEnd, Guarding
<1>5. ~Blocked(r.rid, r.win, r.qty, reservations)  BY <1>1 DEF Verdict
<1>6. RoomFor(r.rid, r.win, r.qty)  BY <1>3, <1>5, TableRows, UnblockedHasRoom
<1>7. RoomKept(t)'  BY <1>1, <1>4, <1>6 DEF RoomKept, RoomFor, Out, Held, OnTimetable
<1>8. CancelKnows(t)'  BY <1>1 DEF CancelKnows
<1>9. Apart(t)  BY BookAdmittedProvides
<1> QED BY <1>1, <1>2, <1>7, <1>8, <1>9, QuietReady

LEMMA FlushTakenReady ==
    ASSUME TypeOK, Ready, NEW t \in Txns, Provides(t), FlushTaken(t)
    PROVE  Ready'
<1> DEFINE c == ParentRow(t)
<1>1. /\ pc[t] = "flush" /\ pc'[t] = "walk" /\ pend'[t] = {c}
      /\ UNCHANGED <<res, reservations, slots, feed, req, answer>>
  BY DEF FlushTaken, Goto, TypeOK, TxnsOK, tables
<1>2. c.rid = req[t].rid /\ c.win = req[t].win /\ c.qty = req[t].qty /\ c.parent = NoRow  BY DEF ParentRow
<1> HIDE DEF c
<1>3. RoomFor(c.rid, c.win, c.qty)  BY <1>1, <1>2 DEF Ready, RoomKept
<1>4. RoomKept(t)'  BY <1>1, <1>2, <1>3 DEF RoomKept, RoomFor, Out, Held, OnTimetable
<1>5. CancelKnows(t)'  BY <1>1 DEF CancelKnows
<1>6. Apart(t)  BY FlushTakenProvides
<1> QED BY <1>1, <1>4, <1>5, <1>6, QuietReady

LEMMA TrimmedReady ==
    ASSUME TypeOK, Ready, NEW t \in Txns, Trimmed(t)
    PROVE  Ready'
<1>1. /\ pc[t] = "walk" /\ UNCHANGED <<res, reservations, slots, feed, pc, req, pend, answer>> /\ Apart(t)
  BY DEF Trimmed, tables, Apart
<1>2. RoomKept(t)'  BY <1>1 DEF Ready, RoomKept, RoomFor, Out, Held, OnTimetable
<1>3. CancelKnows(t)'  BY <1>1 DEF CancelKnows
<1> QED BY <1>1, <1>2, <1>3, QuietReady

\* A child: the resource has no row of this booking yet, so the table's rows are all that count.
LEMMA GrownReady ==
    ASSUME TypeOK, ChecksHoldToTheEnd, Records, Ready, NEW t \in Txns, Grown(t)
    PROVE  Ready'
<1>1. PICK rid \in Resources, win \in Spans, qty \in Nat \ {0}, depth \in Nat, left \in Assigns, after \in Seq(Item) :
        Grows(t, rid, win, qty, depth, left, after)
  BY DEF Grown
<1>2. /\ pc[t] = "walk" /\ Hold(t, rid, win, qty, depth, left, after)
      /\ rid \notin run[t].used /\ ~Problem(rid, win, qty, Seen(t))
  BY <1>1 DEF Grows
<1> DEFINE c == ChildRow(t, rid, win, qty)
<1>3. /\ pend'[t] = pend[t] \cup {c} /\ UNCHANGED <<res, reservations, slots, feed, pc, req, answer>> /\ Apart(t)
  BY <1>2 DEF Hold, TypeOK, TxnsOK, tables, Apart
<1>4. c.rid = rid /\ c.win = win /\ c.qty = qty /\ c.parent = <<t, req[t].rid>>  BY DEF ChildRow
<1> HIDE DEF c
<1>5. \A b \in pend[t] : b.rid # rid  BY <1>2 DEF ChecksHoldToTheEnd, StillFree
<1>6. Held(Seen(t), rid) = Held(reservations, rid)  BY <1>5 DEF Seen, Held
<1>7. ~Blocked(rid, win, qty, Seen(t))  BY <1>2 DEF Problem
<1>8. qty \in Nat  OBVIOUS
<1>9. RoomFor(rid, win, qty)  BY <1>6, <1>7, <1>8, TableRows, UnblockedHasRoom
<1>10. rid # req[t].rid
  <2>1. PICK p \in pend[t] : First(t, p)  BY <1>2 DEF Records, Writes
  <2>2. Makes(t, p)  BY DEF Records, Writes
  <2>3. p.rid = req[t].rid  BY <2>1, <2>2 DEF First, Makes
  <2> QED BY <1>5, <2>3
<1>11. \A b \in pend'[t] : /\ RoomFor(b.rid, b.win, b.qty)
                           /\ b.parent = IF b.rid = req[t].rid THEN NoRow ELSE <<t, req[t].rid>>
  <2>1. \A b \in pend[t] : /\ RoomFor(b.rid, b.win, b.qty)
                           /\ b.parent = IF b.rid = req[t].rid THEN NoRow ELSE <<t, req[t].rid>>
    BY DEF Ready, RoomKept
  <2> QED BY <1>3, <1>4, <1>9, <1>10, <2>1
<1>12. RoomKept(t)'  BY <1>2, <1>3, <1>11 DEF RoomKept, RoomFor, Out, Held, OnTimetable
<1>13. CancelKnows(t)'  BY <1>2, <1>3 DEF CancelKnows
<1> QED BY <1>2, <1>3, <1>12, <1>13, QuietReady
-----------------------------------------------------------------------------
(* The steps that write. *)

\* What t wrote is judged table by table and request by request.
LEMMA WrittenReady ==
    ASSUME TypeOK, NEW t \in Txns, NEW code, NEW row, Finish(t, code, row),
           PoolsFit', OneClassEach', IsFiniteSet(reservations'),
           \A u \in Txns \ {t} : RoomKept(u)' /\ CancelKnows(u)'
    PROVE  Ready'
<1>1. Released(t, "done")  BY DEF Finish, Released
<1>2. RoomKept(t)' /\ CancelKnows(t)'  BY <1>1, EndedRoom
<1> QED BY <1>2 DEF Ready

LEMMA FinishApart ==
    ASSUME TypeOK, NEW t \in Txns, NEW code, NEW row, Finish(t, code, row)
    PROVE  Apart(t) /\ pc'[t] = "done"
<1>1. Released(t, "done")  BY DEF Finish, Released
<1> QED BY <1>1, EndedRoom

LEMMA SameClasses ==
    ASSUME TypeOK, Ready, NEW t \in Txns, Apart(t), pc'[t] = "done", slots' \subseteq slots
    PROVE  OneClassEach'
<1>1. \A s \in slots : s.id \in Txns  BY DEF TypeOK, TablesOK
<1>2. \A u \in Txns : pc[u] = "done" => pc'[u] = "done"  BY DEF Apart
<1> QED BY <1>1, <1>2 DEF Ready, OneClassEach

\* The commit: the units it takes are the units it had room for.
LEMMA CommitReady ==
    ASSUME TypeOK, ChecksHoldToTheEnd, Records, Ready, NEW t \in Txns, Commit(t)
    PROVE  Ready'
<1>1. /\ pc[t] = "walk" /\ reservations' = reservations \cup pend[t] /\ UNCHANGED <<res, slots>>
      /\ Finish(t, "created", <<t, req[t].rid>>) /\ req' = req
  BY DEF Commit, Finish
<1>2. Apart(t) /\ pc'[t] = "done"  BY <1>1, FinishApart
<1>3. Rows(reservations) /\ IsFiniteSet(pend[t]) /\ pend[t] \subseteq Row
  BY TableRows DEF TypeOK, TxnsOK
<1>4. \A b \in pend[t] :
        /\ lock[b.rid] = t /\ b.status = "HELD" /\ RoomFor(b.rid, b.win, b.qty)
        /\ b.parent = IF b.rid = req[t].rid THEN NoRow ELSE <<t, req[t].rid>>
  BY DEF ChecksHoldToTheEnd, Guarding, StillFree, Ready, RoomKept
<1>5. IsFiniteSet(reservations')  BY <1>1, <1>3, FS_Union DEF Rows
<1>6. ~Booked(t)  BY <1>1 DEF Records, Written
<1>7. \A b \in reservations' : b \in AllRows  BY <1>1 DEF AllRows
<1>8. Rows(reservations')
  <2>1. reservations' \subseteq Row  BY <1>1, <1>3 DEF Rows
  <2> QED BY <1>5, <1>7, <2>1 DEF Rows, Records, RowsAreUnique
<1>9. \A b \in pend[t] : b \notin reservations
  <2>1. ASSUME NEW b \in pend[t], b \in reservations PROVE FALSE
    <3>1. PICK u \in Txns : Makes(u, b) /\ Booked(u)  BY <2>1 DEF Records, Written
    <3>2. Makes(t, b)  BY DEF Records, Writes
    <3> QED BY <1>6, <3>1, <3>2, FirstMakes
  <2> QED BY <2>1
<1>10. PoolsFit'
  <2>1. ASSUME NEW rid \in Resources, res[rid].mode = "POOLED", NEW i \in Int
        PROVE  Out(reservations', rid, i) <= res[rid].cap
    <3> DEFINE old == RunAt(Held(reservations, rid), i)
               new == RunAt(Held(reservations', rid), i)
    <3>1. Units(old) <= res[rid].cap  BY <2>1 DEF Ready, PoolsFit, Out
    <3>2. CASE old = new  BY <3>1, <3>2 DEF Out
    <3>3. CASE old # new
      <4>1. PICK b \in pend[t] : b.rid = rid /\ b.win[1] <= i /\ i < b.win[2]
        BY <1>1, <3>3 DEF RunAt, Held
      <4>2. \A c \in pend[t] : c.rid = rid => c = b  BY <4>1 DEF ChecksHoldToTheEnd, StillFree
      <4>3. b \in new /\ new \ {b} = old  BY <1>1, <1>4, <1>9, <4>1, <4>2 DEF RunAt, Held
      <4>4. Holds(new)
        <5>1. Timed(Held(reservations', rid)) /\ new \subseteq Held(reservations', rid)
          BY <1>8, HeldRows DEF RunAt
        <5> QED BY <5>1, PartHolds DEF Timed
      <4> HIDE DEF old, new
      <4>5. Units(new) = b.qty + Units(old)  BY <4>3, <4>4, UnitsTake
      <4>6. Units(old) + b.qty <= res[rid].cap
        <5>1. RoomFor(rid, b.win, b.qty)  BY <1>4, <4>1
        <5> QED BY <2>1, <4>1, <5>1 DEF RoomFor, Out, old
      <4>7. Units(old) \in Nat /\ b.qty \in Nat
        <5>1. Units(old) \in Nat  BY <1>3, HeldRows DEF Out, old
        <5>2. b.qty \in Nat  BY <1>3, <4>1 DEF Row
        <5> QED BY <5>1, <5>2
      <4>8. Units(new) <= res[rid].cap  BY <4>5, <4>6, <4>7
      <4> QED BY <4>8 DEF Out, new
    <3> QED BY <3>2, <3>3
  <2> QED BY <1>1, <2>1 DEF PoolsFit
<1>11. OneClassEach'  BY <1>1, <1>2, SameClasses
<1>12. ASSUME NEW u \in Txns \ {t} PROVE RoomKept(u)' /\ CancelKnows(u)'
  <2>1. /\ pc'[u] = pc[u] /\ req'[u] = req[u] /\ pend'[u] = pend[u] /\ run'[u] = run[u]
        /\ RoomKept(u) /\ CancelKnows(u) /\ Guarding(u)
    BY <1>2 DEF Apart, Ready, ChecksHoldToTheEnd
  <2>2. ASSUME NEW rid, NEW win, NEW qty, lock[rid] = u, RoomFor(rid, win, qty) PROVE RoomFor(rid, win, qty)'
    <3>1. \A b \in pend[t] : b.rid # rid  BY <1>4, <2>2
    <3>2. Held(reservations', rid) = Held(reservations, rid)  BY <1>1, <3>1 DEF Held
    <3> QED BY <1>1, <2>2, <3>2 DEF RoomFor, Out, OnTimetable
  <2>3. /\ pc[u] = "flush" => lock[req[u].rid] = u
        /\ \A b \in pend[u] : lock[b.rid] = u
    BY <2>1 DEF Guarding
  <2>4. RoomKept(u)'  BY <2>1, <2>2, <2>3 DEF RoomKept
  <2>5. ASSUME pc[u] \in {"cancel", "letgo"}, NEW b \in pend[t] PROVE b.parent # req[u].row
    <3>1. SUFFICES ASSUME b.parent = req[u].row PROVE FALSE  OBVIOUS
    <3>2. req[u] \in CancelRequest  BY <2>5 DEF TypeOK, TxnsOK, Placed
    <3>3. req[u].row # NoRow  BY <3>2 DEF CancelRequest, Ids, NoRow
    <3>4. req[u].row = <<t, req[t].rid>>  BY <1>4, <3>1, <3>3
    <3>5. PICK p \in reservations : p.id = <<t, req[t].rid>>  BY <2>1, <2>5, <3>4 DEF CancelKnows
    <3>6. PICK v \in Txns : Makes(v, p) /\ Booked(v)  BY DEF Records, Written
    <3>7. v = t  BY <3>5, <3>6 DEF Makes
    <3> QED BY <1>6, <3>6, <3>7
  <2>6. CancelKnows(u)'  BY <1>1, <2>1, <2>5 DEF CancelKnows
  <2> QED BY <2>4, <2>6
<1> QED BY <1>1, <1>5, <1>10, <1>11, <1>12, WrittenReady

\* Rows rewritten where they stand: only less is out, and nobody loses sight of a row.
Kept(b, d) ==
    /\ d.id = b.id /\ d.rid = b.rid /\ d.win = b.win /\ d.qty = b.qty /\ d.parent = b.parent
    /\ d.status = "HELD" => b.status = "HELD"

LEMMA RewrittenRoom ==
    ASSUME TypeOK, Records, Ready, NEW t \in Txns, Apart(t), slots' = slots,
           NEW f, reservations' = {f[b] : b \in reservations}, \A b \in reservations : Kept(b, f[b]),
           NEW u \in Txns \ {t},
           \A rid \in Resources : res'[rid] = res[rid] \/ lock[rid] # u,
           Guarding(u)
    PROVE  RoomKept(u)' /\ CancelKnows(u)'
<1>1. /\ pc'[u] = pc[u] /\ req'[u] = req[u] /\ pend'[u] = pend[u] /\ run'[u] = run[u]
      /\ RoomKept(u) /\ CancelKnows(u)
  BY DEF Apart, Ready
<1>2. LessOut(reservations', reservations)  BY TableRows, RewrittenOut DEF Kept
<1>3. ASSUME NEW rid \in Resources, NEW win, NEW qty \in Nat, lock[rid] = u, RoomFor(rid, win, qty)
      PROVE  RoomFor(rid, win, qty)'
  <2>1. res'[rid] = res[rid] /\ res[rid].cap \in Nat  BY <1>3 DEF TypeOK, TablesOK, Resource
  <2>2. OnTimetable(rid, win)' <=> OnTimetable(rid, win)  BY DEF OnTimetable
  <2>3. ASSUME res[rid].mode = "POOLED", NEW i \in Int, win[1] <= i, i < win[2]
        PROVE  Out(reservations', rid, i) + qty <= res[rid].cap
    <3>1. Out(reservations, rid, i) + qty <= res[rid].cap  BY <1>3, <2>3 DEF RoomFor
    <3> QED BY <1>2, <2>1, <3>1 DEF LessOut
  <2> QED BY <1>3, <2>1, <2>2, <2>3 DEF RoomFor
<1>4. RoomKept(u)'
  <2>1. pc[u] = "flush" => /\ lock[req[u].rid] = u /\ req[u].rid \in Resources /\ req[u].qty \in Nat
    BY DEF Guarding, TypeOK, TxnsOK, Placed, BookRequest
  <2>2. \A b \in pend[u] : lock[b.rid] = u /\ b.rid \in Resources /\ b.qty \in Nat
    BY DEF Guarding, TypeOK, TxnsOK, Row
  <2> QED BY <1>1, <1>3, <2>1, <2>2 DEF RoomKept
<1>5. CancelKnows(u)'
  <2>1. \A b \in reservations : f[b] \in reservations' /\ f[b].id = b.id  BY DEF Kept
  <2>2. \A d \in reservations' : \E b \in reservations : Kept(b, d)  OBVIOUS
  <2> QED BY <1>1, <2>1, <2>2 DEF CancelKnows, Kept
<1> QED BY <1>4, <1>5

LEMMA RewrittenReady ==
    ASSUME TypeOK, ChecksHoldToTheEnd, Records, Ready, NEW t \in Txns, NEW code, NEW row, Finish(t, code, row),
           UNCHANGED <<res, slots>>,
           NEW f, reservations' = {f[b] : b \in reservations}, \A b \in reservations : Kept(b, f[b])
    PROVE  Ready'
<1>1. Apart(t) /\ pc'[t] = "done"  BY FinishApart
<1>2. LessOut(reservations', reservations)  BY TableRows, RewrittenOut DEF Kept
<1>3. PoolsFit'
  <2>1. ASSUME NEW rid \in Resources, res[rid].mode = "POOLED", NEW i \in Int
        PROVE  Out(reservations', rid, i) <= res[rid].cap
    <3>1. Out(reservations, rid, i) <= res[rid].cap  BY <2>1 DEF Ready, PoolsFit
    <3>2. res[rid].cap \in Nat  BY DEF TypeOK, TablesOK, Resource
    <3> QED BY <1>2, <3>1, <3>2 DEF LessOut
  <2> QED BY <2>1 DEF PoolsFit
<1>4. OneClassEach'  BY <1>1, SameClasses
<1>5. \A u \in Txns \ {t} : RoomKept(u)' /\ CancelKnows(u)'
  BY <1>1, RewrittenRoom DEF ChecksHoldToTheEnd
<1> QED BY <1>2, <1>3, <1>4, <1>5, WrittenReady DEF LessOut

\* A cancellation rewrites the rows it lets go.
Freed(t) == [b \in reservations |-> IF b \in LetGo(t) THEN [b EXCEPT !.status = "CANCELLED", !.at = t] ELSE b]

LEMMA CancelWriteReady ==
    ASSUME TypeOK, ChecksHoldToTheEnd, Records, Ready, NEW t \in Txns, CancelWrite(t)
    PROVE  Ready'
<1>1. /\ Finish(t, "cancelled", req[t].row) /\ UNCHANGED <<res, slots>>
      /\ reservations' = {Freed(t)[b] : b \in reservations}
  BY DEF CancelWrite, Freed
<1>2. \A b \in reservations : Kept(b, Freed(t)[b])  BY DEF Freed, Kept, TypeOK, TablesOK, Row
<1> QED BY <1>1, <1>2, RewrittenReady

\* A new reference is written on one row.
Renamed(t) == [b \in reservations |-> IF b.id = req[t].row THEN [b EXCEPT !.ref = req[t].ref] ELSE b]

LEMMA ReferWriteReady ==
    ASSUME TypeOK, ChecksHoldToTheEnd, Records, Ready, NEW t \in Txns, ReferWrite(t)
    PROVE  Ready'
<1>1. CASE Rivals(t, reservations) # {}
  <2>1. Rollback(t, "referlost") /\ pc[t] # "done"  BY <1>1 DEF ReferWrite
  <2> QED BY <2>1, RollbackReady
<1>2. CASE Rivals(t, reservations) = {}
  <2>1. /\ Finish(t, "updated", req[t].row) /\ UNCHANGED <<res, slots>>
        /\ reservations' = {Renamed(t)[b] : b \in reservations}
    BY <1>2 DEF ReferWrite, Renamed
  <2>2. \A b \in reservations : Kept(b, Renamed(t)[b])  BY DEF Renamed, Kept, TypeOK, TablesOK, Row
  <2> QED BY <2>1, <2>2, RewrittenReady
<1> QED BY <1>1, <1>2

\* What update_resource lets through: the standing holds fit the mode they move to.
LEMMA ChangeFits ==
    ASSUME TypeOK, ChecksHoldToTheEnd, Records, Ready, NEW r \in ChangeRequest,
           Tightens(r) => Misfits(r.rid, r.mode, r.cap) = {}
    PROVE  /\ r.mode = "EXCLUSIVE" =>
                \A a, b \in Held(reservations, r.rid) : a # b => ~Overlaps(a.win, b.win)
           /\ r.mode = "POOLED" => \A i \in Int : Out(reservations, r.rid, i) <= r.cap
           /\ res[r.rid].mode = "SHARED" /\ r.mode # "SHARED" =>
                \A b \in Held(reservations, r.rid) : ~OnTimetable(r.rid, b.win)
<1> DEFINE H == Held(reservations, r.rid)
<1>1. r.rid \in Resources /\ r.mode \in Modes /\ r.cap \in Nat  BY DEF ChangeRequest
<1>2. ASSUME r.mode = "EXCLUSIVE", NEW a \in H, NEW b \in H, a # b PROVE ~Overlaps(a.win, b.win)
  <2>1. CASE Tightens(r)  BY <1>2, <2>1, OverlapsSymmetric DEF Misfits
  <2>2. CASE ~Tightens(r)
    <3>1. res[r.rid].mode = "EXCLUSIVE"  BY <1>2, <2>2 DEF Tightens
    <3> QED BY <1>2, <3>1 DEF ChecksHoldToTheEnd, NoDoubleBooking, Held
  <2> QED BY <2>1, <2>2
<1>3. ASSUME r.mode = "POOLED", NEW i \in Int PROVE Out(reservations, r.rid, i) <= r.cap
  <2>1. CASE Tightens(r)
    <3>1. Misfits(r.rid, r.mode, r.cap) = {}  BY <2>1
    <3>2. \A b \in H : \A s \in PoolStretches(H, r.cap + 1) : ~Overlaps(b.win, s)
      BY <1>3, <3>1 DEF Misfits
    <3>3. Timed(H)  BY TableRows, HeldRows
    <3>4. Units(RunAt(H, i)) \in Nat  BY <3>3, LevelIs
    <3> SUFFICES ASSUME Units(RunAt(H, i)) >= r.cap + 1 PROVE FALSE
      BY <1>1, <3>4 DEF Out
    <3>5. AboveIn(PoolStretches(H, r.cap + 1), H, r.cap + 1)
      <4>1. r.cap + 1 \in Int /\ r.cap + 1 >= 1  BY <1>1
      <4> QED BY <3>3, <4>1, StretchesAre
    <3>6. PICK s \in PoolStretches(H, r.cap + 1) : s[1] <= i /\ i < s[2]  BY <3>5 DEF AboveIn
    <3>7. s[1] \in Int /\ s[2] \in Int
      <4>1. s[1] \in Instants(H) /\ s[2] \in Instants(H)  BY <3>5 DEF AboveIn
      <4> QED BY <3>3, <4>1, InstantsFinite
    <3>8. RunAt(H, i) # {}
      <4>1. 0 # Units(RunAt(H, i))  BY <1>1, <3>4
      <4> QED BY <3>3, <4>1, NothingRuns
    <3>9. PICK b \in H : b.win[1] <= i /\ i < b.win[2]  BY <3>8 DEF RunAt
    <3>10. b.win[1] \in Int /\ b.win[2] \in Int  BY <3>3 DEF Timed
    <3>11. Overlaps(b.win, s)  BY <3>6, <3>7, <3>9, <3>10 DEF Overlaps
    <3> QED BY <3>2, <3>11
  <2>2. CASE ~Tightens(r)
    <3>1. res[r.rid].mode = "POOLED" /\ res[r.rid].cap = r.cap  BY <1>3, <2>2 DEF Tightens
    <3> QED BY <1>1, <3>1 DEF Ready, PoolsFit
  <2> QED BY <2>1, <2>2
<1>4. ASSUME res[r.rid].mode = "SHARED", r.mode # "SHARED", NEW b \in H PROVE ~OnTimetable(r.rid, b.win)
  <2>1. Misfits(r.rid, r.mode, r.cap) = {}  BY <1>4 DEF Tightens
  <2> QED BY <1>4, <2>1 DEF Misfits
<1> QED BY <1>2, <1>3, <1>4

\* A new mode is written on the standing holds.
Remoded(t) ==
    [b \in reservations |-> IF req[t].mode # res[req[t].rid].mode /\ b \in Held(reservations, req[t].rid)
                            THEN [b EXCEPT !.mode = req[t].mode] ELSE b]

LEMMA ChangeReady ==
    ASSUME TypeOK, ChecksHoldToTheEnd, Records, Ready, NEW t \in Txns, Change(t)
    PROVE  Ready'
<1> DEFINE r == req[t]
<1>1. /\ Finish(t, "changed", NoRow) /\ slots' = slots /\ CanLock(t, r.rid)
      /\ reservations' = {Remoded(t)[b] : b \in reservations}
      /\ res' = [res EXCEPT ![r.rid] = [mode |-> r.mode, cap |-> r.cap, active |-> r.active]]
      /\ Tightens(r) => Misfits(r.rid, r.mode, r.cap) = {}
  BY DEF Change, Remoded
<1>2. r \in ChangeRequest /\ pc[t] = "asked"
  <2>1. Starts(t, "change")  BY DEF Change
  <2> QED BY <2>1, StartsType DEF Starts
<1>3. r.rid \in Resources /\ r.mode \in Modes /\ r.cap \in Nat  BY <1>2 DEF ChangeRequest
<1>4. /\ res'[r.rid].mode = r.mode /\ res'[r.rid].cap = r.cap
      /\ \A rid \in Resources \ {r.rid} : res'[rid] = res[rid]
  BY <1>1, <1>3 DEF TypeOK, TablesOK
<1>5. \A b \in reservations : Kept(b, Remoded(t)[b])  BY DEF Remoded, Kept, TypeOK, TablesOK, Row
<1>6. LessOut(reservations', reservations)  BY <1>1, <1>5, TableRows, RewrittenOut DEF Kept
<1>7. PoolsFit'
  <2>1. ASSUME NEW rid \in Resources, res'[rid].mode = "POOLED", NEW i \in Int
        PROVE  Out(reservations', rid, i) <= res'[rid].cap
    <3>1. Out(reservations, rid, i) <= res'[rid].cap
      <4>1. CASE rid = r.rid  BY <1>1, <1>2, <1>4, <2>1, <4>1, ChangeFits
      <4>2. CASE rid # r.rid  BY <1>4, <2>1, <4>2 DEF Ready, PoolsFit
      <4> QED BY <4>1, <4>2
    <3>2. res'[rid].cap \in Nat
      <4>1. CASE rid = r.rid  BY <1>3, <1>4, <4>1
      <4>2. CASE rid # r.rid  BY <1>4, <4>2 DEF TypeOK, TablesOK, Resource
      <4> QED BY <4>1, <4>2
    <3> QED BY <1>6, <3>1, <3>2 DEF LessOut
  <2> QED BY <2>1 DEF PoolsFit
<1>8. Apart(t) /\ pc'[t] = "done"  BY <1>1, FinishApart
<1>9. OneClassEach'  BY <1>1, <1>8, SameClasses
<1>10. ASSUME NEW u \in Txns \ {t} PROVE RoomKept(u)' /\ CancelKnows(u)'
  <2>1. Guarding(u)  BY DEF ChecksHoldToTheEnd
  <2>2. lock[r.rid] # u  BY <1>1, TxnsAssumption DEF CanLock
  <2>3. \A rid \in Resources : res'[rid] = res[rid] \/ lock[rid] # u  BY <1>4, <2>2
  <2> QED BY <1>1, <1>5, <1>8, <2>1, <2>3, RewrittenRoom
<1> QED BY <1>1, <1>6, <1>7, <1>9, <1>10, WrittenReady DEF LessOut

\* A class is written on a resource nobody is booking.
LEMMA SlotWriteReady ==
    ASSUME TypeOK, ChecksHoldToTheEnd, Ready, NEW t \in Txns, SlotWrite(t)
    PROVE  Ready'
<1> DEFINE s == [id |-> t, rid |-> req[t].rid, win |-> req[t].win]
<1>1. /\ pc[t] = "slot" /\ slots' = slots \cup {s} /\ Finish(t, "created", NoRow)
      /\ UNCHANGED <<res, reservations, feed>> /\ lock[req[t].rid] = Nobody
  BY DEF SlotWrite
<1>2. s.id = t /\ s.rid = req[t].rid  OBVIOUS
<1> HIDE DEF s
<1>3. Apart(t) /\ pc'[t] = "done"  BY <1>1, FinishApart
<1>4. \A x \in slots : x.id \in Txns /\ x.id # t  BY <1>1 DEF TypeOK, TablesOK, Ready, OneClassEach
<1>5. OneClassEach'  BY <1>1, <1>2, <1>3, <1>4 DEF Ready, OneClassEach, Apart
<1>6. PoolsFit' /\ IsFiniteSet(reservations')  BY <1>1 DEF Ready, PoolsFit, Out, Held
<1>7. ASSUME NEW u \in Txns \ {t} PROVE RoomKept(u)' /\ CancelKnows(u)'
  <2>1. /\ pc'[u] = pc[u] /\ req'[u] = req[u] /\ pend'[u] = pend[u] /\ run'[u] = run[u]
        /\ RoomKept(u) /\ CancelKnows(u) /\ Guarding(u)
    BY <1>3 DEF Apart, Ready, ChecksHoldToTheEnd
  <2>2. ASSUME NEW rid, NEW win, NEW qty, lock[rid] = u, RoomFor(rid, win, qty) PROVE RoomFor(rid, win, qty)'
    <3>1. rid # s.rid  BY <1>1, <1>2, <2>2, TxnsAssumption
    <3>2. OnTimetable(rid, win)' <=> OnTimetable(rid, win)  BY <1>1, <3>1 DEF OnTimetable
    <3> QED BY <1>1, <2>2, <3>2 DEF RoomFor, Out, Held
  <2>3. RoomKept(u)'  BY <2>1, <2>2 DEF RoomKept, Guarding
  <2>4. CancelKnows(u)'  BY <1>1, <2>1 DEF CancelKnows
  <2> QED BY <2>3, <2>4
<1> QED BY <1>1, <1>5, <1>6, <1>7, WrittenReady

LEMMA SlotDeleteReady ==
    ASSUME TypeOK, Ready, NEW t \in Txns, SlotDelete(t)
    PROVE  Ready'
<1>1. PICK code : Finish(t, code, NoRow)  BY DEF SlotDelete
<1>2. slots' \subseteq slots /\ UNCHANGED <<res, reservations, feed>>  BY DEF SlotDelete
<1>3. Apart(t) /\ pc'[t] = "done"  BY <1>1, FinishApart
<1>4. OneClassEach'  BY <1>2, <1>3, SameClasses
<1>5. PoolsFit' /\ IsFiniteSet(reservations')  BY <1>2 DEF Ready, PoolsFit, Out, Held
<1>6. ASSUME NEW u \in Txns \ {t} PROVE RoomKept(u)' /\ CancelKnows(u)'
  <2>1. /\ pc'[u] = pc[u] /\ req'[u] = req[u] /\ pend'[u] = pend[u] /\ run'[u] = run[u]
        /\ RoomKept(u) /\ CancelKnows(u)
    BY <1>3 DEF Apart, Ready
  <2>2. ASSUME NEW rid, NEW win, NEW qty, RoomFor(rid, win, qty) PROVE RoomFor(rid, win, qty)'
    <3>1. OnTimetable(rid, win)' => OnTimetable(rid, win)  BY <1>2 DEF OnTimetable
    <3> QED BY <1>2, <2>2, <3>1 DEF RoomFor, Out, Held
  <2>3. RoomKept(u)'  BY <2>1, <2>2 DEF RoomKept
  <2>4. CancelKnows(u)'  BY <1>2, <2>1 DEF CancelKnows
  <2> QED BY <2>3, <2>4
<1> QED BY <1>1, <1>4, <1>5, <1>6, WrittenReady

\* A request that has only read.
LEMMA ReadReady ==
    ASSUME TypeOK, ChecksHoldToTheEnd, Ready, NEW t \in Txns, pc[t] \in {"asked", "cancel"},
           NEW where \in {"cancel", "letgo", "refer", "slot"},
           Goto(t, where), UNCHANGED <<tables, req, pend>>, \A u \in Txns \ {t} : run'[u] = run[u],
           where \in {"cancel", "letgo"} => \E b \in reservations : b.id = req[t].row,
           where = "letgo" => \A b \in reservations :
                                b.parent = req[t].row /\ b.status = "HELD" => b.rid \in run'[t].used
    PROVE  Ready'
<1>1. pc'[t] = where /\ Apart(t) /\ UNCHANGED <<res, reservations, slots>>
  BY DEF Goto, TypeOK, TxnsOK, tables, Apart
<1>2. pend[t] = {}  BY DEF ChecksHoldToTheEnd, Guarding
<1>3. RoomKept(t)'  BY <1>1, <1>2 DEF RoomKept
<1>4. CancelKnows(t)'  BY <1>1 DEF CancelKnows
<1> QED BY <1>1, <1>3, <1>4, QuietReady
-----------------------------------------------------------------------------
(* Room kept, through every step. *)

LEMMA BookReady ==
    ASSUME TypeOK, ChecksHoldToTheEnd, Records, Ready, NEW t \in Txns, Provides(t), Book(t)
    PROVE  Ready'
<1>1. CASE BookRefused(t)  BY <1>1, RefuseReady DEF BookRefused, Starts
<1>2. CASE BookAdmitted(t)  BY <1>2, BookAdmittedReady
<1>3. CASE FlushTaken(t)  BY <1>3, FlushTakenReady
<1>4. CASE FlushLost(t)  BY <1>4, RollbackReady DEF FlushLost
<1>5. CASE Lost(t)
  <2>1. \E code, row : Refuse(t, code, row)  BY <1>5 DEF Lost
  <2>2. pc[t] # "done"  BY <1>5 DEF Lost
  <2> QED BY <2>1, <2>2, RefuseReady
<1>6. CASE WalkStep(t)
  <2>1. pc[t] = "walk" /\ (Declined(t) \/ Trimmed(t) \/ Grown(t))  BY <1>6, WalkDoes
  <2>2. CASE Declined(t)  BY <2>1, <2>2, RefuseReady DEF Declined
  <2> QED BY <2>1, <2>2, TrimmedReady, GrownReady
<1>7. CASE Commit(t)  BY <1>7, CommitReady
<1>8. CASE LeftOver(t)  BY <1>8, RefuseReady DEF LeftOver
<1>9. CASE DeadlockVictim(t)  BY <1>9, RefuseReady DEF DeadlockVictim
<1> QED BY <1>1, <1>2, <1>3, <1>4, <1>5, <1>6, <1>7, <1>8, <1>9 DEF Book, WalkStep

LEMMA AmendReady ==
    ASSUME TypeOK, ChecksHoldToTheEnd, Records, Ready, NEW t \in Txns, Amend(t)
    PROVE  Ready'
<1>1. CASE NotChangeable(t)  BY <1>1, RefuseReady DEF NotChangeable, Starts
<1>2. CASE CancelTwice(t)  BY <1>2, RefuseReady DEF CancelTwice, Starts
<1>3. CASE CancelRead(t)
  <2>1. /\ pc[t] = "asked" /\ Goto(t, "cancel") /\ UNCHANGED <<tables, lock, req, pend, run, answer>>
        /\ \E b \in reservations : b.id = req[t].row
    BY <1>3 DEF CancelRead, Starts, Mine, Asked
  <2> QED BY <2>1, ReadReady
<1>4. CASE CancelChildren(t)
  <2> DEFINE read == {b.rid : b \in {c \in reservations : c.parent = req[t].row /\ c.status = "HELD"}}
  <2>1. /\ pc[t] = "cancel" /\ Goto(t, "letgo") /\ UNCHANGED <<tables, lock, req, pend, answer>>
        /\ run'[t].used = read /\ \A u \in Txns \ {t} : run'[u] = run[u]
    BY <1>4 DEF CancelChildren, TypeOK, TxnsOK
  <2>2. \E b \in reservations : b.id = req[t].row  BY <2>1 DEF Ready, CancelKnows
  <2>3. \A b \in reservations : b.parent = req[t].row /\ b.status = "HELD" => b.rid \in read  OBVIOUS
  <2> HIDE DEF read
  <2> QED BY <2>1, <2>2, <2>3, ReadReady
<1>5. CASE CancelWrite(t)  BY <1>5, CancelWriteReady
<1>6. CASE ReferSame(t)  BY <1>6, RefuseReady DEF ReferSame, Starts
<1>7. CASE ReferRefused(t)  BY <1>7, RefuseReady DEF ReferRefused, Starts
<1>8. CASE ReferRead(t)  BY <1>8, ReadReady DEF ReferRead, Starts
<1>9. CASE ReferWrite(t)  BY <1>9, ReferWriteReady
<1>10. CASE ReferLost(t)
  <2>1. \E code, row : Refuse(t, code, row)  BY <1>10 DEF ReferLost
  <2>2. pc[t] # "done"  BY <1>10 DEF ReferLost
  <2> QED BY <2>1, <2>2, RefuseReady
<1> QED BY <1>1, <1>2, <1>3, <1>4, <1>5, <1>6, <1>7, <1>8, <1>9, <1>10 DEF Amend

LEMMA PlanReady ==
    ASSUME TypeOK, ChecksHoldToTheEnd, Records, Ready, NEW t \in Txns, Plan(t)
    PROVE  Ready'
<1>1. CASE ChangeRefused(t)  BY <1>1, RefuseReady DEF ChangeRefused, Starts
<1>2. CASE Change(t)  BY <1>2, ChangeReady
<1>3. CASE SlotRefused(t)  BY <1>3, RefuseReady DEF SlotRefused, Starts
<1>4. CASE SlotRead(t)  BY <1>4, ReadReady DEF SlotRead, Starts
<1>5. CASE SlotWrite(t)  BY <1>5, SlotWriteReady
<1>6. CASE SlotDelete(t)  BY <1>6, SlotDeleteReady
<1> QED BY <1>1, <1>2, <1>3, <1>4, <1>5, <1>6 DEF Plan

LEMMA ReadyNext ==
    ASSUME TypeOK, ChecksHoldToTheEnd, Records, Complete, Ready, [Next]_vars
    PROVE  Ready'
<1>0. \A t \in Txns : Provides(t)  BY DEF Complete
<1>1. ASSUME NEW t \in Txns, Crash(t) PROVE Ready'  BY <1>1, RefuseReady DEF Crash, Running
<1>2. ASSUME UNCHANGED vars PROVE Ready'
  <2>1. UNCHANGED <<res, reservations, slots, pc, req, pend, run>>  BY <1>2 DEF vars
  <2>2. \A t \in Txns : RoomKept(t)' /\ CancelKnows(t)'
    BY <2>1 DEF Ready, RoomKept, CancelKnows, RoomFor, Out, Held, OnTimetable
  <2>3. PoolsFit' /\ OneClassEach' /\ IsFiniteSet(reservations')
    BY <2>1 DEF Ready, PoolsFit, Out, Held, OneClassEach
  <2> QED BY <2>2, <2>3 DEF Ready
<1> QED BY <1>0, <1>1, <1>2, BookReady, AmendReady, PlanReady DEF Next, Step, Quiet

LEMMA ReadyInit == Init => Ready
<1> SUFFICES ASSUME Init PROVE Ready  OBVIOUS
<1>1. /\ reservations = {} /\ slots = {} /\ res = Res0
      /\ \A t \in Txns : pc[t] = "asked" /\ pend[t] = {}
  BY DEF Init
<1>2. Rows({})  BY FS_EmptySet DEF Rows
<1>3. PoolsFit
  <2>1. ASSUME NEW rid \in Resources, NEW i \in Int PROVE Out(reservations, rid, i) <= res[rid].cap
    <3>1. Timed({})  BY <1>2, RowsTimed
    <3>2. Held(reservations, rid) = {} /\ RunAt({}, i) = {}  BY <1>1 DEF Held, RunAt
    <3>3. Out(reservations, rid, i) = 0  BY <3>1, <3>2, NothingRuns DEF Out
    <3>4. res[rid].cap \in Nat  BY <1>1, ResourcesAssumption DEF Resource
    <3> QED BY <3>3, <3>4
  <2> QED BY <2>1 DEF PoolsFit
<1>4. OneClassEach /\ IsFiniteSet(reservations)  BY <1>1, <1>2 DEF OneClassEach, Rows
<1>5. \A t \in Txns : RoomKept(t) /\ CancelKnows(t)  BY <1>1 DEF RoomKept, CancelKnows
<1> QED BY <1>3, <1>4, <1>5 DEF Ready

LEMMA RoomHolds == Spec => []Ready
<1>1. TypeOK /\ ChecksHoldToTheEnd /\ Records /\ Complete /\ Ready /\ [Next]_vars => Ready'  BY ReadyNext
<1> QED BY <1>1, ReadyInit, FamiliesHold, PTL DEF Spec
-----------------------------------------------------------------------------
(* Every step is a step of the ledger, or none. *)

\* What stands after a step fits.
LEMMA AllFitAfter ==
    ASSUME TypeOK', ChecksHoldToTheEnd', Records', Ready'
    PROVE  \A rid \in Resources :
             Ledger!Fits(rid, res'[rid].mode, res'[rid].cap, Ledger!Standing(reservations', rid))
<1>1. Rows(reservations')
  <2>1. reservations' \subseteq Row /\ IsFiniteSet(reservations')  BY DEF TypeOK, TablesOK, Ready
  <2>2. \A a, b \in reservations' : a.id = b.id => a = b  BY DEF Records, RowsAreUnique, AllRows
  <2> QED BY <2>1, <2>2 DEF Rows
<1> SUFFICES ASSUME NEW rid \in Resources
             PROVE  Ledger!Fits(rid, res'[rid].mode, res'[rid].cap, Held(reservations', rid))
  BY DEF Ledger!Standing, Held
<1>2. res'[rid].mode \in Modes /\ res'[rid].cap \in Nat  BY DEF TypeOK, TablesOK, Resource
<1>3. Rows(Held(reservations', rid))  BY <1>1, HeldRows
<1>4. res'[rid].mode = "EXCLUSIVE" =>
        \A a, b \in Held(reservations', rid) : a # b => ~Overlaps(a.win, b.win)
  BY DEF ChecksHoldToTheEnd, NoDoubleBooking, Held
<1>5. res'[rid].mode = "POOLED" => \A i \in Int : Units(RunAt(Held(reservations', rid), i)) <= res'[rid].cap
  BY DEF Ready, PoolsFit, Out
<1> QED BY <1>2, <1>3, <1>4, <1>5, FitsIf

\* A commit is a whole booking.
LEMMA CommitBooks ==
    ASSUME TypeOK, ChecksHoldToTheEnd, Records, Ready, NEW t \in Txns, Commit(t),
           TypeOK', ChecksHoldToTheEnd', Records', Ready'
    PROVE  Ledger!Book
<1> DEFINE new == reservations' \ reservations
<1>1. /\ pc[t] = "walk" /\ reservations' = reservations \cup pend[t] /\ UNCHANGED <<res, slots>>
  BY DEF Commit
<1>2. ~Booked(t)  BY <1>1 DEF Records, Written
<1>3. \A b \in pend[t] : b \notin reservations
  <2>1. ASSUME NEW b \in pend[t], b \in reservations PROVE FALSE
    <3>1. PICK u \in Txns : Makes(u, b) /\ Booked(u)  BY <2>1 DEF Records, Written
    <3>2. Makes(t, b)  BY DEF Records, Writes
    <3> QED BY <1>2, <3>1, <3>2, FirstMakes
  <2> QED BY <2>1
<1>4. new = pend[t]  BY <1>1, <1>3
<1> HIDE DEF new
<1>5. PICK p \in pend[t] : First(t, p)  BY <1>1 DEF Records, Writes
<1>6. \A b \in pend[t] :
        /\ Makes(t, b) /\ b.status = "HELD" /\ b.mode = res[b.rid].mode
        /\ b.rid \in Resources /\ RoomFor(b.rid, b.win, b.qty)
        /\ b.parent = IF b.rid = req[t].rid THEN NoRow ELSE <<t, req[t].rid>>
        /\ \A a \in pend[t] : a.rid = b.rid => a = b
  BY DEF Records, Writes, ChecksHoldToTheEnd, StillFree, Ready, RoomKept, TypeOK, TxnsOK, Row
<1>7. p.rid = req[t].rid /\ p.id = <<t, req[t].rid>> /\ p.by = req[t].by  BY <1>5, <1>6 DEF First, Makes
<1>8. p.parent = NoRow  BY <1>6, <1>7
<1>9. ASSUME NEW c \in pend[t] \ {p} PROVE c.parent = p.id /\ c.by = p.by /\ c.rid # p.rid
  <2>1. c.rid # p.rid  BY <1>6
  <2> QED BY <1>6, <1>7, <2>1 DEF Makes
<1>10. ASSUME NEW b \in pend[t]
       PROVE  /\ b.status = "HELD" /\ b.mode = res[b.rid].mode
              /\ b.mode = "SHARED" \/ Ledger!ClassFree(b.rid, b.win)
              /\ \A a \in reservations' \ {b} :
                   a.id # b.id /\ (a.by = b.by => a.key # b.key /\ (a.ref # b.ref \/ a.ref = NoRef))
  <2>1. b.mode # "SHARED" => ~OnTimetable(b.rid, b.win)  BY <1>6 DEF RoomFor
  <2>2. b.mode = "SHARED" \/ Ledger!ClassFree(b.rid, b.win)
    BY <2>1 DEF Ledger!ClassFree, OnTimetable, Ledger!Overlaps, Overlaps
  <2>3. \A a \in reservations' : a \in AllRows  BY <1>1 DEF AllRows
  <2>4. b \in AllRows  BY DEF AllRows
  <2>5. \A a \in reservations' \ {b} : a.id # b.id /\ ~SameUnique(a, b)
    BY <2>3, <2>4 DEF Records, RowsAreUnique
  <2>6. \A a \in reservations' \ {b} : a.by = b.by => a.key # b.key /\ (a.ref # b.ref \/ a.ref = NoRef)
    BY <2>5 DEF SameUnique
  <2> QED BY <1>6, <2>2, <2>5, <2>6
<1>11. reservations \subseteq reservations' /\ reservations' # reservations  BY <1>1, <1>3, <1>5
<1>12. \A rid \in Resources :
         Ledger!Fits(rid, res[rid].mode, res[rid].cap, Ledger!Standing(reservations', rid))
  BY <1>1, AllFitAfter
<1>13. \E q \in new : /\ q.parent = NoRow
                      /\ \A c \in new \ {q} : c.parent = q.id /\ c.by = q.by /\ c.rid # q.rid
  BY <1>4, <1>5, <1>8, <1>9
<1> QED BY <1>1, <1>4, <1>10, <1>11, <1>12, <1>13 DEF Ledger!Book, new

\* A cancellation lets the row go with the children that were read, and every child still held was read.
LEMMA CancelWriteCancels ==
    ASSUME TypeOK, Records, Ready, NEW t \in Txns, CancelWrite(t)
    PROVE  Ledger!Cancel
<1>1. /\ pc[t] = "letgo" /\ UNCHANGED <<res, slots>> /\ reservations \subseteq Row
      /\ reservations' = {IF c \in LetGo(t) THEN [c EXCEPT !.status = "CANCELLED", !.at = t] ELSE c :
                             c \in reservations}
  BY DEF CancelWrite, TypeOK, TablesOK
<1>2. PICK b \in reservations : b.id = req[t].row  BY <1>1 DEF Ready, CancelKnows
<1> DEFINE going == {c \in reservations : c.parent = b.id /\ c.rid \in run[t].used}
           after == {IF c = b \/ c \in going THEN [c EXCEPT !.status = "CANCELLED", !.at = t] ELSE c :
                        c \in reservations}
<1>3. Rows(reservations)  BY TableRows
<1>4. \A c \in reservations : c \in LetGo(t) <=> (c = b \/ c \in going)  BY <1>2, <1>3 DEF LetGo, Rows
<1>5. reservations' = after  BY <1>1, <1>4
<1>6. t \in {c.at : c \in reservations'}
  <2>1. [b EXCEPT !.status = "CANCELLED", !.at = t] \in after  OBVIOUS
  <2>2. [b EXCEPT !.status = "CANCELLED", !.at = t].at = t  BY <1>1 DEF Row
  <2> HIDE DEF after
  <2> QED BY <1>5, <2>1, <2>2
<1>7. going \in SUBSET {c \in reservations : c.parent = b.id}  OBVIOUS
<1>8. \A c \in reservations : c.parent = b.id /\ c.status = "HELD" => c \in going
  BY <1>1, <1>2 DEF Ready, CancelKnows
<1>9. \E g \in SUBSET {c \in reservations : c.parent = b.id} :
        /\ \A c \in reservations : c.parent = b.id /\ c.status = "HELD" => c \in g
        /\ reservations' = {IF c = b \/ c \in g THEN [c EXCEPT !.status = "CANCELLED", !.at = t] ELSE c :
                               c \in reservations}
  <2> HIDE DEF going
  <2> QED BY <1>5, <1>7, <1>8
<1> QED BY <1>1, <1>6, <1>9 DEF Ledger!Cancel

\* A reference is written on the one row asked about, and its caller has it on no other.
LEMMA ReferWriteRefers ==
    ASSUME TypeOK, Records, Ready, NEW t \in Txns, ReferWrite(t)
    PROVE  Ledger!Refer \/ UNCHANGED <<res, reservations, slots>>
<1>1. CASE Rivals(t, reservations) # {}  BY <1>1 DEF ReferWrite, Rollback, tables
<1>2. CASE Rivals(t, reservations) = {}
  <2>1. /\ UNCHANGED <<res, slots>> /\ reservations \subseteq Row
        /\ reservations' = {IF c.id = req[t].row THEN [c EXCEPT !.ref = req[t].ref] ELSE c : c \in reservations}
    BY <1>2 DEF ReferWrite, TypeOK, TablesOK
  <2>2. CASE \A c \in reservations : c.id # req[t].row
    <3>1. reservations' = reservations  BY <2>1, <2>2
    <3> QED BY <2>1, <3>1
  <2>3. CASE \E c \in reservations : c.id = req[t].row
    <3>1. PICK b \in reservations : b.id = req[t].row  BY <2>3
    <3> DEFINE ref == req[t].ref
               after == {IF c = b THEN [c EXCEPT !.ref = ref] ELSE c : c \in reservations}
    <3>2. \A c \in reservations : c.id = req[t].row <=> c = b  BY <3>1, TableRows DEF Rows
    <3>3. reservations' = after  BY <2>1, <3>2
    <3>4. ref \in {c.ref : c \in reservations'}
      <4>1. [b EXCEPT !.ref = ref] \in after /\ [b EXCEPT !.ref = ref].ref = ref  BY <2>1 DEF Row
      <4> HIDE DEF after
      <4> QED BY <3>3, <4>1
    <3>5. ref = NoRef \/ \A c \in reservations \ {b} : c.by = b.by => c.ref # ref
      BY <1>2, <3>1, <3>2 DEF Rivals, Asked
    <3> QED BY <2>1, <3>3, <3>4, <3>5 DEF Ledger!Refer
  <2> QED BY <2>2, <2>3
<1> QED BY <1>1, <1>2

\* A mode or capacity changes to one the standing holds fit.
LEMMA ChangeChanges ==
    ASSUME TypeOK, ChecksHoldToTheEnd, Records, Ready, NEW t \in Txns, Change(t)
    PROVE  Ledger!Change
<1> DEFINE r == req[t]
           H == Held(reservations, r.rid)
<1>1. /\ slots' = slots
      /\ res' = [res EXCEPT ![r.rid] = [mode |-> r.mode, cap |-> r.cap, active |-> r.active]]
      /\ reservations' = {IF r.mode # res[r.rid].mode /\ b \in H THEN [b EXCEPT !.mode = r.mode] ELSE b :
                              b \in reservations}
      /\ Tightens(r) => Misfits(r.rid, r.mode, r.cap) = {}
  BY DEF Change
<1>2. r \in ChangeRequest
  <2>1. Starts(t, "change")  BY DEF Change
  <2> QED BY <2>1, StartsType
<1>3. r.rid \in Resources /\ r.mode \in Modes /\ r.cap \in Nat  BY <1>2 DEF ChangeRequest
<1>4. /\ res'[r.rid].mode = r.mode /\ res'[r.rid].cap = r.cap
      /\ \A rid \in Resources \ {r.rid} : res'[rid] = res[rid]
  BY <1>1, <1>3 DEF TypeOK, TablesOK
<1>5. reservations' = {IF b.rid = r.rid /\ b.status = "HELD" THEN [b EXCEPT !.mode = r.mode] ELSE b :
                           b \in reservations}
  <2> DEFINE f == [b \in reservations |-> IF r.mode # res[r.rid].mode /\ b \in H THEN [b EXCEPT !.mode = r.mode] ELSE b]
             g == [b \in reservations |-> IF b.rid = r.rid /\ b.status = "HELD" THEN [b EXCEPT !.mode = r.mode] ELSE b]
  <2>1. ASSUME NEW b \in reservations PROVE f[b] = g[b]
    <3>1. b \in H <=> b.rid = r.rid /\ b.status = "HELD"  BY DEF Held
    <3>2. b \in H => b.mode = res[r.rid].mode  BY <1>3 DEF ChecksHoldToTheEnd, ModeIsTheResources
    <3>3. b \in Row  BY DEF TypeOK, TablesOK
    <3>4. b = [b EXCEPT !.mode = b.mode]  BY <3>3 DEF Row
    <3> HIDE DEF H, r
    <3>5. CASE ~(b \in H)  BY <3>1, <3>5
    <3>6. CASE b \in H /\ r.mode # res[r.rid].mode  BY <3>1, <3>6
    <3>7. CASE b \in H /\ r.mode = res[r.rid].mode
      <4>1. b.mode = r.mode  BY <3>2, <3>7
      <4>2. [b EXCEPT !.mode = r.mode] = b  BY <3>4, <4>1
      <4> QED BY <3>1, <3>7, <4>2
    <3> QED BY <3>5, <3>6, <3>7
  <2>2. reservations' = {f[b] : b \in reservations}  BY <1>1
  <2>3. {g[b] : b \in reservations} = {IF b.rid = r.rid /\ b.status = "HELD" THEN [b EXCEPT !.mode = r.mode] ELSE b :
                                           b \in reservations}
    OBVIOUS
  <2> HIDE DEF f, g
  <2>4. reservations' = {g[b] : b \in reservations}  BY <2>1, <2>2
  <2> QED BY <2>3, <2>4
<1>6. /\ r.mode = "EXCLUSIVE" => \A a, b \in H : a # b => ~Overlaps(a.win, b.win)
      /\ r.mode = "POOLED" => \A i \in Int : Out(reservations, r.rid, i) <= r.cap
      /\ res[r.rid].mode = "SHARED" /\ r.mode # "SHARED" => \A b \in H : ~OnTimetable(r.rid, b.win)
  BY <1>1, <1>2, ChangeFits
<1>7. Rows(H)  BY TableRows, HeldRows
<1>8. Ledger!Standing(reservations, r.rid) = H  BY DEF Ledger!Standing, Held
<1> HIDE DEF H
<1>9. \A i \in Int : Out(reservations, r.rid, i) = Units(RunAt(H, i))  BY DEF Out, H
<1>10. Ledger!Fits(r.rid, r.mode, r.cap, H)
  <2>1. r.mode = "POOLED" => \A i \in Int : Units(RunAt(H, i)) <= r.cap  BY <1>6, <1>9
  <2> QED BY <1>3, <1>6, <1>7, <2>1, FitsIf
<1>11. res[r.rid].mode = "SHARED" /\ r.mode # "SHARED" => \A b \in H : Ledger!ClassFree(r.rid, b.win)
  BY <1>6 DEF Ledger!ClassFree, OnTimetable, Ledger!Overlaps, Overlaps
<1>12. /\ \A other \in Resources \ {r.rid} : res'[other] = res[other]
       /\ reservations' = {IF b.rid = r.rid /\ b.status = "HELD" THEN [b EXCEPT !.mode = res'[r.rid].mode] ELSE b :
                               b \in reservations}
       /\ Ledger!Fits(r.rid, res'[r.rid].mode, res'[r.rid].cap, Ledger!Standing(reservations, r.rid))
       /\ res[r.rid].mode = "SHARED" /\ res'[r.rid].mode # "SHARED" =>
            \A b \in Ledger!Standing(reservations, r.rid) : Ledger!ClassFree(r.rid, b.win)
       /\ slots' = slots
  BY <1>1, <1>4, <1>5, <1>8, <1>10, <1>11
<1> HIDE DEF r
<1> QED BY <1>3, <1>12 DEF Ledger!Change

\* One class comes, or one goes.
LEMMA SlotStepsAreOne ==
    ASSUME TypeOK, Ready, NEW t \in Txns, SlotWrite(t) \/ SlotDelete(t)
    PROVE  Ledger!Timetable \/ UNCHANGED <<res, reservations, slots>>
<1>1. CASE SlotWrite(t)
  <2> DEFINE s == [id |-> t, rid |-> req[t].rid, win |-> req[t].win]
  <2>1. slots' = slots \cup {s} /\ UNCHANGED <<res, reservations>>  BY <1>1 DEF SlotWrite
  <2> HIDE DEF s
  <2> QED BY <2>1 DEF Ledger!Timetable
<1>2. CASE SlotDelete(t)
  <2>1. slots' = {s \in slots : s.id # req[t].slot} /\ UNCHANGED <<res, reservations>>  BY <1>2 DEF SlotDelete
  <2>2. CASE slots' = slots  BY <2>1, <2>2
  <2>3. CASE slots' # slots
    <3>1. PICK c \in slots : c.id = req[t].slot  BY <2>1, <2>3
    <3>2. slots' = slots \ {c}  BY <2>1, <3>1 DEF Ready, OneClassEach
    <3> QED BY <2>1, <3>2 DEF Ledger!Timetable
  <2> QED BY <2>2, <2>3
<1> QED BY <1>1, <1>2

\* The booking's other steps write no table.
LEMMA BookIsOne ==
    ASSUME TypeOK, NEW t \in Txns, Provides(t), Book(t), ~Commit(t)
    PROVE  UNCHANGED <<res, reservations, slots>>
<1>1. CASE WalkStep(t)
  <2>1. Declined(t) \/ Trimmed(t) \/ Grown(t)  BY <1>1, WalkDoes
  <2>2. Declined(t) => UNCHANGED tables  BY DEF Declined, Refuse
  <2>3. Trimmed(t) => UNCHANGED tables  BY DEF Trimmed
  <2>4. ASSUME Grown(t) PROVE UNCHANGED tables
    <3>1. PICK rid \in Resources, win \in Spans, qty \in Nat \ {0}, depth \in Nat, left \in Assigns, after \in Seq(Item) :
            Grows(t, rid, win, qty, depth, left, after)
      BY <2>4 DEF Grown
    <3> QED BY <3>1 DEF Grows, Hold
  <2> QED BY <2>1, <2>2, <2>3, <2>4 DEF tables
<1>2. CASE ~WalkStep(t)
  <2>1. \/ BookRefused(t) \/ BookAdmitted(t) \/ FlushTaken(t) \/ FlushLost(t) \/ Lost(t)
        \/ LeftOver(t) \/ DeadlockVictim(t)
    BY <1>2 DEF Book, WalkStep
  <2> QED BY <2>1 DEF BookRefused, BookAdmitted, FlushTaken, FlushLost, Lost, LeftOver, DeadlockVictim,
                      Refuse, Rollback, tables
<1> QED BY <1>1, <1>2

LEMMA AmendIsOne ==
    ASSUME TypeOK, Records, Ready, NEW t \in Txns, Amend(t)
    PROVE  Ledger!Cancel \/ Ledger!Refer \/ UNCHANGED <<res, reservations, slots>>
<1>1. CASE CancelWrite(t)  BY <1>1, CancelWriteCancels
<1>2. CASE ReferWrite(t)  BY <1>2, ReferWriteRefers
<1>3. CASE ~CancelWrite(t) /\ ~ReferWrite(t)
  <2>1. UNCHANGED tables
    BY <1>3 DEF Amend, NotChangeable, CancelTwice, CancelRead, CancelChildren, ReferSame, ReferRefused,
                ReferRead, ReferLost, Refuse
  <2> QED BY <2>1 DEF tables
<1> QED BY <1>1, <1>2, <1>3

LEMMA PlanIsOne ==
    ASSUME TypeOK, ChecksHoldToTheEnd, Records, Ready, NEW t \in Txns, Plan(t)
    PROVE  Ledger!Change \/ Ledger!Timetable \/ UNCHANGED <<res, reservations, slots>>
<1>1. CASE Change(t)  BY <1>1, ChangeChanges
<1>2. CASE SlotWrite(t) \/ SlotDelete(t)  BY <1>2, SlotStepsAreOne
<1>3. CASE ChangeRefused(t) \/ SlotRefused(t) \/ SlotRead(t)
  BY <1>3 DEF ChangeRefused, SlotRefused, SlotRead, Refuse, tables
<1> QED BY <1>1, <1>2, <1>3 DEF Plan

LEMMA LedgerStep ==
    ASSUME TypeOK, ChecksHoldToTheEnd, Records, Complete, Ready,
           TypeOK', ChecksHoldToTheEnd', Records', Ready', [Next]_vars
    PROVE  [Ledger!LedgerNext]_(Ledger!ledger)
<1>1. ASSUME NEW t \in Txns, Book(t) PROVE Ledger!Book \/ UNCHANGED <<res, reservations, slots>>
  <2>1. Provides(t)  BY DEF Complete
  <2> QED BY <1>1, <2>1, CommitBooks, BookIsOne
<1>2. ASSUME NEW t \in Txns, Crash(t) PROVE UNCHANGED <<res, reservations, slots>>
  BY <1>2 DEF Crash, Refuse, tables
<1>3. UNCHANGED vars => UNCHANGED <<res, reservations, slots>>  BY DEF vars
<1>4. Ledger!LedgerNext \/ UNCHANGED <<res, reservations, slots>>
  BY <1>1, <1>2, <1>3, AmendIsOne, PlanIsOne DEF Next, Step, Quiet, Ledger!LedgerNext
<1> QED BY <1>4 DEF Ledger!ledger
-----------------------------------------------------------------------------
(* The theorems. *)

\* Never is more of a pool out, at any instant, than it has: however the bookings, the walks, the
\* cancellations and the changes of capacity interleave, the peak read under the row lock is enough.
THEOREM NoPoolIsOverdrawn == Spec => []PoolsFit
<1>1. Ready => PoolsFit  BY DEF Ready
<1> QED BY <1>1, RoomHolds, PTL

\* The routes keep the ledger: seen from the committed tables alone, every step of every interleaving is
\* one whole booking, cancellation, reference, change or class, or no step.
THEOREM RoutesKeepTheLedger == Spec => KeepsTheLedger
<1>1. Init => Ledger!LedgerInit  BY DEF Init, Ledger!LedgerInit
<1>2. /\ TypeOK /\ ChecksHoldToTheEnd /\ Records /\ Complete /\ Ready
      /\ (TypeOK /\ ChecksHoldToTheEnd /\ Records /\ Complete /\ Ready)' /\ [Next]_vars
      => [Ledger!LedgerNext]_(Ledger!ledger)
  BY LedgerStep
<1> QED BY <1>1, <1>2, RoomHolds, FamiliesHold, PTL DEF Spec, KeepsTheLedger, Ledger!LedgerSpec
=============================================================================
