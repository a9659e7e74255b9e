------------------------- MODULE DailyLedgerProofs --------------------------
(***************************************************************************)
(* Proofs about DailyLedger, for every timetable, every set of absences,   *)
(* any number of requests at once and any dates: what a request may not    *)
(* touch, what the plans ahead agree with, and what leave shows.           *)
(***************************************************************************)
EXTENDS DailyLedger, FiniteSetTheorems, WellFoundedInduction, TLAPS
-----------------------------------------------------------------------------
(* A fold over a sequence of rows.  What holds of the first rows is carried *)
(* to the next by looking at the first row for which it fails.              *)

LEMMA SmallestNat ==
    ASSUME NEW T, T \subseteq Nat, T # {}
    PROVE  \E n \in T : \A m \in T : n <= m
<1> DEFINE R == {ss \in Nat \X Nat : ss[1] < ss[2]}
<1>1. IsWellFoundedOn(R, Nat)  BY NatLessThanWellFounded DEF OpToRel
<1> HIDE DEF R
<1>2. PICK n \in T : \A m \in T : ~ (<<m, n>> \in R)  BY <1>1, WFMin
<1>3. ASSUME NEW m \in T PROVE n <= m
  <2>1. m \in Nat /\ n \in Nat  OBVIOUS
  <2>2. m < n => <<m, n>> \in R  BY <2>1 DEF R
  <2>3. ~(m < n)  BY <1>2, <2>2
  <2> QED BY <2>1, <2>3
<1> QED BY <1>3

\* A set of numbers that has 0, and with each number below N the next, has all up to N.
LEMMA UpTo ==
    ASSUME NEW N \in Nat, NEW T, 0 \in T, \A n \in 0..N : n \in T /\ n < N => n + 1 \in T
    PROVE  \A n \in 0..N : n \in T
<1> DEFINE Missed == {n \in 0..N : n \notin T}
<1>1. SUFFICES ASSUME Missed # {} PROVE FALSE  OBVIOUS
<1>2. PICK n \in Missed : \A m \in Missed : n <= m
  <2>1. Missed \subseteq Nat  OBVIOUS
  <2> HIDE DEF Missed
  <2> QED BY <1>1, <2>1, SmallestNat
<1>3. n \in 0..N /\ n \notin T /\ n # 0  OBVIOUS
<1>4. n - 1 \in 0..N /\ n - 1 \notin Missed  BY <1>2, <1>3
<1> QED BY <1>3, <1>4

LEMMA MaxIs ==
    ASSUME NEW n \in Nat, NEW s, n \in s, \A m \in s : m \in Nat /\ m <= n
    PROVE  Max(s) = n
<1>1. \E x \in s : \A y \in s : x >= y  OBVIOUS
<1>2. Max(s) \in s /\ \A y \in s : Max(s) >= y  BY <1>1 DEF Max
<1>3. Max(s) \in Nat /\ Max(s) <= n /\ Max(s) >= n  BY <1>2
<1> QED BY <1>3

LEMMA MaxThere ==
    ASSUME NEW N \in Nat, NEW s \in SUBSET (1..N), s # {}
    PROVE  Max(s) \in s
<1> DEFINE T == {N - x : x \in s}
<1>1. T \subseteq Nat /\ T # {}
  <2>1. \A x \in s : x \in 1..N /\ N - x \in Nat  OBVIOUS
  <2> QED BY <2>1
<1>2. PICK n \in T : \A m \in T : n <= m
  <2> HIDE DEF T
  <2> QED BY <1>1, SmallestNat
<1>3. PICK x \in s : n = N - x  BY <1>2
<1>4. ASSUME NEW y \in s PROVE x >= y
  <2>1. N - y \in T /\ x \in Nat /\ y \in Nat  OBVIOUS
  <2>2. N - x <= N - y  BY <1>2, <1>3, <2>1
  <2> QED BY <2>1, <2>2
<1> QED BY <1>4 DEF Max

\* A step for every row and every value of V, and the fold it makes, over every set of rows.
IsStep(step, N, V) == step \in [(1..N) \X V -> V]

IsFold(g, N, V, base, step) ==
    /\ g \in [SUBSET (1..N) -> V]
    /\ g[{}] = base
    /\ \A s \in SUBSET (1..N) : s # {} => g[s] = step[<<Max(s), g[s \ {Max(s)}]>>]

LEMMA FoldDefined ==
    ASSUME NEW N \in Nat, NEW V, NEW base \in V, NEW step, IsStep(step, N, V)
    PROVE  \E g : IsFold(g, N, V, base, step)
<1> USE DEF IsStep
<1> DEFINE Fold(g, n) == /\ g \in [SUBSET (1..n) -> V] /\ g[{}] = base
                         /\ \A s \in SUBSET (1..n) :
                              s # {} => g[s] = step[<<Max(s), g[s \ {Max(s)}]>>]
           T == {n \in 0..N : \E g : Fold(g, n)}
<1>1. 0 \in T
  <2>1. SUBSET (1..0) = {{}}  OBVIOUS
  <2> DEFINE h == [s \in {{}} |-> base]
  <2>2. h \in [{{}} -> V] /\ h[{}] = base  OBVIOUS
  <2> HIDE DEF h
  <2>3. Fold(h, 0)  BY <2>1, <2>2
  <2>4. 0 \in 0..N  OBVIOUS
  <2> QED BY <2>3, <2>4
<1>2. ASSUME NEW n \in 0..N, n \in T, n < N PROVE n + 1 \in T
  <2>1. PICK g : Fold(g, n)  BY <1>2
  <2> DEFINE h == [s \in SUBSET (1..(n + 1)) |->
                     IF n + 1 \in s THEN step[<<n + 1, g[s \ {n + 1}]>>] ELSE g[s]]
  <2>2. ASSUME NEW s \in SUBSET (1..(n + 1)), n + 1 \in s
        PROVE  Max(s) = n + 1 /\ s \ {n + 1} \in SUBSET (1..n)
    <3>1. n + 1 \in Nat /\ \A m \in s : m \in Nat /\ m <= n + 1  OBVIOUS
    <3>2. Max(s) = n + 1  BY <2>2, <3>1, MaxIs
    <3> QED BY <3>2
  <2>3. ASSUME NEW s \in SUBSET (1..(n + 1)), n + 1 \notin s PROVE s \in SUBSET (1..n)
    BY <2>3
  <2>4. ASSUME NEW s \in SUBSET (1..(n + 1)) PROVE h[s] \in V
    <3>1. CASE n + 1 \in s
      <4>1. g[s \ {n + 1}] \in V  BY <2>1, <2>2, <3>1
      <4>2. n + 1 \in 1..N  BY <1>2
      <4>3. <<n + 1, g[s \ {n + 1}]>> \in (1..N) \X V  BY <4>1, <4>2
      <4> HIDE DEF Fold, T
      <4> QED BY <3>1, <4>3
    <3>2. CASE n + 1 \notin s  BY <2>1, <2>3, <3>2
    <3> QED BY <3>1, <3>2
  <2>5. h \in [SUBSET (1..(n + 1)) -> V]  BY <2>4
  <2>6. h[{}] = base  BY <2>1
  <2>7. ASSUME NEW s \in SUBSET (1..(n + 1)), s # {}
        PROVE  h[s] = step[<<Max(s), h[s \ {Max(s)}]>>]
    <3>1. CASE n + 1 \in s
      <4>1. Max(s) = n + 1 /\ s \ {n + 1} \in SUBSET (1..n)  BY <2>2, <3>1
      <4>2. s \ {n + 1} \in SUBSET (1..(n + 1)) /\ n + 1 \notin s \ {n + 1}  OBVIOUS
      <4>3. h[s \ {n + 1}] = g[s \ {n + 1}]  BY <4>2
      <4>4. h[s] = step[<<n + 1, g[s \ {n + 1}]>>]  BY <3>1
      <4> QED BY <4>1, <4>3, <4>4
    <3>2. CASE n + 1 \notin s
      <4> DEFINE m == Max(s)
      <4>1. s \in SUBSET (1..n)  BY <2>3, <3>2
      <4>2. g[s] = step[<<m, g[s \ {m}]>>]  BY <2>1, <2>7, <4>1
      <4> HIDE DEF m
      <4>3. s \ {m} \in SUBSET (1..(n + 1)) /\ n + 1 \notin s \ {m}  BY <3>2
      <4>4. h[s \ {m}] = g[s \ {m}]  BY <4>3
      <4>5. h[s] = g[s]  BY <3>2
      <4> QED BY <4>2, <4>4, <4>5 DEF m
    <3> QED BY <3>1, <3>2
  <2> HIDE DEF h
  <2>8. Fold(h, n + 1)  BY <2>5, <2>6, <2>7
  <2>9. n + 1 \in 0..N  BY <1>2
  <2> QED BY <2>8, <2>9
<1>3. N \in T
  <2> HIDE DEF T
  <2> QED BY <1>1, <1>2, UpTo
<1>4. PICK g : Fold(g, N)  BY <1>3
<1> QED BY <1>4 DEF IsFold

\* The sets a fold over 1..N goes through.
LEMMA Prefix ==
    ASSUME NEW N \in Nat, NEW n \in 0..N, n < N
    PROVE  /\ 1..n \in SUBSET (1..N) /\ 1..(n + 1) \in SUBSET (1..N) /\ 1..(n + 1) # {}
           /\ Max(1..(n + 1)) = n + 1 /\ (1..(n + 1)) \ {n + 1} = 1..n
<1>1. n + 1 \in Nat /\ n + 1 \in 1..(n + 1) /\ \A m \in 1..(n + 1) : m \in Nat /\ m <= n + 1  OBVIOUS
<1>2. Max(1..(n + 1)) = n + 1
  <2> DEFINE s == 1..(n + 1)
  <2>1. n + 1 \in s /\ \A m \in s : m \in Nat /\ m <= n + 1  BY <1>1
  <2> HIDE DEF s
  <2>2. Max(s) = n + 1  BY <1>1, <2>1, MaxIs
  <2> QED BY <2>2 DEF s
<1> QED BY <1>1, <1>2

-----------------------------------------------------------------------------
(* The two folds of the module.                                             *)

\* The rows of a batch, one after another, on the days there are.
Stored(w) ==
    FoldLeft(LAMBDA ds, row : IF Insertable(ds, row)
                                THEN [ds EXCEPT ![<<row.slot, row.date>>] = NewDay(row)]
                                ELSE ds,
             days, w)

\* What is in the table once one more row was tried.
Tried(ds, row) == IF Insertable(ds, row) THEN [ds EXCEPT ![<<row.slot, row.date>>] = NewDay(row)] ELSE ds

LEMMA StoredByRow ==
    ASSUME NEW N \in Nat, NEW w, DOMAIN w = 1..N, days \in [Keys -> Range(days)]
    PROVE  \E f : /\ f[0] = days /\ Stored(w) = f[N]
                  /\ \A n \in 0..N : DOMAIN f[n] = Keys /\ f[n] = [k \in Keys |-> f[n][k]]
                  /\ \A n \in 0..N : n < N => f[n + 1] = Tried(f[n], w[n + 1])
<1> DEFINE V == [Keys -> Range(days) \cup {NewDay(w[n]) : n \in 1..N}]
           step == [p \in (1..N) \X V |-> Tried(p[2], w[p[1]])]
<1>1. days \in V  OBVIOUS
<1>2. ASSUME NEW n \in 1..N, NEW ds \in V PROVE Tried(ds, w[n]) \in V
  BY DEF Tried
<1>3. step \in [(1..N) \X V -> V]  BY <1>2
<1>4. \A n \in 1..N, ds \in V : step[<<n, ds>>] = Tried(ds, w[n])  OBVIOUS
<1>5. \A ds \in V : DOMAIN ds = Keys /\ ds = [k \in Keys |-> ds[k]]  OBVIOUS
<1> HIDE DEF V, step
<1>6. PICK g : IsFold(g, N, V, days, step)  BY <1>1, <1>3, FoldDefined DEF IsStep
<1>7. g = [s \in SUBSET DOMAIN w |-> IF s = {} THEN days ELSE LET x == Max(s) IN Tried(g[s \ {x}], w[x])]
  <2>1. ASSUME NEW s \in SUBSET (1..N), s # {}
        PROVE  step[<<Max(s), g[s \ {Max(s)}]>>] = Tried(g[s \ {Max(s)}], w[Max(s)])
    <3>1. Max(s) \in s  BY <2>1, MaxThere
    <3>2. Max(s) \in 1..N /\ s \ {Max(s)} \in SUBSET (1..N)  BY <3>1
    <3>3. g[s \ {Max(s)}] \in V  BY <1>6, <3>2 DEF IsFold
    <3> QED BY <1>4, <3>2, <3>3
  <2> QED BY <1>6, <2>1 DEF IsFold
<1> DEFINE it == CHOOSE h : h = [s \in SUBSET DOMAIN w |->
                                   IF s = {} THEN days ELSE LET x == Max(s) IN Tried(h[s \ {x}], w[x])]
<1>8. it = [s \in SUBSET DOMAIN w |-> IF s = {} THEN days ELSE LET x == Max(s) IN Tried(it[s \ {x}], w[x])]
  BY <1>7
<1>9. Stored(w) = it[DOMAIN w]  BY DEF Stored, Tried, FoldLeft, MapThenFoldSet
<1> HIDE DEF it
<1> DEFINE f == [n \in 0..N |-> it[1..n]]
<1>10. it[{}] = days /\ 1..0 = {}  BY <1>8
<1>11. ASSUME NEW n \in 0..N, n < N PROVE it[1..(n + 1)] = Tried(it[1..n], w[n + 1])
  <2> DEFINE s == 1..(n + 1)
  <2>1. s \in SUBSET DOMAIN w /\ s # {} /\ Max(s) = n + 1 /\ s \ {n + 1} = 1..n  BY <1>11, Prefix
  <2> HIDE DEF s
  <2>2. it[s] = Tried(it[s \ {Max(s)}], w[Max(s)])  BY <1>8, <2>1
  <2> QED BY <2>1, <2>2 DEF s
<1>12. \A n \in 0..N : it[1..n] \in V
  <2> DEFINE T == {n \in 0..N : it[1..n] \in V}
  <2>1. 0 \in T  BY <1>1, <1>10
  <2>2. ASSUME NEW n \in 0..N, n \in T, n < N PROVE n + 1 \in T
    <3>1. n + 1 \in 1..N /\ n + 1 \in 0..N  BY <2>2
    <3> QED BY <1>2, <1>11, <2>2, <3>1
  <2> HIDE DEF T
  <2>3. \A n \in 0..N : n \in T  BY <2>1, <2>2, UpTo
  <2> QED BY <2>3 DEF T
<1>13. f[0] = days /\ Stored(w) = f[N]  BY <1>9, <1>10
<1>14. \A n \in 0..N : DOMAIN f[n] = Keys /\ f[n] = [k \in Keys |-> f[n][k]]  BY <1>5, <1>12
<1>15. ASSUME NEW n \in 0..N, n < N PROVE f[n + 1] = Tried(f[n], w[n + 1])
  <2>1. n + 1 \in 0..N  BY <1>15
  <2> QED BY <1>11, <1>15, <2>1
<1> HIDE DEF f
<1> QED BY <1>13, <1>14, <1>15
-----------------------------------------------------------------------------
(* The order of the rows to write.                                          *)

\* A key has, in any set of keys, as many before it as its place in the list.
Rank(ks, k) == Cardinality({j \in ks : Before(j, k)})

LEMMA KeysFinite == IsFiniteSet(Keys)
<1>1. IsFiniteSet(Slots) /\ LastDate \in Nat  BY LedgerAssumption
<1>2. IsFiniteSet(Dates)  BY <1>1, FS_Interval DEF Dates
<1> QED BY <1>1, <1>2, FS_Product DEF Keys

LEMMA BeforeIsAnOrder ==
    ASSUME NEW i \in Keys, NEW j \in Keys, NEW k \in Keys
    PROVE  /\ ~Before(k, k)
           /\ Before(i, j) /\ Before(j, k) => Before(i, k)
           /\ j # k => Before(j, k) \/ Before(k, j)
<1>1. ASSUME NEW x \in Keys PROVE x[1] \in Nat /\ x[2] \in Nat /\ x = <<x[1], x[2]>>
  <2>1. x[1] \in Slots /\ x[2] \in 0..LastDate /\ x = <<x[1], x[2]>>  BY DEF Keys, Dates
  <2> QED BY <2>1, LedgerAssumption
<1>2. /\ i[1] \in Nat /\ i[2] \in Nat /\ i = <<i[1], i[2]>>
      /\ j[1] \in Nat /\ j[2] \in Nat /\ j = <<j[1], j[2]>>
      /\ k[1] \in Nat /\ k[2] \in Nat /\ k = <<k[1], k[2]>>
  BY <1>1
<1> QED BY <1>2 DEF Before

LEMMA RankBelow ==
    ASSUME NEW ks \in SUBSET Keys, NEW k \in ks
    PROVE  Rank(ks, k) \in 0..(Cardinality(ks) - 1)
<1> DEFINE S == {j \in ks : Before(j, k)}
<1>1. IsFiniteSet(ks)  BY KeysFinite, FS_Subset
<1>2. S \in SUBSET ks /\ k \notin S  BY BeforeIsAnOrder
<1> HIDE DEF S
<1>3. IsFiniteSet(S) /\ Cardinality(S) <= Cardinality(ks) /\ Cardinality(S) # Cardinality(ks)
  BY <1>1, <1>2, FS_Subset
<1>4. Cardinality(S) \in Nat /\ Cardinality(ks) \in Nat  BY <1>1, <1>3, FS_CardinalityType
<1>5. Cardinality(S) \in 0..(Cardinality(ks) - 1)  BY <1>3, <1>4
<1> QED BY <1>5 DEF Rank, S

LEMMA RankTells ==
    ASSUME NEW ks \in SUBSET Keys, NEW j \in ks, NEW k \in ks, Before(j, k)
    PROVE  Rank(ks, j) # Rank(ks, k)
<1> DEFINE S == {i \in ks : Before(i, j)}
           T == {i \in ks : Before(i, k)}
<1>1. j \in Keys /\ k \in Keys  OBVIOUS
<1>2. S \subseteq T
  <2>1. ASSUME NEW i \in ks, Before(i, j) PROVE Before(i, k)
    <3>1. i \in Keys  OBVIOUS
    <3> QED BY <1>1, <2>1, <3>1, BeforeIsAnOrder
  <2> QED BY <2>1
<1>3. j \in T /\ j \notin S  BY <1>1, BeforeIsAnOrder
<1>4. IsFiniteSet(ks)  BY KeysFinite, FS_Subset
<1>5. T \in SUBSET ks  OBVIOUS
<1> HIDE DEF S, T
<1>6. IsFiniteSet(T)  BY <1>4, <1>5, FS_Subset
<1>7. S \in SUBSET T /\ S # T  BY <1>2, <1>3
<1>8. Cardinality(S) # Cardinality(T)  BY <1>6, <1>7, FS_Subset
<1> QED BY <1>8 DEF Rank, S, T

\* The list has each key of the set: one for each place.
LEMMA InOrderLists ==
    ASSUME NEW ks \in SUBSET Keys
    PROVE  /\ Cardinality(ks) \in Nat
           /\ InOrder(ks) \in [1..Cardinality(ks) -> ks]
<1> DEFINE N == Cardinality(ks)
           f == [k \in ks |-> Rank(ks, k)]
<1>1. IsFiniteSet(ks)  BY KeysFinite, FS_Subset
<1>2. N \in Nat  BY <1>1, FS_CardinalityType
<1> DEFINE T == 0..(N - 1)
<1>3. IsFiniteSet(T) /\ Cardinality(T) = N
  <2>1. IsFiniteSet(0..(N - 1)) /\ Cardinality(0..(N - 1)) = IF 0 <= N - 1 THEN (N - 1) - 0 + 1 ELSE 0
    BY <1>2, FS_Interval
  <2> QED BY <1>2, <2>1
<1>4. f \in [ks -> T]  BY RankBelow
<1>5. \A j, k \in ks : j # k => f[j] # f[k]
  <2>1. ASSUME NEW j \in ks, NEW k \in ks, j # k PROVE f[j] # f[k]
    <3>1. j \in Keys /\ k \in Keys  OBVIOUS
    <3>2. Before(j, k) \/ Before(k, j)  BY <2>1, <3>1, BeforeIsAnOrder
    <3>3. Rank(ks, j) # Rank(ks, k)  BY <3>2, RankTells
    <3> QED BY <3>3
  <2> QED BY <2>1
<1> HIDE DEF T
<1>6. f \in Injection(ks, T)  BY <1>4, <1>5 DEF Injection, IsInjective
<1> HIDE DEF f
<1>7. f \in Surjection(ks, T)  BY <1>3, <1>6, FS_Injection
<1>8. ASSUME NEW n \in 1..N PROVE \E k \in ks : Rank(ks, k) = n - 1
  <2>1. n - 1 \in T  BY <1>2 DEF T
  <2>2. \E k \in ks : f[k] = n - 1  BY <1>7, <2>1 DEF Surjection
  <2> QED BY <2>2 DEF f
<1>9. InOrder(ks) = [n \in 1..N |-> CHOOSE k \in ks : Rank(ks, k) = n - 1]  BY DEF InOrder, Rank
<1>10. InOrder(ks) \in [1..N -> ks]  BY <1>8, <1>9
<1> QED BY <1>2, <1>10
-----------------------------------------------------------------------------
(* The types.                                                               *)

Plan == [slot : Slots, date : Dates, place : Places \cup {NULL}, lead : Leads \cup {NULL},
         state : States]
Slot == [at : {"none", "live", "retired", "gone"}, place : Places \cup {NULL},
         lead : Leads \cup {NULL}, rule : SUBSET Dates]
RowId == Keys \X Nat
Move == [id : RowId, place : Places \cup {NULL}, lead : Leads \cup {NULL}]
Request == [op : {"none", "fill", "create", "created", "change", "end", "close", "open"},
            slot : Slots \cup {NULL}, was : Slot, to : Slot, write : Seq(Plan),
            move : SUBSET Move, drop : SUBSET RowId, seen : SUBSET RowId, records : SUBSET RowId]

TypeOK ==
    /\ today \in Dates /\ open \in BOOLEAN /\ ended \in BOOLEAN
    /\ slots \in [Slots -> Slot]
    /\ days \in [Keys -> Day \cup {NULL}]
    /\ laid \in [Keys -> Nat]
    /\ absence \in [Absences -> {"none", "pending", "approved", "denied"}]
    /\ tx \in [Requests -> Request]
    /\ made \in Nat

LEMMA PlanTyped ==
    ASSUME slots \in [Slots -> Slot], NEW k \in Keys
    PROVE  DayFields(k[1], k[2]) \in Plan
<1>1. k[1] \in Slots /\ k[2] \in Dates  BY DEF Keys
<1>2. slots[k[1]].place \in Places \cup {NULL} /\ slots[k[1]].lead \in Leads \cup {NULL}
  BY <1>1 DEF Slot
<1> QED BY <1>1, <1>2 DEF DayFields, Plan, States

\* The plan for one more date is kept, or not.
Kept(kept, k) == LET row == DayFields(k[1], k[2]) IN IF Fits(kept, row) THEN Append(kept, row) ELSE kept

\* What the generator writes is a list of plans.
LEMMA PlansKept ==
    ASSUME NEW N \in Nat, NEW ks \in [1..N -> Keys], slots \in [Slots -> Slot]
    PROVE  WithoutOverlaps(ks) \in Seq(Plan)
<1> DEFINE V == Seq(Plan)
           step == [p \in (1..N) \X V |-> Kept(p[2], ks[p[1]])]
           base == <<>>
<1>1. base \in V  OBVIOUS
<1>2. ASSUME NEW n \in 1..N, NEW kept \in V PROVE Kept(kept, ks[n]) \in V
  <2>1. DayFields(ks[n][1], ks[n][2]) \in Plan  BY PlanTyped
  <2> QED BY <2>1 DEF Kept
<1>3. step \in [(1..N) \X V -> V]  BY <1>2
<1>4. \A n \in 1..N, kept \in V : step[<<n, kept>>] = Kept(kept, ks[n])  OBVIOUS
<1>5. DOMAIN ks = 1..N  OBVIOUS
<1> HIDE DEF V, step, base
<1>6. PICK g : IsFold(g, N, V, base, step)  BY <1>1, <1>3, FoldDefined DEF IsStep
<1>7. g = [s \in SUBSET DOMAIN ks |-> IF s = {} THEN base ELSE LET x == Max(s) IN Kept(g[s \ {x}], ks[x])]
  <2>1. ASSUME NEW s \in SUBSET (1..N), s # {}
        PROVE  step[<<Max(s), g[s \ {Max(s)}]>>] = Kept(g[s \ {Max(s)}], ks[Max(s)])
    <3>1. Max(s) \in s  BY <2>1, MaxThere
    <3>2. Max(s) \in 1..N /\ s \ {Max(s)} \in SUBSET (1..N)  BY <3>1
    <3>3. g[s \ {Max(s)}] \in V  BY <1>6, <3>2 DEF IsFold
    <3> QED BY <1>4, <3>2, <3>3
  <2> QED BY <1>5, <1>6, <2>1 DEF IsFold
<1> DEFINE it == CHOOSE h : h = [s \in SUBSET DOMAIN ks |->
                                   IF s = {} THEN base ELSE LET x == Max(s) IN Kept(h[s \ {x}], ks[x])]
<1>8. it = [s \in SUBSET DOMAIN ks |-> IF s = {} THEN base ELSE LET x == Max(s) IN Kept(it[s \ {x}], ks[x])]
  BY <1>7
<1>9. WithoutOverlaps(ks) = it[DOMAIN ks]  BY DEF WithoutOverlaps, Kept, FoldLeft, MapThenFoldSet, base
<1> HIDE DEF it
<1>10. it[{}] = base /\ 1..0 = {}  BY <1>8
<1>11. ASSUME NEW n \in 0..N, n < N PROVE it[1..(n + 1)] = Kept(it[1..n], ks[n + 1])
  <2> DEFINE s == 1..(n + 1)
  <2>1. s \in SUBSET DOMAIN ks /\ s # {} /\ Max(s) = n + 1 /\ s \ {n + 1} = 1..n
    BY <1>5, <1>11, Prefix
  <2> HIDE DEF s
  <2>2. it[s] = Kept(it[s \ {Max(s)}], ks[Max(s)])  BY <1>8, <2>1
  <2> QED BY <2>1, <2>2 DEF s
<1> DEFINE T == {n \in 0..N : it[1..n] \in V}
<1>12. 0 \in T  BY <1>1, <1>10
<1>13. ASSUME NEW n \in 0..N, n \in T, n < N PROVE n + 1 \in T
  <2>1. n + 1 \in 1..N /\ n + 1 \in 0..N  BY <1>13
  <2> QED BY <1>2, <1>11, <1>13, <2>1
<1> HIDE DEF T
<1>14. \A n \in 0..N : n \in T  BY <1>12, <1>13, UpTo
<1>15. it[1..N] \in V  BY <1>14 DEF T
<1> QED BY <1>5, <1>9, <1>15 DEF V

LEMMA WritesPlans ==
    ASSUME slots \in [Slots -> Slot], NEW window
    PROVE  WithoutOverlaps(Missing(window)) \in Seq(Plan)
<1> DEFINE ks == {k \in Keys : open /\ k[1] \in Live /\ k[2] \in window \cap slots[k[1]].rule
                               /\ (days[k] = NULL \/ ~days[k].attached)}
<1>1. ks \in SUBSET Keys  OBVIOUS
<1>2. Missing(window) = InOrder(ks)  BY DEF Missing
<1> HIDE DEF ks
<1>3. Cardinality(ks) \in Nat /\ InOrder(ks) \in [1..Cardinality(ks) -> ks]  BY <1>1, InOrderLists
<1>4. InOrder(ks) \in [1..Cardinality(ks) -> Keys]  BY <1>1, <1>3
<1> QED BY <1>2, <1>3, <1>4, PlansKept
-----------------------------------------------------------------------------
(* The invariant.                                                           *)

\* A row the promise is about: nobody uses it, and it was not written meanwhile.
IsPlan(k) == days[k] # NULL /\ days[k].used = "no" /\ ~days[k].excused

\* What a request removes or writes was no record when it read.
Spares(x) == x.records \cap x.drop = {} /\ \A c \in x.move : c.id \notin x.records

\* A row that was read is of then or earlier.
ReadEarlier(x) == \A id \in x.seen : id[2] <= laid[id[1]]

\* What a correction writes in a column: what the slot is to say, if it is to change.
Corrects(c, was, to) ==
    /\ c.place \in {NULL, to.place} /\ (to.place = was.place => c.place = NULL)
    /\ c.lead \in {NULL, to.lead} /\ (to.lead = was.lead => c.lead = NULL)

\* A day read of a class that changes: the plan is removed, or follows.
Followed(x, k) ==
    /\ k[2] >= today /\ x.to.at # "live" => Id(k) \in x.drop
    /\ k[2] > today =>
         \/ Id(k) \in x.drop
         \/ /\ x.to.rule = x.was.rule
            /\ x.to.place # x.was.place => \E c \in x.move : c.id = Id(k) /\ c.place = x.to.place
            /\ x.to.lead # x.was.lead => \E c \in x.move : c.id = Id(k) /\ c.lead = x.to.lead
            /\ \A c \in x.move : c.id = Id(k) => Corrects(c, x.was, x.to)

Changes(x) ==
    x.op = "change" =>
        /\ x.slot \in Slots /\ x.was.at = "live"
        /\ x.to.at = "live" => x.to \in Shapes
        /\ \A c \in x.move : c.id[1][1] = x.slot
        /\ \A k \in Keys : IsPlan(k) /\ k[1] = x.slot /\ Id(k) \in x.seen => Followed(x, k)

\* Ending the activity or closing the cycle removes every plan that was read.
Ends(x) ==
    x.op \in {"end", "close"} =>
        /\ x.slot = NULL /\ x.move = {} /\ x.to = NoSlot
        /\ \A k \in Keys : IsPlan(k) /\ k[2] >= today /\ Id(k) \in x.seen => Id(k) \in x.drop

Creates(x) == x.op = "create" => x.slot \in Slots /\ x.to \in Shapes

RequestOK(x) == Spares(x) /\ ReadEarlier(x) /\ Changes(x) /\ Ends(x) /\ Creates(x)

RequestsOK == \A x \in Request : (\E r \in Requests : tx[r] = x) => RequestOK(x)

LedgerInv ==
    /\ TypeOK /\ RequestsOK
    /\ PlansFollowTheSlot /\ RetiredHoldNothing /\ LeaveShows
-----------------------------------------------------------------------------
(* Types are kept.                                                          *)

LEMMA RowTyped ==
    ASSUME TypeOK, NEW k \in Keys
    PROVE  /\ k \in Rows <=> days[k] # NULL
           /\ days[k] # NULL <=> days[k] \in Day
           /\ k[1] \in Slots /\ k[2] \in Dates /\ k[2] \in Int /\ k = <<k[1], k[2]>>
           /\ Id(k) \in RowId /\ Id(k)[1] = k /\ Id(k)[2] = laid[k] /\ laid[k] \in Nat
<1>1. k[1] \in Slots /\ k[2] \in Dates /\ k = <<k[1], k[2]>>  BY DEF Keys
<1>2. NULL \notin Day  BY LedgerAssumption
<1>3. days[k] \in Day \cup {NULL} /\ laid[k] \in Nat  BY DEF TypeOK
<1>4. k[2] \in Int  BY <1>1, LedgerAssumption DEF Dates
<1> QED BY <1>1, <1>2, <1>3, <1>4 DEF Rows, Id, RowId

LEMMA RowsAreKeys ==
    ASSUME TypeOK, NEW k \in Rows
    PROVE  k \in Keys /\ days[k] # NULL /\ days[k] \in Day
<1>1. k \in Keys /\ days[k] # NULL  BY DEF Rows
<1> QED BY <1>1, RowTyped

LEMMA TodayInt == ASSUME TypeOK PROVE today \in Int /\ today \in Nat /\ LastDate \in Nat /\ Horizon \in Nat
BY LedgerAssumption DEF TypeOK, Dates

LEMMA IdsTyped ==
    ASSUME TypeOK, NEW S, S \subseteq Keys
    PROVE  {Id(k) : k \in S} \in SUBSET RowId
<1>1. ASSUME NEW k \in S PROVE Id(k) \in RowId
  <2>1. k \in Keys  OBVIOUS
  <2> QED BY <2>1, RowTyped
<1> QED BY <1>1

LEMMA NoSlotTyped == NoSlot \in Slot
BY DEF NoSlot, Slot

LEMMA ShapeTyped ==
    ASSUME NEW new \in Shapes
    PROVE  /\ new \in Slot /\ new.at = "live" /\ new.place \in Places /\ new.lead \in Leads
           /\ new.place # NULL /\ new.lead # NULL
<1>1. new \in [at : {"live"}, place : Places, lead : Leads, rule : SUBSET Dates]  BY LedgerAssumption
<1> QED BY <1>1, LedgerAssumption DEF Slot

LEMMA IdleTyped == Idle \in Request
BY NoSlotTyped DEF Idle, Request

LEMMA ReadsTyped ==
    ASSUME TypeOK, NEW r \in Requests, NEW x \in Request, Reads(r, x)
    PROVE  TypeOK'
<1>1. {Id(k) : k \in Rows} \in SUBSET RowId  BY IdsTyped DEF Rows
<1>2. {Id(k) : k \in Records} \in SUBSET RowId  BY IdsTyped DEF Rows, Records
<1> DEFINE s == {Id(k) : k \in Rows}
           c == {Id(k) : k \in Records}
           y == [x EXCEPT !.seen = s, !.records = c]
<1>3. tx' = [tx EXCEPT ![r] = y] /\ made' = made + 1
      /\ UNCHANGED <<today, open, ended, slots, days, laid, absence>>  BY DEF Reads
<1>4. s \in SUBSET RowId /\ c \in SUBSET RowId  BY <1>1, <1>2
<1> HIDE DEF s, c
<1>5. y \in Request  BY <1>4 DEF Request
<1> HIDE DEF y
<1> QED BY <1>3, <1>5 DEF TypeOK

LEMMA CorrectionsTyped ==
    ASSUME TypeOK, NEW ks \in SUBSET Rows, NEW new \in Shapes
    PROVE  Corrections(ks, new) \in SUBSET Move
<1>1. ASSUME NEW k \in ks
      PROVE  [id |-> Id(k), place |-> IF days[k].place # new.place THEN new.place ELSE NULL,
              lead |-> IF days[k].lead # new.lead THEN new.lead ELSE NULL] \in Move
  <2>1. k \in Rows /\ k \in Keys  BY DEF Rows
  <2>2. Id(k) \in RowId  BY <2>1, RowTyped
  <2> QED BY <2>2, ShapeTyped DEF Move
<1> QED BY <1>1 DEF Corrections

LEMMA AheadRows == ASSUME NEW s, NEW from PROVE Ahead(s, from) \subseteq Rows /\ Ahead(s, from) \subseteq Keys
BY DEF Ahead, Rows

-----------------------------------------------------------------------------
(* What is stored, and what is committed, key by key.                       *)

LEMMA WriteIs ==
    ASSUME TypeOK, NEW r \in Requests
    PROVE  /\ tx[r].write \in Seq(Plan) /\ Len(tx[r].write) \in Nat
           /\ DOMAIN tx[r].write = 1..Len(tx[r].write)
           /\ \A n \in 1..Len(tx[r].write) : tx[r].write[n] \in Plan
<1>1. tx[r].write \in Seq(Plan)  BY DEF TypeOK, Request
<1> DEFINE w == tx[r].write
<1> HIDE DEF w
<1>2. w \in Seq(Plan)  BY <1>1 DEF w
<1>3. Len(w) \in Nat /\ DOMAIN w = 1..Len(w) /\ \A n \in 1..Len(w) : w[n] \in Plan  BY <1>2
<1> QED BY <1>2, <1>3 DEF w

LEMMA NewDayTyped ==
    ASSUME NEW row \in Plan
    PROVE  /\ NewDay(row) \in Day /\ NewDay(row) # NULL /\ <<row.slot, row.date>> \in Keys
           /\ NewDay(row).used = "no" /\ NewDay(row).attached
           /\ ~NewDay(row).excused => StillSo(row)
           /\ NewDay(row).place = row.place /\ NewDay(row).lead = row.lead
           /\ NewDay(row).state = row.state
<1>1. StillSo(row) \in BOOLEAN  BY DEF StillSo
<1>2. /\ row.place \in Places \cup {NULL} /\ row.lead \in Leads \cup {NULL}
      /\ row.slot \in Slots /\ row.date \in Dates /\ row.state \in States
  BY DEF Plan
<1>3. NewDay(row) \in Day  BY <1>1, <1>2 DEF NewDay, Day
<1>4. NewDay(row) # NULL  BY <1>3, LedgerAssumption
<1> QED BY <1>2, <1>3, <1>4 DEF NewDay, Keys

\* A key has the row it had, or none and then a new one of the batch.
StoredAs(d, w, k) ==
    \/ d = days[k]
    \/ /\ days[k] = NULL
       /\ \E n \in DOMAIN w : k = <<w[n].slot, w[n].date>> /\ d = NewDay(w[n])

LEMMA StoredRows ==
    ASSUME TypeOK, NEW r \in Requests
    PROVE  /\ Stored(tx[r].write) = [k \in Keys |-> Stored(tx[r].write)[k]]
           /\ \A k \in Keys : StoredAs(Stored(tx[r].write)[k], tx[r].write, k)
<1> DEFINE w == tx[r].write
           N == Len(w)
<1>1. N \in Nat /\ DOMAIN w = 1..N /\ \A n \in 1..N : w[n] \in Plan  BY WriteIs
<1>2. days \in [Keys -> Range(days)]  BY DEF TypeOK, Range
<1> HIDE DEF w, N
<1>3. PICK f : /\ f[0] = days /\ Stored(w) = f[N]
               /\ \A n \in 0..N : DOMAIN f[n] = Keys /\ f[n] = [k \in Keys |-> f[n][k]]
               /\ \A n \in 0..N : n < N => f[n + 1] = Tried(f[n], w[n + 1])
  BY <1>1, <1>2, StoredByRow
<1> DEFINE T == {n \in 0..N : \A k \in Keys : StoredAs(f[n][k], w, k)}
<1>4. 0 \in T  BY <1>1, <1>3 DEF StoredAs
<1>5. ASSUME NEW n \in 0..N, n \in T, n < N PROVE n + 1 \in T
  <2>1. n + 1 \in 1..N /\ n + 1 \in 0..N /\ w[n + 1] \in Plan  BY <1>1, <1>5
  <2> DEFINE row == w[n + 1]
  <2>2. f[n + 1] = Tried(f[n], row) /\ DOMAIN f[n] = Keys  BY <1>3, <1>5
  <2>3. <<row.slot, row.date>> \in Keys  BY <2>1, NewDayTyped
  <2>4. n + 1 \in DOMAIN w  BY <1>1, <2>1
  <2>5. \A k \in Keys : StoredAs(f[n][k], w, k)  BY <1>5
  <2>6. ASSUME NEW k \in Keys PROVE StoredAs(f[n + 1][k], w, k)
    <3>1. CASE f[n + 1][k] = f[n][k]  BY <2>5, <3>1
    <3>2. CASE f[n + 1][k] # f[n][k]
      <4>1. Insertable(f[n], row) /\ f[n + 1] = [f[n] EXCEPT ![<<row.slot, row.date>>] = NewDay(row)]
        BY <2>2, <3>2 DEF Tried
      <4>2. k = <<row.slot, row.date>> /\ f[n + 1][k] = NewDay(row)  BY <2>2, <2>3, <3>2, <4>1
      <4>3. f[n][k] = NULL  BY <4>1, <4>2 DEF Insertable
      <4>4. StoredAs(f[n][k], w, k)  BY <2>5
      <4>5. \A m \in DOMAIN w : NewDay(w[m]) # NULL  BY <1>1, NewDayTyped
      <4>6. days[k] = NULL  BY <4>3, <4>4, <4>5 DEF StoredAs
      <4> QED BY <2>4, <4>2, <4>6 DEF StoredAs
    <3> QED BY <3>1, <3>2
  <2> QED BY <2>1, <2>6
<1> HIDE DEF T
<1>6. \A n \in 0..N : n \in T  BY <1>1, <1>4, <1>5, UpTo
<1>7. N \in 0..N  BY <1>1
<1>8. \A k \in Keys : StoredAs(f[N][k], w, k)  BY <1>6, <1>7 DEF T
<1> QED BY <1>3, <1>7, <1>8 DEF w

\* A column, with what the corrections of the row say.
Put(old, cs) == IF \E c \in cs : c # NULL THEN CHOOSE c \in cs : c # NULL ELSE old
New(r, k) == {c \in tx[r].move : c.id = Id(k)}
Mine(r, k) == tx[r].slot = NULL \/ k[1] = tx[r].slot

LEMMA CommittedRow ==
    ASSUME TypeOK, NEW r \in Requests, NEW k \in Keys
    PROVE  /\ DOMAIN Committed(r) = Keys
           /\ days[k] = NULL \/ Id(k) \in tx[r].drop => Committed(r)[k] = NULL
           /\ days[k] # NULL /\ Id(k) \notin tx[r].drop =>
                /\ Committed(r)[k] \in Day
                /\ Committed(r)[k].state = days[k].state /\ Committed(r)[k].used = days[k].used
                /\ Committed(r)[k].place = Put(days[k].place, {c.place : c \in New(r, k)})
                /\ Committed(r)[k].lead = Put(days[k].lead, {c.lead : c \in New(r, k)})
                /\ ~Committed(r)[k].excused =>
                     ~days[k].excused /\ (Mine(r, k) => Id(k) \in tx[r].seen)
                /\ Committed(r)[k].attached = (days[k].attached /\ ~(Mine(r, k) /\ tx[r].to.at = "gone"))
                /\ ~Committed(r)[k].handed =>
                     ~days[k].handed /\ Committed(r)[k].lead = days[k].lead
<1>1. Committed(r) = [i \in Keys |->
         IF days[i] = NULL \/ Id(i) \in tx[r].drop THEN NULL
         ELSE [days[i] EXCEPT !.excused = @ \/ (Mine(r, i) /\ Id(i) \notin tx[r].seen),
                              !.attached = @ /\ ~(Mine(r, i) /\ tx[r].to.at = "gone"),
                              !.place = Put(@, {c.place : c \in New(r, i)}),
                              !.lead = Put(days[i].lead, {c.lead : c \in New(r, i)}),
                              !.handed = @ \/ Put(days[i].lead, {c.lead : c \in New(r, i)}) # days[i].lead]]
  BY DEF Committed, Mine, New, Put
<1>2. days[k] = NULL \/ Id(k) \in tx[r].drop => Committed(r)[k] = NULL  BY <1>1
<1>3. ASSUME days[k] # NULL, Id(k) \notin tx[r].drop
      PROVE  /\ Committed(r)[k] \in Day
             /\ Committed(r)[k].state = days[k].state /\ Committed(r)[k].used = days[k].used
             /\ Committed(r)[k].place = Put(days[k].place, {c.place : c \in New(r, k)})
             /\ Committed(r)[k].lead = Put(days[k].lead, {c.lead : c \in New(r, k)})
             /\ ~Committed(r)[k].excused =>
                  ~days[k].excused /\ (Mine(r, k) => Id(k) \in tx[r].seen)
             /\ Committed(r)[k].attached = (days[k].attached /\ ~(Mine(r, k) /\ tx[r].to.at = "gone"))
             /\ ~Committed(r)[k].handed =>
                  ~days[k].handed /\ Committed(r)[k].lead = days[k].lead
  <2> DEFINE place == Put(days[k].place, {c.place : c \in New(r, k)})
             lead == Put(days[k].lead, {c.lead : c \in New(r, k)})
             mine == Mine(r, k) /\ Id(k) \notin tx[r].seen
             gone == Mine(r, k) /\ tx[r].to.at = "gone"
             old == days[k]
  <2>1. old \in Day  BY <1>3, RowTyped
  <2>2. New(r, k) \subseteq Move  BY DEF New, TypeOK, Request
  <2>3. place \in Places \cup {NULL}  BY <2>1, <2>2 DEF Put, Move, Day
  <2>4. lead \in Leads \cup {NULL}  BY <2>1, <2>2 DEF Put, Move, Day
  <2>5. mine \in BOOLEAN /\ gone \in BOOLEAN  BY DEF Mine
  <2>6. Committed(r)[k] = [old EXCEPT !.excused = @ \/ mine, !.attached = @ /\ ~gone, !.place = place,
                                      !.lead = lead, !.handed = @ \/ lead # old.lead]
    BY <1>1, <1>3
  <2> HIDE DEF place, lead, mine, gone, old
  <2>7. /\ Committed(r)[k] \in Day
        /\ Committed(r)[k].state = old.state /\ Committed(r)[k].used = old.used
        /\ Committed(r)[k].place = place /\ Committed(r)[k].lead = lead
        /\ Committed(r)[k].excused = (old.excused \/ mine)
        /\ Committed(r)[k].attached = (old.attached /\ ~gone)
        /\ Committed(r)[k].handed = (old.handed \/ lead # old.lead)
    BY <2>1, <2>3, <2>4, <2>5, <2>6 DEF Day
  <2> QED BY <2>7 DEF old, place, lead, mine, gone
<1> QED BY <1>1, <1>2, <1>3
-----------------------------------------------------------------------------
LEMMA CommittingTyped ==
    ASSUME TypeOK, \A r \in Requests : RequestOK(tx[r]), NEW r \in Requests, Committing(r)
    PROVE  TypeOK'
<1>1. ASSUME NEW x \in Request, tx' = [tx EXCEPT ![r] = x] PROVE tx' \in [Requests -> Request]
  BY <1>1 DEF TypeOK
<1>2. Idle \in Request  BY IdleTyped
<1>3. Committed(r) \in [Keys -> Day \cup {NULL}]
  <2>1. \A k \in Keys : Committed(r)[k] \in Day \cup {NULL}  BY CommittedRow
  <2>2. Committed(r) = [k \in Keys |-> Committed(r)[k]]  BY DEF Committed
  <2> QED BY <2>1, <2>2
<1>4. CASE WriteDays(r)
  <2> DEFINE after == Stored(tx[r].write)
             again == [k \in Keys |-> IF after[k] # days[k] THEN laid[k] + 1 ELSE laid[k]]
  <2>1. /\ days' = after /\ laid' = again /\ tx' = [tx EXCEPT ![r] = Idle]
        /\ UNCHANGED <<today, open, ended, slots, absence, made>>
    BY <1>4 DEF WriteDays, Stored
  <2>2. after = [k \in Keys |-> after[k]] /\ \A k \in Keys : StoredAs(after[k], tx[r].write, k)
    BY StoredRows
  <2>3. ASSUME NEW k \in Keys PROVE after[k] \in Day \cup {NULL}
    <3>1. StoredAs(after[k], tx[r].write, k)  BY <2>2
    <3>2. \A n \in DOMAIN tx[r].write : NewDay(tx[r].write[n]) \in Day  BY WriteIs, NewDayTyped
    <3> QED BY <3>1, <3>2 DEF StoredAs, TypeOK
  <2>4. again \in [Keys -> Nat]  BY DEF TypeOK
  <2> HIDE DEF after, again
  <2>5. after \in [Keys -> Day \cup {NULL}]  BY <2>2, <2>3
  <2> QED BY <1>1, <1>2, <2>1, <2>4, <2>5 DEF TypeOK
<1>5. CASE CommitCreate(r)
  <2>1. tx[r].slot \in Slots /\ tx[r].to \in Slot  BY <1>5, ShapeTyped DEF CommitCreate, RequestOK, Creates
  <2>2. [Idle EXCEPT !.op = "created"] \in Request  BY <1>2 DEF Request
  <2> DEFINE x == [Idle EXCEPT !.op = "created"]
  <2>3. tx' = [tx EXCEPT ![r] = x]  BY <1>5 DEF CommitCreate
  <2> HIDE DEF x
  <2>4. tx' \in [Requests -> Request]  BY <1>1, <2>2, <2>3 DEF x
  <2> QED BY <1>5, <2>1, <2>4 DEF CommitCreate, TypeOK
<1>6. CASE FillHorizon(r)
  <2> DEFINE rows == WithoutOverlaps(Missing(today + 1 .. today + Horizon))
             x == [Idle EXCEPT !.op = "fill", !.write = rows]
  <2>1. slots \in [Slots -> Slot]  BY DEF TypeOK
  <2>2. rows \in Seq(Plan)  BY <2>1, WritesPlans
  <2>3. tx' = [tx EXCEPT ![r] = x] \/ tx' = [tx EXCEPT ![r] = Idle]  BY <1>6 DEF FillHorizon
  <2> HIDE DEF rows
  <2>4. x \in Request  BY <1>2, <2>2 DEF Request
  <2> HIDE DEF x
  <2>5. tx' \in [Requests -> Request]  BY <1>1, <1>2, <2>3, <2>4
  <2> QED BY <1>6, <2>5 DEF FillHorizon, TypeOK
<1>7. CASE CommitChange(r)
  <2> DEFINE x == tx[r]
             s == x.slot
             new == Changed(slots[s], x.was, x.to)
  <2>1. s \in Slots /\ x \in Request /\ x.was \in Slot /\ x.to \in Slot
    BY <1>7 DEF CommitChange, RequestOK, Changes, TypeOK, Request
  <2>2. slots[s] \in Slot  BY <2>1 DEF TypeOK
  <2>3. new \in Slot  BY <2>1, <2>2 DEF Changed, Slot
  <2>4. /\ \/ days' = days /\ slots' = slots
           \/ days' = Committed(r) /\ slots' = [slots EXCEPT ![s] = new]
        /\ tx' = [tx EXCEPT ![r] = Idle] /\ UNCHANGED <<today, open, ended, laid, absence, made>>
    BY <1>7 DEF CommitChange
  <2> HIDE DEF x, s, new
  <2>5. tx' \in [Requests -> Request]  BY <1>1, <1>2, <2>4
  <2> QED BY <1>3, <2>1, <2>3, <2>4, <2>5 DEF TypeOK
<1>8. CASE CommitEnd(r)
  <2> DEFINE new == [s \in Slots |-> IF slots[s].at = "live" THEN [slots[s] EXCEPT !.at = "retired"]
                                     ELSE slots[s]]
  <2>1. new \in [Slots -> Slot]  BY DEF TypeOK, Slot
  <2>2. /\ ended' = TRUE /\ slots' = new /\ days' = Committed(r) /\ tx' = [tx EXCEPT ![r] = Idle]
        /\ UNCHANGED <<today, open, laid, absence, made>>
    BY <1>8 DEF CommitEnd
  <2> HIDE DEF new
  <2>3. tx' \in [Requests -> Request]  BY <1>1, <1>2, <2>2
  <2> QED BY <1>3, <2>1, <2>2, <2>3 DEF TypeOK
<1>9. CASE CommitCycle(r)
  <2>1. tx' = [tx EXCEPT ![r] = Idle]  BY <1>9 DEF CommitCycle
  <2>2. tx' \in [Requests -> Request]  BY <1>1, <1>2, <2>1
  <2>3. open' \in BOOLEAN  BY <1>9 DEF CommitCycle
  <2>4. days' = Committed(r) \/ days' = days  BY <1>9 DEF CommitCycle
  <2> QED BY <1>3, <1>9, <2>2, <2>3, <2>4 DEF CommitCycle, TypeOK
<1> QED BY <1>4, <1>5, <1>6, <1>7, <1>8, <1>9 DEF Committing

\* Marks, absences and the calendar change no request.
Daily ==
    \/ \E k \in Keys, how \in {"marked", "noted"} : WriteMark(k, how)
    \/ \E k \in Keys, to \in States : UpdateLedgerEntry(k, to)
    \/ \E a \in Absences : RouteAbsenceDeclaration(a)
    \/ \E a \in Absences, to \in {"approved", "denied", "pending"} : CommitAbsenceOverride(a, to)
    \/ NextDay

\* A day an approval, or another decision, is about.
OnLeave(k) == [days[k] EXCEPT !.state = "ON_LEAVE"]
Covered(a, k) == LeaveOf(days[k].lead, k[2]) \ {a} # {}
BackOn(a, k) == [days[k] EXCEPT !.state = "SCHEDULED", !.handed = @ \/ Covered(a, k)]

LEMMA OverrideRow ==
    ASSUME TypeOK, NEW a \in Absences, NEW to \in {"approved", "denied", "pending"},
           CommitAbsenceOverride(a, to), NEW k \in Keys
    PROVE  \/ days'[k] = days[k] /\ (days[k] # NULL /\ to = "approved" => ~InRange(a, k))
           \/ days[k] # NULL /\ to = "approved" /\ days'[k] = OnLeave(k)
           \/ days[k] # NULL /\ to # "approved" /\ days'[k] = BackOn(a, k)
<1> DEFINE hit == InRange(a, k) /\ (to # "approved" => days[k].state = "ON_LEAVE")
<1>1. k \in Rows <=> days[k] # NULL  BY RowTyped
<1>2. days'[k] = IF ~(k \in Rows /\ hit) THEN days[k] ELSE IF to = "approved" THEN OnLeave(k) ELSE BackOn(a, k)
  BY DEF CommitAbsenceOverride, OnLeave, BackOn, Covered
<1>3. CASE ~(k \in Rows /\ hit)  BY <1>1, <1>2, <1>3
<1>4. CASE k \in Rows /\ hit /\ to = "approved"  BY <1>1, <1>2, <1>4
<1>5. CASE k \in Rows /\ hit /\ to # "approved"  BY <1>1, <1>2, <1>5
<1> QED BY <1>3, <1>4, <1>5

LEMMA OverrideTyped ==
    ASSUME NEW a, NEW k, days[k] \in Day
    PROVE  /\ OnLeave(k) \in Day /\ OnLeave(k).state = "ON_LEAVE"
           /\ BackOn(a, k) \in Day /\ BackOn(a, k).state = "SCHEDULED"
           /\ BackOn(a, k).handed = (days[k].handed \/ Covered(a, k))
           /\ \A new \in {OnLeave(k), BackOn(a, k)} :
                /\ new.place = days[k].place /\ new.lead = days[k].lead /\ new.used = days[k].used
                /\ new.attached = days[k].attached /\ new.excused = days[k].excused
<1>1. Covered(a, k) \in BOOLEAN  BY DEF Covered
<1> QED BY <1>1 DEF OnLeave, BackOn, Day, States

LEMMA DailyTyped ==
    ASSUME TypeOK, Daily
    PROVE  TypeOK'
<1>1. ASSUME NEW k \in Keys, NEW how \in {"marked", "noted"}, WriteMark(k, how) PROVE TypeOK'
  <2>1. days[k] \in Day  BY <1>1, RowsAreKeys DEF WriteMark
  <2> DEFINE new == [days[k] EXCEPT !.used = how]
  <2>2. new \in Day  BY <2>1 DEF Day
  <2>3. days' = [days EXCEPT ![k] = new]  BY <1>1 DEF WriteMark
  <2> HIDE DEF new
  <2>4. days' \in [Keys -> Day \cup {NULL}]  BY <2>2, <2>3 DEF TypeOK
  <2> QED BY <1>1, <2>4 DEF WriteMark, AtOnce, TypeOK
<1>2. ASSUME NEW k \in Keys, NEW to \in States, UpdateLedgerEntry(k, to) PROVE TypeOK'
  <2>1. days[k] \in Day  BY <1>2, RowsAreKeys DEF UpdateLedgerEntry
  <2> DEFINE new == [days[k] EXCEPT !.state = to, !.handed = @ \/ to = "SCHEDULED"]
  <2>2. new \in Day  BY <2>1 DEF Day
  <2>3. days' = [days EXCEPT ![k] = new]  BY <1>2, <2>1 DEF UpdateLedgerEntry, TypeOK
  <2> HIDE DEF new
  <2>4. days' \in [Keys -> Day \cup {NULL}]  BY <2>2, <2>3 DEF TypeOK
  <2> QED BY <1>2, <2>4 DEF UpdateLedgerEntry, AtOnce, TypeOK
<1>3. ASSUME NEW a \in Absences, RouteAbsenceDeclaration(a) PROVE TypeOK'
  BY <1>3 DEF RouteAbsenceDeclaration, AtOnce, TypeOK
<1>4. ASSUME NEW a \in Absences, NEW to \in {"approved", "denied", "pending"},
             CommitAbsenceOverride(a, to) PROVE TypeOK'
  <2>1. ASSUME NEW k \in Keys PROVE days'[k] \in Day \cup {NULL}
    <3>1. days[k] \in Day \cup {NULL} /\ (days[k] # NULL => days[k] \in Day)  BY RowTyped DEF TypeOK
    <3> QED BY <1>4, <3>1, OverrideRow, OverrideTyped
  <2>2. days' = [k \in Keys |-> days'[k]]  BY <1>4 DEF CommitAbsenceOverride
  <2>3. days' \in [Keys -> Day \cup {NULL}]  BY <2>1, <2>2
  <2>4. /\ absence' = [absence EXCEPT ![a] = to] /\ made' = made + 1
        /\ UNCHANGED <<today, open, ended, slots, laid, tx>>
    BY <1>4 DEF CommitAbsenceOverride, AtOnce
  <2> QED BY <2>3, <2>4 DEF TypeOK
<1>5. CASE NextDay
  <2>1. today' \in Dates  BY <1>5, LedgerAssumption DEF NextDay, TypeOK, Dates
  <2> QED BY <1>5, <2>1 DEF NextDay, TypeOK
<1> QED BY <1>1, <1>2, <1>3, <1>4, <1>5 DEF Daily
-----------------------------------------------------------------------------
(* Requests in flight.                                                      *)

LEMMA InFlight ==
    ASSUME LedgerInv, NEW r \in Requests
    PROVE  tx[r] \in Request /\ RequestOK(tx[r])
<1>1. tx[r] \in Request  BY DEF LedgerInv, TypeOK
<1> QED BY <1>1 DEF LedgerInv, RequestsOK

LEMMA IdleOK == RequestOK(Idle)
BY DEF RequestOK, Spares, ReadEarlier, Changes, Ends, Creates, Idle

\* What was read stays so: time goes on, rows are rewritten under another id,
\* and a row once used or excused remains so.
RowsAge ==
    /\ today' >= today
    /\ \A k \in Keys : laid'[k] >= laid[k]
    /\ \A k \in Keys : IsPlan(k)' /\ laid'[k] = laid[k] => IsPlan(k)

LEMMA RequestKept ==
    ASSUME TypeOK, TypeOK', RowsAge, NEW x \in Request, RequestOK(x)
    PROVE  RequestOK(x)'
<1>1. today \in Int /\ today' \in Int /\ today' >= today  BY TodayInt DEF RowsAge, TypeOK, Dates
<1>2. ASSUME NEW k \in Keys, IsPlan(k)', Id(k)' \in x.seen
      PROVE  IsPlan(k) /\ Id(k)' = Id(k) /\ k[2] \in Int
  <2>1. Id(k)' = <<k, laid'[k]>> /\ laid[k] \in Nat /\ laid'[k] \in Nat  BY DEF Id, TypeOK
  <2>2. laid'[k] <= laid[k]  BY <1>2, <2>1 DEF RequestOK, ReadEarlier
  <2>3. laid'[k] >= laid[k]  BY DEF RowsAge
  <2>4. laid'[k] = laid[k]  BY <2>1, <2>2, <2>3
  <2>5. k[2] \in Int  BY RowTyped
  <2> QED BY <1>2, <2>1, <2>4, <2>5 DEF RowsAge, Id
<1>3. Spares(x)'  BY DEF RequestOK, Spares
<1>4. ReadEarlier(x)'
  <2>1. ASSUME NEW id \in x.seen PROVE id[2] <= laid'[id[1]]
    <3>1. id \in RowId  BY DEF Request
    <3>2. id[1] \in Keys /\ id[2] \in Nat  BY <3>1 DEF RowId
    <3>3. id[2] <= laid[id[1]]  BY DEF RequestOK, ReadEarlier
    <3>4. laid'[id[1]] >= laid[id[1]] /\ laid[id[1]] \in Nat /\ laid'[id[1]] \in Nat
      BY <3>2 DEF RowsAge, TypeOK
    <3> QED BY <3>2, <3>3, <3>4
  <2> QED BY <2>1 DEF ReadEarlier
<1>5. Changes(x)'
  <2>1. SUFFICES ASSUME x.op = "change"
                 PROVE  \A k \in Keys : IsPlan(k)' /\ k[1] = x.slot /\ Id(k)' \in x.seen => Followed(x, k)'
    BY DEF RequestOK, Changes
  <2>2. ASSUME NEW k \in Keys, IsPlan(k)', k[1] = x.slot, Id(k)' \in x.seen PROVE Followed(x, k)'
    <3>1. IsPlan(k) /\ Id(k)' = Id(k) /\ k[2] \in Int  BY <1>2, <2>2
    <3>2. Followed(x, k)  BY <2>1, <2>2, <3>1 DEF RequestOK, Changes
    <3>3. k[2] >= today' => k[2] >= today  BY <1>1, <3>1
    <3>4. k[2] > today' => k[2] > today  BY <1>1, <3>1
    <3> QED BY <3>1, <3>2, <3>3, <3>4 DEF Followed, Corrects
  <2> QED BY <2>2
<1>6. Ends(x)'
  <2>1. SUFFICES ASSUME x.op \in {"end", "close"}
                 PROVE  \A k \in Keys : IsPlan(k)' /\ k[2] >= today' /\ Id(k)' \in x.seen => Id(k)' \in x.drop
    BY DEF RequestOK, Ends
  <2>2. ASSUME NEW k \in Keys, IsPlan(k)', k[2] >= today', Id(k)' \in x.seen PROVE Id(k)' \in x.drop
    <3>1. IsPlan(k) /\ Id(k)' = Id(k) /\ k[2] \in Int  BY <1>2, <2>2
    <3>2. k[2] >= today  BY <1>1, <2>2, <3>1
    <3> QED BY <2>1, <2>2, <3>1, <3>2 DEF RequestOK, Ends
  <2> QED BY <2>2
<1>7. Creates(x)'  BY DEF RequestOK, Creates
<1> QED BY <1>3, <1>4, <1>5, <1>6, <1>7 DEF RequestOK

\* One request goes on, or another comes.
LEMMA RequestsKept ==
    ASSUME LedgerInv, TypeOK', RowsAge, NEW r \in Requests, NEW y \in Request, RequestOK(y)',
           tx' = [tx EXCEPT ![r] = y]
    PROVE  RequestsOK'
<1>1. ASSUME NEW x \in Request, NEW i \in Requests, tx'[i] = x PROVE RequestOK(x)'
  <2>1. DOMAIN tx = Requests  BY DEF LedgerInv, TypeOK
  <2>2. CASE i = r
    <3>1. x = y  BY <1>1, <2>1, <2>2
    <3> QED BY <3>1
  <2>3. CASE i # r
    <3>1. tx[i] = x  BY <1>1, <2>1, <2>3
    <3>2. RequestOK(x)  BY <3>1, InFlight
    <3> QED BY <3>2, RequestKept DEF LedgerInv
  <2> QED BY <2>2, <2>3
<1> QED BY <1>1 DEF RequestsOK

LEMMA RequestsStand ==
    ASSUME LedgerInv, TypeOK', RowsAge, tx' = tx
    PROVE  RequestsOK'
<1>1. ASSUME NEW x \in Request, NEW i \in Requests, tx'[i] = x PROVE RequestOK(x)'
  <2>1. RequestOK(x)  BY <1>1, InFlight
  <2> QED BY <2>1, RequestKept DEF LedgerInv
<1> QED BY <1>1 DEF RequestsOK

\* The request with what it read.
Read(x) == [x EXCEPT !.seen = {Id(k) : k \in Rows}, !.records = {Id(k) : k \in Records}]

LEMMA ReadFields ==
    ASSUME TypeOK, NEW x \in Request
    PROVE  /\ Read(x) \in Request
           /\ Read(x).seen = {Id(k) : k \in Rows} /\ Read(x).records = {Id(k) : k \in Records}
           /\ Read(x).op = x.op /\ Read(x).slot = x.slot /\ Read(x).was = x.was /\ Read(x).to = x.to
           /\ Read(x).write = x.write /\ Read(x).move = x.move /\ Read(x).drop = x.drop
<1> DEFINE s == {Id(k) : k \in Rows}
           c == {Id(k) : k \in Records}
<1>1. s \in SUBSET RowId  BY IdsTyped DEF Rows
<1>2. c \in SUBSET RowId  BY IdsTyped DEF Rows, Records
<1>3. Read(x) = [x EXCEPT !.seen = s, !.records = c]  BY DEF Read
<1> HIDE DEF s, c
<1>4. Read(x) \in Request /\ Read(x).seen = s /\ Read(x).records = c
  BY <1>1, <1>2, <1>3 DEF Request
<1>5. /\ Read(x).op = x.op /\ Read(x).slot = x.slot /\ Read(x).was = x.was /\ Read(x).to = x.to
      /\ Read(x).write = x.write /\ Read(x).move = x.move /\ Read(x).drop = x.drop
  BY <1>3 DEF Request
<1> QED BY <1>4, <1>5 DEF s, c

\* No row is a record that is neither in use nor over.
Untouched(id) == \E k \in Rows : k \notin Records /\ id = Id(k)

LEMMA SparesRead ==
    ASSUME TypeOK, NEW x \in Request, \A id \in x.drop : Untouched(id), \A c \in x.move : Untouched(c.id)
    PROVE  Spares(Read(x)) /\ ReadEarlier(Read(x))
<1>1. Read(x).seen = {Id(k) : k \in Rows} /\ Read(x).records = {Id(k) : k \in Records}
      /\ Read(x).move = x.move /\ Read(x).drop = x.drop
  BY ReadFields
<1>2. ASSUME NEW id, Untouched(id) PROVE id \notin Read(x).records
  <2>1. PICK k \in Rows : k \notin Records /\ id = Id(k)  BY <1>2 DEF Untouched
  <2>2. SUFFICES ASSUME NEW j \in Records, Id(j) = Id(k) PROVE FALSE  BY <1>1, <2>1
  <2> QED BY <2>1, <2>2 DEF Id
<1>3. Spares(Read(x))  BY <1>1, <1>2 DEF Spares
<1>4. ASSUME NEW id \in Read(x).seen PROVE id[2] <= laid[id[1]]
  <2>1. PICK k \in Rows : id = Id(k)  BY <1>1
  <2>2. k \in Keys  BY DEF Rows
  <2> QED BY <2>1, <2>2, RowTyped
<1> QED BY <1>3, <1>4 DEF ReadEarlier

LEMMA ReadsKept ==
    ASSUME LedgerInv, NEW r \in Requests, NEW x \in Request, Reads(r, x), RequestOK(Read(x)), TypeOK'
    PROVE  LedgerInv'
<1>1. tx' = [tx EXCEPT ![r] = Read(x)] /\ UNCHANGED <<today, open, ended, slots, days, laid, absence>>
  BY DEF Reads, Read
<1>2. PICK y : y = Read(x)  OBVIOUS
<1>3. y \in Request /\ RequestOK(y)  BY <1>2, ReadFields DEF LedgerInv
<1>4. RowsAge
  <2>1. today \in Int /\ \A k \in Keys : laid[k] \in Int  BY TodayInt DEF LedgerInv, TypeOK
  <2> QED BY <1>1, <2>1 DEF RowsAge, IsPlan
<1>5. RequestOK(y)'  BY <1>3, <1>4, RequestKept DEF LedgerInv
<1>6. tx' = [tx EXCEPT ![r] = y]  BY <1>1, <1>2
<1>7. RequestsOK'  BY <1>3, <1>4, <1>5, <1>6, RequestsKept
<1>8. PlansFollowTheSlot' /\ RetiredHoldNothing'
  BY <1>1 DEF LedgerInv, PlansFollowTheSlot, RetiredHoldNothing, Rows, Live
<1>9. LeaveShows'  BY <1>1 DEF LedgerInv, LeaveShows, Rows, LeaveOf
<1> QED BY <1>7, <1>8, <1>9 DEF LedgerInv
-----------------------------------------------------------------------------
(* Reading keeps the invariant.                                             *)

LEMMA PlanFacts ==
    ASSUME LedgerInv, NEW k \in Keys, IsPlan(k), k[2] >= today
    PROVE  /\ open /\ k[1] \in Live /\ days[k].attached /\ k \in Rows /\ k \notin Records
           /\ k[2] > today => /\ days[k].place = slots[k[1]].place /\ days[k].lead = slots[k[1]].lead
                              /\ k[2] \in slots[k[1]].rule
<1>1. k \in Rows /\ days[k].used = "no" /\ ~days[k].excused  BY DEF IsPlan, Rows
<1>2. open /\ k[1] \in Live /\ days[k].attached  BY <1>1 DEF LedgerInv, RetiredHoldNothing
<1>3. k[2] \in Int /\ today \in Int  BY RowTyped, TodayInt DEF LedgerInv
<1>4. k \notin Records  BY <1>1, <1>3 DEF Records
<1>5. k[2] > today => /\ days[k].place = slots[k[1]].place /\ days[k].lead = slots[k[1]].lead
                      /\ k[2] \in slots[k[1]].rule
  BY <1>1, <1>2 DEF LedgerInv, PlansFollowTheSlot
<1> QED BY <1>1, <1>2, <1>4, <1>5

LEMMA PlanAhead ==
    ASSUME LedgerInv, NEW k \in Keys, IsPlan(k), NEW from \in Int, from >= today, k[2] >= from
    PROVE  k \in Ahead(k[1], from) /\ \A ks : k \notin RowsInUse(ks)
<1>1. k[2] \in Int /\ today \in Int  BY RowTyped, TodayInt DEF LedgerInv
<1>2. k[2] >= today  BY <1>1
<1>3. k \in Rows /\ days[k].attached /\ days[k].used = "no"  BY <1>2, PlanFacts DEF IsPlan
<1> QED BY <1>3 DEF Ahead, RowsInUse

\* A row from today on that nobody uses is no record.
LEMMA UntouchedAhead ==
    ASSUME TypeOK, NEW k \in Rows, k[2] >= today, days[k].used = "no"
    PROVE  Untouched(Id(k))
<1>1. k \in Keys  BY DEF Rows
<1>2. k[2] \in Int /\ today \in Int  BY <1>1, RowTyped, TodayInt
<1>3. k \notin Records  BY <1>2 DEF Records
<1> QED BY <1>3 DEF Untouched

LEMMA UntouchedPlans ==
    ASSUME TypeOK, NEW ks \in SUBSET Rows, \A k \in ks : k[2] >= today
    PROVE  \A id \in Plans(ks) : Untouched(id)
<1>1. ASSUME NEW k \in ks \ RowsInUse(ks) PROVE Untouched(Id(k))
  <2>1. k \in Rows /\ k[2] >= today /\ days[k].used = "no"  BY DEF RowsInUse
  <2> QED BY <2>1, UntouchedAhead
<1> QED BY <1>1 DEF Plans

LEMMA PlainOK ==
    ASSUME TypeOK, NEW x \in Request, x.drop = {}, x.move = {}, Creates(x),
           x.op \notin {"change", "end", "close"}
    PROVE  RequestOK(Read(x))
<1>1. Spares(Read(x)) /\ ReadEarlier(Read(x))  BY SparesRead
<1>2. Read(x).op = x.op /\ Read(x).slot = x.slot /\ Read(x).to = x.to  BY ReadFields
<1> QED BY <1>1, <1>2 DEF RequestOK, Changes, Ends, Creates

LEMMA EndingOK ==
    ASSUME LedgerInv, NEW x \in Request, x.op \in {"end", "close"}, x.slot = NULL, x.move = {},
           x.to = NoSlot, x.drop = Plans({k \in Rows : k[2] >= today})
    PROVE  RequestOK(Read(x))
<1> DEFINE ks == {k \in Rows : k[2] >= today}
<1>1. TypeOK  BY DEF LedgerInv
<1>2. ks \in SUBSET Rows /\ \A k \in ks : k[2] >= today  OBVIOUS
<1>3. \A id \in x.drop : Untouched(id)
  <2> HIDE DEF ks
  <2> QED BY <1>1, <1>2, UntouchedPlans DEF ks
<1>4. Spares(Read(x)) /\ ReadEarlier(Read(x))  BY <1>1, <1>3, SparesRead
<1>5. /\ Read(x).op = x.op /\ Read(x).slot = x.slot /\ Read(x).to = x.to /\ Read(x).move = x.move
      /\ Read(x).drop = x.drop
  BY <1>1, ReadFields
<1>6. ASSUME NEW k \in Keys, IsPlan(k), k[2] >= today PROVE Id(k) \in x.drop
  <2>1. k \in Rows /\ days[k].used = "no"  BY <1>6, PlanFacts DEF IsPlan
  <2>2. k \in ks \ RowsInUse(ks)  BY <1>6, <2>1 DEF RowsInUse
  <2> QED BY <2>2 DEF Plans
<1> QED BY <1>4, <1>5, <1>6 DEF RequestOK, Changes, Ends, Creates

LEMMA ChangingOK ==
    ASSUME LedgerInv, NEW x \in Request, x.op = "change", x.slot \in Slots, x.was.at = "live",
           x.to.at = "live" => x.to \in Shapes, \A id \in x.drop : Untouched(id),
           \A c \in x.move : Untouched(c.id) /\ c.id[1][1] = x.slot,
           \A k \in Keys : IsPlan(k) /\ k[1] = x.slot /\ k[2] >= today => Followed(x, k)
    PROVE  RequestOK(Read(x))
<1>1. TypeOK  BY DEF LedgerInv
<1> DEFINE y == Read(x)
<1>2. /\ y.op = x.op /\ y.slot = x.slot /\ y.to = x.to /\ y.move = x.move /\ y.drop = x.drop
      /\ y.was = x.was
  BY <1>1, ReadFields
<1>3. Spares(y) /\ ReadEarlier(y)  BY <1>1, SparesRead
<1> HIDE DEF y
<1>4. ASSUME NEW k \in Keys, IsPlan(k), k[1] = x.slot PROVE Followed(y, k)
  <2>1. k[2] \in Int /\ today \in Int  BY <1>1, RowTyped, TodayInt
  <2>2. CASE k[2] >= today
    <3>1. Followed(x, k)  BY <1>4, <2>2
    <3> QED BY <1>2, <3>1 DEF Followed
  <2>3. CASE ~(k[2] >= today)
    <3>1. ~(k[2] > today)  BY <2>1, <2>3
    <3> QED BY <2>3, <3>1 DEF Followed
  <2> QED BY <2>2, <2>3
<1>5. Changes(y)  BY <1>2, <1>4 DEF Changes
<1> QED BY <1>2, <1>3, <1>5 DEF RequestOK, Ends, Creates, y

\* The columns corrected of one row.
LEMMA CorrectedRow ==
    ASSUME TypeOK, NEW ks \in SUBSET Rows, NEW new \in Shapes, NEW c \in Corrections(ks, new)
    PROVE  \E k \in ks : /\ c.id = Id(k)
                         /\ c.place = IF days[k].place # new.place THEN new.place ELSE NULL
                         /\ c.lead = IF days[k].lead # new.lead THEN new.lead ELSE NULL
BY DEF Corrections

LEMMA RowCorrected ==
    ASSUME TypeOK, NEW ks \in SUBSET Rows, NEW new \in Shapes, NEW k \in ks
    PROVE  /\ days[k].place # new.place => \E c \in Corrections(ks, new) : c.id = Id(k) /\ c.place = new.place
           /\ days[k].lead # new.lead => \E c \in Corrections(ks, new) : c.id = Id(k) /\ c.lead = new.lead
<1> DEFINE c == [id |-> Id(k), place |-> IF days[k].place # new.place THEN new.place ELSE NULL,
                 lead |-> IF days[k].lead # new.lead THEN new.lead ELSE NULL]
<1>1. new.place # NULL /\ new.lead # NULL  BY ShapeTyped
<1>2. c.place # NULL \/ c.lead # NULL => c \in Corrections(ks, new)  BY DEF Corrections
<1>3. /\ c.id = Id(k) /\ (days[k].place # new.place => c.place = new.place)
      /\ (days[k].lead # new.lead => c.lead = new.lead)
  OBVIOUS
<1> HIDE DEF c
<1> QED BY <1>1, <1>2, <1>3
-----------------------------------------------------------------------------
LEMMA ReadingKept ==
    ASSUME LedgerInv, NEW r \in Requests, Reading(r)
    PROVE  LedgerInv'
<1> TypeOK  BY DEF LedgerInv
<1>1. ASSUME NEW window, NEW x, x = [Idle EXCEPT !.op = "fill", !.write = WithoutOverlaps(Missing(window))],
             Reads(r, x)
      PROVE  LedgerInv'
  <2> DEFINE rows == WithoutOverlaps(Missing(window))
  <2>1. rows \in Seq(Plan)
    <3>1. slots \in [Slots -> Slot]  BY DEF TypeOK
    <3> QED BY <3>1, WritesPlans
  <2> HIDE DEF rows
  <2>2. x = [Idle EXCEPT !.op = "fill", !.write = rows]  BY <1>1 DEF rows
  <2>3. x \in Request /\ x.op = "fill" /\ x.drop = {} /\ x.move = {}
    BY <2>1, <2>2, IdleTyped DEF Request, Idle
  <2>4. RequestOK(Read(x))  BY <2>3, PlainOK DEF Creates
  <2> QED BY <1>1, <2>3, <2>4, ReadsTyped, ReadsKept
<1>2. CASE MaterializeHorizon(r)
  <2> DEFINE window == today + 1 .. today + Horizon
             x == [Idle EXCEPT !.op = "fill", !.write = WithoutOverlaps(Missing(window))]
  <2>1. Reads(r, x)  BY <1>2 DEF MaterializeHorizon
  <2> HIDE DEF window
  <2> QED BY <1>1, <2>1
<1>3. ASSUME NEW d \in Dates, GenerateDay(r, d) PROVE LedgerInv'
  <2> DEFINE x == [Idle EXCEPT !.op = "fill", !.write = WithoutOverlaps(Missing({d}))]
  <2>1. Reads(r, x)  BY <1>3 DEF GenerateDay
  <2> QED BY <1>1, <2>1
<1>4. ASSUME NEW ks \in SUBSET Rows PROVE {Id(k) : k \in ks} \in SUBSET RowId /\ Plans(ks) \in SUBSET RowId
  <2>1. ks \subseteq Keys /\ ks \ RowsInUse(ks) \subseteq Keys  BY DEF Rows
  <2> QED BY <2>1, IdsTyped DEF Plans
<1>5. ASSUME NEW op \in {"end", "close"}, NEW x,
             x = [Idle EXCEPT !.op = op, !.drop = Plans({k \in Rows : k[2] >= today})], Reads(r, x)
      PROVE  LedgerInv'
  <2> DEFINE drop == Plans({k \in Rows : k[2] >= today})
  <2>1. drop \in SUBSET RowId  BY <1>4
  <2> HIDE DEF drop
  <2>2. x = [Idle EXCEPT !.op = op, !.drop = drop]  BY <1>5 DEF drop
  <2>3. x \in Request  BY <2>1, <2>2, IdleTyped DEF Request
  <2>4. x.op = op /\ x.slot = NULL /\ x.move = {} /\ x.to = NoSlot /\ x.drop = drop  BY <2>2 DEF Idle
  <2>5. RequestOK(Read(x))  BY <2>3, <2>4, EndingOK DEF drop
  <2> QED BY <1>5, <2>3, <2>5, ReadsTyped, ReadsKept
<1>6. CASE CloseCycle(r)
  <2> DEFINE x == [Idle EXCEPT !.op = "close", !.drop = Plans({k \in Rows : k[2] >= today})]
  <2>1. Reads(r, x)  BY <1>6 DEF CloseCycle
  <2> QED BY <1>5, <2>1
<1>7. CASE RetireActivity(r)
  <2> DEFINE x == [Idle EXCEPT !.op = "end", !.drop = Plans({k \in Rows : k[2] >= today})]
  <2>1. Reads(r, x)  BY <1>7 DEF RetireActivity
  <2> QED BY <1>5, <2>1
<1>8. CASE OpenCycle(r)
  <2> DEFINE x == [Idle EXCEPT !.op = "open"]
  <2>1. Reads(r, x)  BY <1>8 DEF OpenCycle
  <2>2. x \in Request /\ x.op = "open" /\ x.drop = {} /\ x.move = {}  BY IdleTyped DEF Request, Idle
  <2> HIDE DEF x
  <2>3. RequestOK(Read(x))  BY <2>2, PlainOK DEF Creates
  <2> QED BY <2>1, <2>2, <2>3, ReadsTyped, ReadsKept
<1>9. ASSUME NEW s \in Slots, NEW to \in Slot, NEW drop \in SUBSET RowId, NEW x, slots[s].at = "live",
             x = [Idle EXCEPT !.op = "change", !.slot = s, !.was = slots[s], !.to = to, !.drop = drop],
             Reads(r, x), to.at # "live", \A id \in drop : Untouched(id),
             \A k \in Ahead(s, today) : days[k].used = "no" => Id(k) \in drop
      PROVE  LedgerInv'
  <2>1. slots[s] \in Slot  BY DEF TypeOK
  <2>2. x \in Request  BY <1>9, <2>1, IdleTyped DEF Request
  <2>3. /\ x.op = "change" /\ x.slot = s /\ x.was = slots[s] /\ x.to = to /\ x.drop = drop /\ x.move = {}
    BY <1>9 DEF Idle
  <2>4. ASSUME NEW k \in Keys, IsPlan(k), k[1] = s, k[2] >= today PROVE Followed(x, k)
    <3>1. today \in Int /\ today >= today  BY TodayInt
    <3>2. k \in Ahead(s, today)  BY <2>4, <3>1, PlanAhead
    <3>3. Id(k) \in drop  BY <1>9, <2>4, <3>2 DEF IsPlan
    <3> QED BY <2>3, <3>3 DEF Followed
  <2>5. RequestOK(Read(x))  BY <1>9, <2>2, <2>3, <2>4, ChangingOK
  <2> QED BY <1>9, <2>2, <2>5, ReadsTyped, ReadsKept
<1>10. ASSUME NEW s \in Slots, DeleteMasterSlot(r, s) PROVE LedgerInv'
  <2> DEFINE drop == {Id(k) : k \in Ahead(s, today)}
             to == [slots[s] EXCEPT !.at = "gone"]
             x == [Idle EXCEPT !.op = "change", !.slot = s, !.was = slots[s], !.to = to, !.drop = drop]
  <2>1. Reads(r, x) /\ slots[s].at = "live" /\ RowsInUse(Ahead(s, today)) = {}
    BY <1>10 DEF DeleteMasterSlot
  <2>2. drop \in SUBSET RowId  BY <1>4, AheadRows
  <2>3. to \in Slot /\ to.at # "live"  BY DEF TypeOK, Slot
  <2>4. ASSUME NEW k \in Ahead(s, today) PROVE Untouched(Id(k))
    <3>1. k \in Rows /\ k[2] >= today  BY DEF Ahead
    <3>2. days[k].used = "no"  BY <2>1 DEF RowsInUse
    <3> QED BY <3>1, <3>2, UntouchedAhead
  <2>5. \A k \in Ahead(s, today) : Id(k) \in drop  OBVIOUS
  <2>6. \A id \in drop : Untouched(id)  BY <2>4
  <2> HIDE DEF drop, to
  <2> QED BY <1>9, <2>1, <2>2, <2>3, <2>5, <2>6
<1>11. ASSUME NEW s \in Slots, RetireMasterSlot(r, s) PROVE LedgerInv'
  <2> DEFINE drop == Plans(Ahead(s, today))
             to == [slots[s] EXCEPT !.at = "retired"]
             x == [Idle EXCEPT !.op = "change", !.slot = s, !.was = slots[s], !.to = to, !.drop = drop]
  <2>1. Reads(r, x) /\ slots[s].at = "live"  BY <1>11 DEF RetireMasterSlot
  <2>2. drop \in SUBSET RowId  BY <1>4, AheadRows
  <2>3. to \in Slot /\ to.at # "live"  BY DEF TypeOK, Slot
  <2>4. Ahead(s, today) \in SUBSET Rows /\ \A k \in Ahead(s, today) : k[2] >= today  BY DEF Ahead
  <2>5. \A id \in drop : Untouched(id)  BY <2>4, UntouchedPlans
  <2>6. \A k \in Ahead(s, today) : days[k].used = "no" => Id(k) \in drop  BY DEF Plans, RowsInUse
  <2> HIDE DEF drop, to
  <2> QED BY <1>9, <2>1, <2>2, <2>3, <2>5, <2>6
<1>12. ASSUME NEW s \in Slots, NEW new \in Shapes, CreateMasterSlot(r, s, new) PROVE LedgerInv'
  <2> DEFINE x == [Idle EXCEPT !.op = "create", !.slot = s, !.to = new]
  <2>1. Reads(r, x)  BY <1>12 DEF CreateMasterSlot
  <2>2. x \in Request /\ x.op = "create" /\ x.drop = {} /\ x.move = {} /\ x.slot = s /\ x.to = new
    BY IdleTyped, ShapeTyped DEF Request, Idle
  <2> HIDE DEF x
  <2>3. RequestOK(Read(x))  BY <2>2, PlainOK DEF Creates
  <2> QED BY <2>1, <2>2, <2>3, ReadsTyped, ReadsKept
<1>13. ASSUME NEW s \in Slots, NEW new \in Shapes, UpdateMasterSlot(r, s, new) PROVE LedgerInv'
  <2> DEFINE drop == IF new.rule # slots[s].rule THEN Ahead(s, today) ELSE {}
             ids == {Id(k) : k \in drop}
             ks == Ahead(s, today + 1) \ (RowsInUse(Ahead(s, today)) \cup drop)
             move == Corrections(ks, new)
             x == [Idle EXCEPT !.op = "change", !.slot = s, !.was = slots[s], !.to = new,
                               !.move = move, !.drop = ids]
  <2>1. /\ Reads(r, x) /\ slots[s].at = "live"
        /\ new.rule # slots[s].rule => RowsInUse(Ahead(s, today)) = {}
    BY <1>13 DEF UpdateMasterSlot
  <2>2. drop \in SUBSET Rows /\ ks \in SUBSET Rows  BY AheadRows
  <2>3. ASSUME NEW k \in drop PROVE Untouched(Id(k))
    <3>1. k \in Ahead(s, today) /\ RowsInUse(Ahead(s, today)) = {}  BY <2>1
    <3>2. k \in Rows /\ k[2] >= today /\ days[k].used = "no"  BY <3>1 DEF Ahead, RowsInUse
    <3> QED BY <3>2, UntouchedAhead
  <2>4. ASSUME NEW k \in ks PROVE Untouched(Id(k)) /\ k[1] = s
    <3>1. k \in Rows /\ k[2] >= today + 1 /\ k[1] = s /\ days[k].attached  BY DEF Ahead
    <3>2. k[2] \in Int /\ today \in Int  BY <3>1, RowsAreKeys, RowTyped, TodayInt
    <3>3. k[2] >= today  BY <3>1, <3>2
    <3>4. days[k].used = "no"  BY <3>1, <3>3 DEF Ahead, RowsInUse
    <3> QED BY <3>1, <3>3, <3>4, UntouchedAhead
  <2>5. ASSUME NEW k \in Keys, IsPlan(k), k[1] = s, k[2] > today
        PROVE  IF new.rule # slots[s].rule THEN k \in drop ELSE k \in ks
    <3>1. k[2] \in Int /\ today \in Int  BY RowTyped, TodayInt
    <3>2. k[2] >= today + 1 /\ k[2] >= today /\ today + 1 >= today /\ today >= today
          /\ today + 1 \in Int  BY <2>5, <3>1
    <3>3. k \in Ahead(s, today) /\ k \in Ahead(s, today + 1) /\ \A S : k \notin RowsInUse(S)
      BY <2>5, <3>1, <3>2, PlanAhead
    <3>4. CASE new.rule # slots[s].rule  BY <3>3, <3>4
    <3>5. CASE new.rule = slots[s].rule
      <4>1. drop = {}  BY <3>5
      <4> HIDE DEF drop
      <4> QED BY <3>3, <3>5, <4>1
    <3> QED BY <3>4, <3>5
  <2>6. \A id \in ids : Untouched(id)  BY <2>3
  <2>7. ids \in SUBSET RowId  BY <1>4, <2>2
  <2>8. \A k \in drop : Id(k) \in ids  OBVIOUS
  <2> HIDE DEF drop, ids, ks
  <2>9. move \in SUBSET Move  BY <2>2, CorrectionsTyped
  <2>10. ASSUME NEW c \in move
         PROVE  \E k \in ks : /\ c.id = Id(k)
                              /\ c.place = IF days[k].place # new.place THEN new.place ELSE NULL
                              /\ c.lead = IF days[k].lead # new.lead THEN new.lead ELSE NULL
    BY <2>2, CorrectedRow
  <2>11. ASSUME NEW c \in move PROVE Untouched(c.id) /\ c.id[1][1] = s
    <3>1. PICK k \in ks : c.id = Id(k)  BY <2>10
    <3>2. Id(k)[1] = k  BY DEF Id
    <3> QED BY <2>4, <3>1, <3>2
  <2>12. ASSUME NEW k \in ks
         PROVE  /\ days[k].place # new.place => \E c \in move : c.id = Id(k) /\ c.place = new.place
                /\ days[k].lead # new.lead => \E c \in move : c.id = Id(k) /\ c.lead = new.lead
    BY <2>2, RowCorrected
  <2> HIDE DEF move
  <2>13. slots[s] \in Slot /\ new \in Slot /\ new.at = "live"  BY ShapeTyped DEF TypeOK
  <2>14. x \in Request  BY <2>7, <2>9, <2>13, IdleTyped DEF Request
  <2>15. /\ x.op = "change" /\ x.slot = s /\ x.was = slots[s] /\ x.to = new /\ x.drop = ids /\ x.move = move
    BY DEF Idle
  <2> HIDE DEF x
  <2>16. ASSUME NEW k \in Keys, IsPlan(k), k[1] = s, k[2] >= today PROVE Followed(x, k)
    <3>1. SUFFICES ASSUME k[2] > today, Id(k) \notin ids
                   PROVE  /\ new.rule = slots[s].rule
                          /\ new.place # slots[s].place => \E c \in move : c.id = Id(k) /\ c.place = new.place
                          /\ new.lead # slots[s].lead => \E c \in move : c.id = Id(k) /\ c.lead = new.lead
                          /\ \A c \in move : c.id = Id(k) => Corrects(c, slots[s], new)
      BY <2>13, <2>15 DEF Followed
    <3>2. k \in ks /\ new.rule = slots[s].rule  BY <2>5, <2>8, <2>16, <3>1
    <3>3. days[k].place = slots[s].place /\ days[k].lead = slots[s].lead  BY <2>16, <3>1, PlanFacts
    <3>4. ASSUME NEW c \in move, c.id = Id(k) PROVE Corrects(c, slots[s], new)
      <4>1. PICK j \in ks : /\ c.id = Id(j)
                            /\ c.place = IF days[j].place # new.place THEN new.place ELSE NULL
                            /\ c.lead = IF days[j].lead # new.lead THEN new.lead ELSE NULL
        BY <2>10
      <4>2. j = k  BY <3>4, <4>1 DEF Id
      <4> QED BY <3>3, <4>1, <4>2 DEF Corrects
    <3> QED BY <2>12, <3>2, <3>3, <3>4
  <2>17. RequestOK(Read(x))  BY <2>1, <2>6, <2>11, <2>13, <2>14, <2>15, <2>16, ChangingOK
  <2> QED BY <2>1, <2>14, <2>17, ReadsTyped, ReadsKept
<1> QED BY <1>2, <1>3, <1>6, <1>7, <1>8, <1>10, <1>11, <1>12, <1>13 DEF Reading
-----------------------------------------------------------------------------
(* Marks, absences and the calendar keep the invariant.                     *)

\* What is promised of a plan from today on.
Promised(k) ==
    /\ open /\ k[1] \in Live /\ days[k].attached
    /\ k[2] > today => /\ days[k].place = slots[k[1]].place /\ days[k].lead = slots[k[1]].lead
                       /\ k[2] \in slots[k[1]].rule

LEMMA PromisesHold ==
    ASSUME TypeOK, TypeOK', \A k \in Keys : IsPlan(k)' /\ k[2] >= today' => Promised(k)'
    PROVE  PlansFollowTheSlot' /\ RetiredHoldNothing'
<1>1. today' \in Int  BY LedgerAssumption DEF TypeOK, Dates
<1>2. PlansFollowTheSlot'
  <2>1. ASSUME NEW k \in Rows', k[2] > today', days'[k].used = "no", ~days'[k].excused
        PROVE  /\ days'[k].place = slots'[k[1]].place
               /\ days'[k].lead = slots'[k[1]].lead /\ k[2] \in slots'[k[1]].rule
    <3>1. k \in Keys /\ IsPlan(k)'  BY <2>1 DEF Rows, IsPlan
    <3>2. k[2] \in Int  BY <3>1, RowTyped
    <3>3. k[2] >= today'  BY <1>1, <2>1, <3>2
    <3>4. Promised(k)'  BY <3>1, <3>3
    <3> QED BY <2>1, <3>4 DEF Promised
  <2> QED BY <2>1 DEF PlansFollowTheSlot
<1>3. RetiredHoldNothing'
  <2>1. ASSUME NEW k \in Rows', k[2] >= today', days'[k].used = "no", ~days'[k].excused
        PROVE  open' /\ k[1] \in Live' /\ days'[k].attached
    <3>1. k \in Keys /\ IsPlan(k)'  BY <2>1 DEF Rows, IsPlan
    <3>2. Promised(k)'  BY <2>1, <3>1
    <3> QED BY <3>2 DEF Promised
  <2> QED BY <2>1 DEF RetiredHoldNothing
<1> QED BY <1>2, <1>3

LEMMA PromisesKept ==
    ASSUME LedgerInv, TypeOK', UNCHANGED <<open, ended, slots>>, today' >= today,
           \A k \in Keys : IsPlan(k)' =>
             /\ IsPlan(k) /\ days'[k].place = days[k].place /\ days'[k].lead = days[k].lead
             /\ days'[k].attached = days[k].attached
    PROVE  PlansFollowTheSlot' /\ RetiredHoldNothing'
<1>1. today \in Int /\ today' \in Int  BY TodayInt DEF LedgerInv, TypeOK, Dates
<1>2. Live' = Live  BY DEF Live
<1>3. ASSUME NEW k \in Keys, IsPlan(k)', k[2] >= today' PROVE Promised(k)'
  <2>1. k[2] \in Int  BY RowTyped DEF LedgerInv
  <2>2. k[2] >= today /\ (k[2] > today' => k[2] > today)  BY <1>1, <1>3, <2>1
  <2>3. IsPlan(k)  BY <1>3
  <2> QED BY <1>2, <1>3, <2>2, <2>3, PlanFacts DEF Promised
<1> QED BY <1>3, PromisesHold DEF LedgerInv

\* A day that reads as scheduled, and nobody has put back.
ReadsScheduled(k) == days[k] # NULL /\ days[k].state = "SCHEDULED" /\ ~days[k].excused /\ ~days[k].handed

LEMMA LeaveKept ==
    ASSUME LedgerInv, absence' = absence,
           \A k \in Keys : ReadsScheduled(k)' => ReadsScheduled(k) /\ days'[k].lead = days[k].lead
    PROVE  LeaveShows'
<1>1. ASSUME NEW k \in Rows', days'[k].state = "SCHEDULED", ~days'[k].excused, ~days'[k].handed
      PROVE  (LeaveOf(days[k].lead, k[2]) = {})'
  <2>1. k \in Keys /\ ReadsScheduled(k)'  BY <1>1 DEF Rows, ReadsScheduled
  <2>2. k \in Rows /\ ReadsScheduled(k) /\ days'[k].lead = days[k].lead  BY <2>1 DEF Rows, ReadsScheduled
  <2>3. LeaveOf(days[k].lead, k[2]) = {}  BY <2>2 DEF LedgerInv, LeaveShows, ReadsScheduled
  <2> QED BY <2>2, <2>3 DEF LeaveOf
<1> QED BY <1>1 DEF LeaveShows

LEMMA DailyKept ==
    ASSUME LedgerInv, Daily
    PROVE  LedgerInv'
<1> TypeOK  BY DEF LedgerInv
<1>1. TypeOK'  BY DailyTyped
<1>2. today \in Int /\ \A k \in Keys : laid[k] \in Int  BY TodayInt DEF TypeOK
<1>3. ASSUME NEW k \in Keys, NEW how \in {"marked", "noted"}, WriteMark(k, how) PROVE LedgerInv'
  <2>1. days[k] \in Day  BY <1>3, RowsAreKeys DEF WriteMark
  <2>2. /\ days' = [days EXCEPT ![k] = [days[k] EXCEPT !.used = how]]
        /\ UNCHANGED <<today, open, ended, slots, laid, absence, tx>>
    BY <1>3 DEF WriteMark
  <2>3. ASSUME NEW i \in Keys
        PROVE  \/ days'[i] = days[i] /\ i # k
               \/ /\ i = k /\ days'[i].used = how /\ days'[i].state = days[i].state
                  /\ days'[i].lead = days[i].lead /\ days'[i].handed = days[i].handed
                  /\ days'[i].excused = days[i].excused /\ days[i] # NULL
    <3>1. days[k] # NULL  BY <2>1, LedgerAssumption
    <3> QED BY <2>1, <2>2, <3>1 DEF TypeOK, Day
  <2>4. \A i \in Keys : IsPlan(i)' => IsPlan(i) /\ days'[i] = days[i]  BY <2>3 DEF IsPlan
  <2>5. RowsAge  BY <1>2, <2>2, <2>4 DEF RowsAge
  <2>6. RequestsOK'  BY <1>1, <2>2, <2>5, RequestsStand
  <2>7. PlansFollowTheSlot' /\ RetiredHoldNothing'  BY <1>1, <1>2, <2>2, <2>4, PromisesKept
  <2>8. \A i \in Keys : ReadsScheduled(i)' => ReadsScheduled(i) /\ days'[i].lead = days[i].lead  BY <2>3 DEF ReadsScheduled
  <2>9. LeaveShows'  BY <2>2, <2>8, LeaveKept
  <2> QED BY <1>1, <2>6, <2>7, <2>9 DEF LedgerInv
<1>4. ASSUME NEW k \in Keys, NEW to \in States, UpdateLedgerEntry(k, to) PROVE LedgerInv'
  <2>1. days[k] \in Day /\ days[k] # NULL  BY <1>4, RowsAreKeys DEF UpdateLedgerEntry
  <2>2. /\ days' = [days EXCEPT ![k] = [days[k] EXCEPT !.state = to, !.handed = @ \/ to = "SCHEDULED"]]
        /\ UNCHANGED <<today, open, ended, slots, laid, absence, tx>>
    BY <1>4 DEF UpdateLedgerEntry, TypeOK
  <2>3. ASSUME NEW i \in Keys
        PROVE  \/ days'[i] = days[i] /\ i # k
               \/ /\ i = k /\ days'[i].used = days[i].used /\ days'[i].place = days[i].place
                  /\ days'[i].lead = days[i].lead /\ days'[i].attached = days[i].attached
                  /\ days'[i].excused = days[i].excused /\ days[i] # NULL
                  /\ days'[i].state = "SCHEDULED" => days'[i].handed
    BY <2>1, <2>2 DEF TypeOK, Day
  <2>4. \A i \in Keys : IsPlan(i)' =>
          /\ IsPlan(i) /\ days'[i].place = days[i].place /\ days'[i].lead = days[i].lead
          /\ days'[i].attached = days[i].attached
    BY <2>3 DEF IsPlan
  <2>5. RowsAge  BY <1>2, <2>2, <2>4 DEF RowsAge
  <2>6. RequestsOK'  BY <1>1, <2>2, <2>5, RequestsStand
  <2>7. PlansFollowTheSlot' /\ RetiredHoldNothing'  BY <1>1, <1>2, <2>2, <2>4, PromisesKept
  <2>8. \A i \in Keys : ReadsScheduled(i)' => ReadsScheduled(i) /\ days'[i].lead = days[i].lead  BY <2>3 DEF ReadsScheduled
  <2>9. LeaveShows'  BY <2>2, <2>8, LeaveKept
  <2> QED BY <1>1, <2>6, <2>7, <2>9 DEF LedgerInv
<1>5. ASSUME NEW a \in Absences, RouteAbsenceDeclaration(a) PROVE LedgerInv'
  <2>1. absence' = [absence EXCEPT ![a] = "pending"] /\ absence[a] = "none"
        /\ UNCHANGED <<today, open, ended, slots, days, laid, tx>>
    BY <1>5 DEF RouteAbsenceDeclaration
  <2>2. RowsAge  BY <1>2, <2>1 DEF RowsAge, IsPlan
  <2>3. RequestsOK'  BY <1>1, <2>1, <2>2, RequestsStand
  <2>4. PlansFollowTheSlot' /\ RetiredHoldNothing'
    BY <2>1 DEF LedgerInv, PlansFollowTheSlot, RetiredHoldNothing, Rows, Live
  <2>5. \A b \in Absences : absence'[b] = "approved" <=> absence[b] = "approved"  BY <2>1 DEF TypeOK
  <2>6. LeaveShows'  BY <2>1, <2>5 DEF LedgerInv, LeaveShows, Rows, LeaveOf
  <2> QED BY <1>1, <2>3, <2>4, <2>6 DEF LedgerInv
<1>6. ASSUME NEW a \in Absences, NEW to \in {"approved", "denied", "pending"},
             CommitAbsenceOverride(a, to) PROVE LedgerInv'
  <2>1. absence' = [absence EXCEPT ![a] = to] /\ UNCHANGED <<today, open, ended, slots, laid, tx>>
    BY <1>6 DEF CommitAbsenceOverride
  <2>2. ASSUME NEW i \in Keys
        PROVE  \/ days'[i] = days[i]
               \/ /\ days[i] # NULL /\ days'[i].place = days[i].place /\ days'[i].lead = days[i].lead
                  /\ days'[i].used = days[i].used /\ days'[i].attached = days[i].attached
                  /\ days'[i].excused = days[i].excused
    <3>1. days[i] # NULL => days[i] \in Day  BY RowTyped
    <3> QED BY <1>6, <3>1, OverrideRow, OverrideTyped
  <2>3. \A i \in Keys : IsPlan(i)' =>
          /\ IsPlan(i) /\ days'[i].place = days[i].place /\ days'[i].lead = days[i].lead
          /\ days'[i].attached = days[i].attached
    BY <2>2 DEF IsPlan
  <2>4. RowsAge  BY <1>2, <2>1, <2>3 DEF RowsAge
  <2>5. RequestsOK'  BY <1>1, <2>1, <2>4, RequestsStand
  <2>6. PlansFollowTheSlot' /\ RetiredHoldNothing'  BY <1>1, <1>2, <2>1, <2>3, PromisesKept
  <2>7. ASSUME NEW i \in Rows', ReadsScheduled(i)' PROVE (LeaveOf(days[i].lead, i[2]) = {})'
    <3>1. i \in Keys  BY DEF Rows
    <3>2. days[i] # NULL => days[i] \in Day  BY <3>1, RowTyped
    <3>3. \A b \in Absences \ {a} : absence'[b] = absence[b]  BY <2>1 DEF TypeOK
    <3>4. absence'[a] = to  BY <2>1 DEF TypeOK
    <3>5. \/ days'[i] = days[i] /\ (days[i] # NULL /\ to = "approved" => ~InRange(a, i))
          \/ days[i] # NULL /\ to = "approved" /\ days'[i] = OnLeave(i)
          \/ days[i] # NULL /\ to # "approved" /\ days'[i] = BackOn(a, i)
      BY <1>6, <3>1, OverrideRow
    <3>6. CASE days'[i] = days[i] /\ (days[i] # NULL /\ to = "approved" => ~InRange(a, i))
      <4>1. i \in Rows /\ ReadsScheduled(i)  BY <2>7, <3>1, <3>6 DEF ReadsScheduled, Rows
      <4>2. LeaveOf(days[i].lead, i[2]) = {}  BY <4>1 DEF LedgerInv, LeaveShows, ReadsScheduled
      <4>3. to = "approved" => ~InRange(a, i)  BY <3>6, <4>1 DEF ReadsScheduled
      <4> QED BY <3>3, <3>4, <3>6, <4>2, <4>3 DEF LeaveOf, InRange
    <3>7. CASE days[i] # NULL /\ to = "approved" /\ days'[i] = OnLeave(i)
      <4>1. days'[i].state = "ON_LEAVE"  BY <3>2, <3>7, OverrideTyped
      <4> QED BY <2>7, <4>1 DEF ReadsScheduled
    <3>8. CASE days[i] # NULL /\ to # "approved" /\ days'[i] = BackOn(a, i)
      <4>1. days'[i].lead = days[i].lead /\ days'[i].handed = (days[i].handed \/ Covered(a, i))
        BY <3>2, <3>8, OverrideTyped
      <4>2. ~Covered(a, i)  BY <2>7, <4>1 DEF ReadsScheduled
      <4> QED BY <3>3, <3>4, <3>8, <4>1, <4>2 DEF LeaveOf, Covered
    <3> QED BY <3>5, <3>6, <3>7, <3>8
  <2>8. LeaveShows'  BY <2>7 DEF LeaveShows, ReadsScheduled, Rows
  <2> QED BY <1>1, <2>5, <2>6, <2>8 DEF LedgerInv
<1>7. CASE NextDay
  <2>1. today' = today + 1 /\ UNCHANGED <<open, ended, slots, days, laid, absence, tx>>
    BY <1>7 DEF NextDay
  <2>2. today' >= today  BY <1>2, <2>1
  <2>3. RowsAge  BY <1>2, <2>1, <2>2 DEF RowsAge, IsPlan
  <2>4. RequestsOK'  BY <1>1, <2>1, <2>3, RequestsStand
  <2>5. PlansFollowTheSlot' /\ RetiredHoldNothing'
    <3>1. \A i \in Keys : IsPlan(i)' => IsPlan(i) /\ days'[i] = days[i]  BY <2>1 DEF IsPlan
    <3> QED BY <1>1, <2>1, <2>2, <3>1, PromisesKept
  <2>6. LeaveShows'  BY <2>1 DEF LedgerInv, LeaveShows, Rows, LeaveOf
  <2> QED BY <1>1, <2>4, <2>5, <2>6 DEF LedgerInv
<1> QED BY <1>3, <1>4, <1>5, <1>6, <1>7 DEF Daily
-----------------------------------------------------------------------------
(* Writing keeps the invariant.                                             *)

LEMMA CommittedKeys ==
    ASSUME LedgerInv, NEW r \in Requests, days' = Committed(r), laid' = laid, NEW k \in Keys
    PROVE  /\ IsPlan(k)' => /\ IsPlan(k) /\ Id(k) \notin tx[r].drop /\ (Mine(r, k) => Id(k) \in tx[r].seen)
                            /\ days'[k].place = Put(days[k].place, {c.place : c \in New(r, k)})
                            /\ days'[k].lead = Put(days[k].lead, {c.lead : c \in New(r, k)})
                            /\ days'[k].attached = (days[k].attached /\ ~(Mine(r, k) /\ tx[r].to.at = "gone"))
           /\ ReadsScheduled(k)' => ReadsScheduled(k) /\ days'[k].lead = days[k].lead
<1>1. TypeOK  BY DEF LedgerInv
<1>2. CASE days[k] = NULL \/ Id(k) \in tx[r].drop
  <2>1. days'[k] = NULL  BY <1>1, <1>2, CommittedRow
  <2> QED BY <2>1 DEF IsPlan, ReadsScheduled
<1>3. CASE ~(days[k] = NULL \/ Id(k) \in tx[r].drop)
  <2> DEFINE d == Committed(r)[k]
  <2>1. /\ d.state = days[k].state /\ d.used = days[k].used
        /\ d.place = Put(days[k].place, {c.place : c \in New(r, k)})
        /\ d.lead = Put(days[k].lead, {c.lead : c \in New(r, k)})
        /\ ~d.excused => ~days[k].excused /\ (Mine(r, k) => Id(k) \in tx[r].seen)
        /\ d.attached = (days[k].attached /\ ~(Mine(r, k) /\ tx[r].to.at = "gone"))
        /\ ~d.handed => ~days[k].handed /\ d.lead = days[k].lead
    BY <1>1, <1>3, CommittedRow
  <2>2. days'[k] = d  OBVIOUS
  <2> HIDE DEF d
  <2> QED BY <1>3, <2>1, <2>2 DEF IsPlan, ReadsScheduled
<1> QED BY <1>2, <1>3

LEMMA CommittedLeave ==
    ASSUME LedgerInv, NEW r \in Requests, days' = Committed(r), laid' = laid, today' = today,
           absence' = absence
    PROVE  RowsAge /\ LeaveShows'
<1>1. today \in Int /\ \A k \in Keys : laid[k] \in Int  BY TodayInt DEF LedgerInv, TypeOK
<1>2. \A k \in Keys : IsPlan(k)' => IsPlan(k)  BY CommittedKeys
<1>3. RowsAge  BY <1>1, <1>2 DEF RowsAge
<1>4. \A k \in Keys : ReadsScheduled(k)' => ReadsScheduled(k) /\ days'[k].lead = days[k].lead
  BY CommittedKeys
<1> QED BY <1>3, <1>4, LeaveKept

\* A column corrected says what the slot is to say; one not corrected what it said.
LEMMA PutIs ==
    ASSUME NEW old, NEW cs, NEW v, \A c \in cs : c \in {NULL, v}
    PROVE  /\ v \in cs /\ v # NULL => Put(old, cs) = v
           /\ cs \subseteq {NULL} => Put(old, cs) = old
BY DEF Put

LEMMA ChangePromises ==
    ASSUME LedgerInv, TypeOK', NEW r \in Requests, CommitChange(r), Accepted(r)
    PROVE  PlansFollowTheSlot' /\ RetiredHoldNothing'
<1> TypeOK  BY DEF LedgerInv
<1> DEFINE x == tx[r]
           s == x.slot
           new == Changed(slots[s], x.was, x.to)
<1>1. x \in Request /\ RequestOK(x) /\ x.op = "change"  BY InFlight DEF CommitChange
<1>2. /\ slots' = [slots EXCEPT ![s] = new] /\ days' = Committed(r)
      /\ UNCHANGED <<today, open, ended, laid, absence>>
  BY DEF CommitChange
<1>3. /\ s \in Slots /\ x.was.at = "live" /\ (x.to.at = "live" => x.to \in Shapes)
      /\ \A c \in x.move : c.id[1][1] = s
      /\ \A k \in Keys : IsPlan(k) /\ k[1] = s /\ Id(k) \in x.seen => Followed(x, k)
  BY <1>1 DEF RequestOK, Changes
<1>4. slots[s] \in Slot /\ x.was \in Slot /\ x.to \in Slot  BY <1>1, <1>3 DEF TypeOK, Request
<1>5. s # NULL  BY <1>3, LedgerAssumption
<1>6. slots[s].at = "live" =>
        /\ new.at = (IF x.to.at # x.was.at THEN x.to.at ELSE slots[s].at)
        /\ new.place = (IF x.to.place # x.was.place THEN x.to.place ELSE slots[s].place)
        /\ new.lead = (IF x.to.lead # x.was.lead THEN x.to.lead ELSE slots[s].lead)
        /\ new.rule = (IF x.to.rule # x.was.rule THEN x.to.rule ELSE slots[s].rule)
  BY <1>4 DEF Changed, Slot
<1>7. slots'[s] = new /\ \A i \in Slots \ {s} : slots'[i] = slots[i]  BY <1>2, <1>3 DEF TypeOK
<1> HIDE DEF x, s, new
<1>8. ASSUME NEW k \in Keys, IsPlan(k)', k[2] >= today' PROVE Promised(k)'
  <2>1. /\ IsPlan(k) /\ Id(k) \notin x.drop /\ (Mine(r, k) => Id(k) \in x.seen)
        /\ days'[k].place = Put(days[k].place, {c.place : c \in New(r, k)})
        /\ days'[k].lead = Put(days[k].lead, {c.lead : c \in New(r, k)})
        /\ days'[k].attached = (days[k].attached /\ ~(Mine(r, k) /\ x.to.at = "gone"))
    BY <1>2, <1>8, CommittedKeys DEF x
  <2>2. k[2] >= today  BY <1>2, <1>8
  <2>3. /\ open /\ k[1] \in Live /\ days[k].attached
        /\ k[2] > today => /\ days[k].place = slots[k[1]].place /\ days[k].lead = slots[k[1]].lead
                           /\ k[2] \in slots[k[1]].rule
    BY <2>1, <2>2, PlanFacts
  <2>4. k[1] \in Slots /\ ~ended /\ slots[k[1]].at = "live"  BY <2>3 DEF Live
  <2>5. New(r, k) = {c \in x.move : c.id = Id(k)} /\ Id(k)[1] = k  BY DEF New, Id, x
  <2>6. CASE k[1] # s
    <3>1. ~Mine(r, k)  BY <1>5, <2>6 DEF Mine, s, x
    <3>2. New(r, k) = {}  BY <1>3, <2>5, <2>6
    <3>3. days'[k].place = days[k].place /\ days'[k].lead = days[k].lead /\ days'[k].attached
      BY <2>1, <2>3, <3>1, <3>2 DEF Put
    <3>4. slots'[k[1]] = slots[k[1]]  BY <1>7, <2>4, <2>6
    <3>5. k[1] \in Live'  BY <1>2, <2>4, <3>4 DEF Live
    <3> QED BY <1>2, <2>3, <3>3, <3>4, <3>5 DEF Promised
  <2>7. CASE k[1] = s
    <3>1. Mine(r, k)  BY <2>7 DEF Mine, s, x
    <3>2. Followed(x, k)  BY <1>3, <2>1, <2>7, <3>1
    <3>3. x.to.at = "live"  BY <2>1, <2>2, <3>2 DEF Followed
    <3>4. x.to \in Shapes  BY <1>3, <3>3
    <3>5. x.to.place # NULL /\ x.to.lead # NULL  BY <3>4, ShapeTyped
    <3>6. new.at = "live"  BY <1>3, <1>6, <2>4, <2>7, <3>3
    <3>7. k[1] \in Live' /\ slots'[k[1]] = new  BY <1>2, <1>7, <2>4, <2>7, <3>6 DEF Live
    <3>8. days'[k].attached  BY <2>1, <2>3, <3>3
    <3>9. ASSUME k[2] > today
          PROVE  days'[k].place = new.place /\ days'[k].lead = new.lead /\ k[2] \in new.rule
      <4>1. /\ x.to.rule = x.was.rule
            /\ x.to.place # x.was.place => \E c \in x.move : c.id = Id(k) /\ c.place = x.to.place
            /\ x.to.lead # x.was.lead => \E c \in x.move : c.id = Id(k) /\ c.lead = x.to.lead
            /\ \A c \in x.move : c.id = Id(k) => Corrects(c, x.was, x.to)
        BY <2>1, <3>2, <3>9 DEF Followed
      <4>2. /\ days[k].place = slots[s].place /\ days[k].lead = slots[s].lead /\ k[2] \in slots[s].rule
        BY <2>3, <2>7, <3>9
      <4> DEFINE ps == {c.place : c \in New(r, k)}
                 ls == {c.lead : c \in New(r, k)}
      <4>3. \A c \in ps : c \in {NULL, x.to.place}  BY <2>5, <4>1 DEF Corrects
      <4>4. \A c \in ls : c \in {NULL, x.to.lead}  BY <2>5, <4>1 DEF Corrects
      <4>5. IF x.to.place # x.was.place THEN x.to.place \in ps ELSE ps \subseteq {NULL}
        BY <2>5, <4>1 DEF Corrects
      <4>6. IF x.to.lead # x.was.lead THEN x.to.lead \in ls ELSE ls \subseteq {NULL}
        BY <2>5, <4>1 DEF Corrects
      <4>7. days'[k].place = Put(days[k].place, ps) /\ days'[k].lead = Put(days[k].lead, ls)  BY <2>1
      <4> HIDE DEF ps, ls
      <4>8. days'[k].place = new.place
        <5>1. Put(days[k].place, ps) = IF x.to.place # x.was.place THEN x.to.place ELSE days[k].place
          BY <3>5, <4>3, <4>5, PutIs
        <5> QED BY <1>6, <2>4, <2>7, <4>2, <4>7, <5>1
      <4>9. days'[k].lead = new.lead
        <5>1. Put(days[k].lead, ls) = IF x.to.lead # x.was.lead THEN x.to.lead ELSE days[k].lead
          BY <3>5, <4>4, <4>6, PutIs
        <5> QED BY <1>6, <2>4, <2>7, <4>2, <4>7, <5>1
      <4>10. k[2] \in new.rule  BY <1>6, <2>4, <2>7, <4>1, <4>2
      <4> QED BY <4>8, <4>9, <4>10
    <3> QED BY <1>2, <2>3, <3>7, <3>8, <3>9 DEF Promised
  <2> QED BY <2>6, <2>7
<1> QED BY <1>8, PromisesHold
-----------------------------------------------------------------------------
LEMMA CommittingKept ==
    ASSUME LedgerInv, NEW r \in Requests, Committing(r)
    PROVE  LedgerInv'
<1> TypeOK  BY DEF LedgerInv
<1>1. TypeOK'
  <2>1. \A i \in Requests : RequestOK(tx[i])  BY InFlight
  <2> QED BY <2>1, CommittingTyped
<1>2. today \in Int /\ \A k \in Keys : laid[k] \in Int  BY TodayInt DEF TypeOK
<1>3. RequestOK(Idle)' /\ Idle \in Request
  BY IdleTyped DEF RequestOK, Spares, ReadEarlier, Changes, Ends, Creates, Idle
<1>4. CASE WriteDays(r)
  <2> DEFINE after == Stored(tx[r].write)
  <2>1. /\ days' = after /\ laid' = [k \in Keys |-> IF after[k] # days[k] THEN laid[k] + 1 ELSE laid[k]]
        /\ tx' = [tx EXCEPT ![r] = Idle]
        /\ UNCHANGED <<today, open, ended, slots, absence, made>>
    BY <1>4 DEF WriteDays, Stored
  <2>2. \A k \in Keys : StoredAs(after[k], tx[r].write, k)  BY StoredRows
  <2> HIDE DEF after
  <2>3. ASSUME NEW k \in Keys
        PROVE  \/ days'[k] = days[k] /\ laid'[k] = laid[k]
               \/ /\ laid'[k] = laid[k] + 1
                  /\ \E row \in Plan : k = <<row.slot, row.date>> /\ days'[k] = NewDay(row)
    <3>1. CASE after[k] = days[k]  BY <2>1, <3>1
    <3>2. CASE after[k] # days[k]
      <4>1. PICK n \in DOMAIN tx[r].write :
              k = <<tx[r].write[n].slot, tx[r].write[n].date>> /\ after[k] = NewDay(tx[r].write[n])
        BY <2>2, <3>2 DEF StoredAs
      <4>2. tx[r].write[n] \in Plan  BY WriteIs
      <4> QED BY <2>1, <3>2, <4>1, <4>2
    <3> QED BY <3>1, <3>2
  <2>4. RowsAge
    <3>1. ASSUME NEW k \in Keys PROVE laid'[k] >= laid[k] /\ (laid'[k] = laid[k] => days'[k] = days[k])
      <4>1. laid[k] \in Int  BY <1>2
      <4> QED BY <2>3, <4>1
    <3> QED BY <1>2, <2>1, <3>1 DEF RowsAge, IsPlan
  <2>5. RequestsOK'  BY <1>1, <1>3, <2>1, <2>4, RequestsKept
  <2>6. ASSUME NEW k \in Keys, IsPlan(k)', k[2] >= today' PROVE Promised(k)'
    <3>1. CASE days'[k] = days[k]
      <4>1. IsPlan(k) /\ k[2] >= today  BY <2>1, <2>6, <3>1 DEF IsPlan
      <4> QED BY <2>1, <3>1, <4>1, PlanFacts DEF Promised, Live
    <3>2. ASSUME NEW row \in Plan, k = <<row.slot, row.date>>, days'[k] = NewDay(row) PROVE Promised(k)'
      <4>1. StillSo(row) /\ days'[k].attached /\ days'[k].place = row.place /\ days'[k].lead = row.lead
        BY <2>6, <3>2, NewDayTyped DEF IsPlan
      <4>2. row.place = slots[row.slot].place /\ row.lead = slots[row.slot].lead
        BY <4>1 DEF StillSo, DayFields
      <4>3. k[1] = row.slot /\ k[2] = row.date  BY <3>2
      <4>4. /\ open' /\ k[1] \in Live' /\ slots' = slots  BY <2>1, <4>1, <4>3 DEF StillSo, Live
      <4> QED BY <4>1, <4>2, <4>3, <4>4 DEF StillSo, Promised
    <3> QED BY <2>3, <3>1, <3>2
  <2>7. PlansFollowTheSlot' /\ RetiredHoldNothing'  BY <1>1, <2>6, PromisesHold
  <2>8. ASSUME NEW k \in Rows', ReadsScheduled(k)' PROVE (LeaveOf(days[k].lead, k[2]) = {})'
    <3>1. k \in Keys  BY DEF Rows
    <3>2. CASE days'[k] = days[k]
      <4>1. k \in Rows /\ ReadsScheduled(k)  BY <2>8, <3>1, <3>2 DEF ReadsScheduled, Rows
      <4>2. LeaveOf(days[k].lead, k[2]) = {}  BY <4>1 DEF LedgerInv, LeaveShows, ReadsScheduled
      <4> QED BY <2>1, <3>2, <4>2 DEF LeaveOf
    <3>3. ASSUME NEW row \in Plan, k = <<row.slot, row.date>>, days'[k] = NewDay(row)
          PROVE  (LeaveOf(days[k].lead, k[2]) = {})'
      <4>1. StillSo(row) /\ days'[k].lead = row.lead /\ row.state = "SCHEDULED"
        BY <2>8, <3>3, NewDayTyped DEF ReadsScheduled
      <4>2. row.lead = slots[row.slot].lead /\ LeaveOf(slots[row.slot].lead, row.date) = {}
        BY <4>1 DEF StillSo, DayFields
      <4>3. k[2] = row.date  BY <3>3
      <4> QED BY <2>1, <4>1, <4>2, <4>3 DEF LeaveOf
    <3> QED BY <2>3, <3>1, <3>2, <3>3
  <2>9. LeaveShows'  BY <2>8 DEF LeaveShows, ReadsScheduled, Rows
  <2> QED BY <1>1, <2>5, <2>7, <2>9 DEF LedgerInv
<1>5. CASE CommitCreate(r)
  <2>1. /\ slots[tx[r].slot].at = "none" /\ slots' = [slots EXCEPT ![tx[r].slot] = tx[r].to]
        /\ tx' = [tx EXCEPT ![r] = [Idle EXCEPT !.op = "created"]] /\ tx[r].op = "create"
        /\ UNCHANGED <<today, open, ended, days, laid, absence, made>>
    BY <1>5 DEF CommitCreate
  <2>2. tx[r].slot \in Slots /\ tx[r].to \in Shapes  BY <2>1, InFlight DEF RequestOK, Creates
  <2> DEFINE y == [Idle EXCEPT !.op = "created"]
  <2>3. RequestOK(y)' /\ y \in Request
    BY IdleTyped DEF RequestOK, Spares, ReadEarlier, Changes, Ends, Creates, Idle, Request
  <2>4. tx' = [tx EXCEPT ![r] = y]  BY <2>1
  <2> HIDE DEF y
  <2>5. RowsAge  BY <1>2, <2>1 DEF RowsAge, IsPlan
  <2>6. RequestsOK'  BY <1>1, <2>3, <2>4, <2>5, RequestsKept
  <2>7. ASSUME NEW k \in Keys, IsPlan(k)', k[2] >= today' PROVE Promised(k)'
    <3>1. IsPlan(k) /\ k[2] >= today  BY <2>1, <2>7 DEF IsPlan
    <3>2. Promised(k)  BY <3>1, PlanFacts DEF Promised
    <3>3. k[1] \in Live  BY <3>2 DEF Promised
    <3>4. k[1] # tx[r].slot  BY <2>1, <3>3 DEF Live
    <3>5. slots'[k[1]] = slots[k[1]] /\ k[1] \in Live'  BY <2>1, <3>3, <3>4 DEF Live, TypeOK
    <3> QED BY <2>1, <3>2, <3>5 DEF Promised
  <2>8. PlansFollowTheSlot' /\ RetiredHoldNothing'  BY <1>1, <2>7, PromisesHold
  <2>9. LeaveShows'  BY <2>1 DEF LedgerInv, LeaveShows, Rows, LeaveOf
  <2> QED BY <1>1, <2>6, <2>8, <2>9 DEF LedgerInv
<1>6. CASE FillHorizon(r)
  <2> DEFINE rows == WithoutOverlaps(Missing(today + 1 .. today + Horizon))
  <2>1. rows \in Seq(Plan)
    <3>1. slots \in [Slots -> Slot]  BY DEF TypeOK
    <3> QED BY <3>1, WritesPlans
  <2>2. UNCHANGED <<today, open, ended, slots, days, laid, absence, made>>  BY <1>6 DEF FillHorizon
  <2>3. tx' = [tx EXCEPT ![r] = Idle] \/ tx' = [tx EXCEPT ![r] = [Idle EXCEPT !.op = "fill", !.write = rows]]
    BY <1>6 DEF FillHorizon
  <2> HIDE DEF rows
  <2>4. PICK w : w = rows  OBVIOUS
  <2> DEFINE y == [Idle EXCEPT !.op = "fill", !.write = w]
  <2>5. RequestOK(y)' /\ y \in Request
    BY <2>1, <2>4, IdleTyped DEF RequestOK, Spares, ReadEarlier, Changes, Ends, Creates, Idle, Request
  <2>6. tx' = [tx EXCEPT ![r] = Idle] \/ tx' = [tx EXCEPT ![r] = y]  BY <2>3, <2>4
  <2> HIDE DEF y
  <2>7. RowsAge  BY <1>2, <2>2 DEF RowsAge, IsPlan
  <2>8. RequestsOK'
    <3>1. CASE tx' = [tx EXCEPT ![r] = Idle]  BY <1>1, <1>3, <2>7, <3>1, RequestsKept
    <3>2. CASE tx' = [tx EXCEPT ![r] = y]  BY <1>1, <2>5, <2>7, <3>2, RequestsKept
    <3> QED BY <2>6, <3>1, <3>2
  <2>9. PlansFollowTheSlot' /\ RetiredHoldNothing'
    BY <2>2 DEF LedgerInv, PlansFollowTheSlot, RetiredHoldNothing, Rows, Live
  <2>10. LeaveShows'  BY <2>2 DEF LedgerInv, LeaveShows, Rows, LeaveOf
  <2> QED BY <1>1, <2>8, <2>9, <2>10 DEF LedgerInv
<1>7. CASE CommitChange(r)
  <2>1. tx' = [tx EXCEPT ![r] = Idle] /\ UNCHANGED <<today, open, ended, laid, absence, made>>
    BY <1>7 DEF CommitChange
  <2>2. CASE Accepted(r)
    <3>1. days' = Committed(r)  BY <1>7, <2>2 DEF CommitChange
    <3>2. RowsAge /\ LeaveShows'  BY <2>1, <3>1, CommittedLeave
    <3>3. RequestsOK'  BY <1>1, <1>3, <2>1, <3>2, RequestsKept
    <3> QED BY <1>1, <1>7, <2>2, <3>2, <3>3, ChangePromises DEF LedgerInv
  <2>3. CASE ~Accepted(r)
    <3>1. days' = days /\ slots' = slots  BY <1>7, <2>3 DEF CommitChange
    <3>2. RowsAge  BY <1>2, <2>1, <3>1 DEF RowsAge, IsPlan
    <3>3. RequestsOK'  BY <1>1, <1>3, <2>1, <3>2, RequestsKept
    <3>4. PlansFollowTheSlot' /\ RetiredHoldNothing'
      BY <2>1, <3>1 DEF LedgerInv, PlansFollowTheSlot, RetiredHoldNothing, Rows, Live
    <3>5. LeaveShows'  BY <2>1, <3>1 DEF LedgerInv, LeaveShows, Rows, LeaveOf
    <3> QED BY <1>1, <3>3, <3>4, <3>5 DEF LedgerInv
  <2> QED BY <2>2, <2>3
<1>8. ASSUME tx[r].op \in {"end", "close"}, days' = Committed(r), tx' = [tx EXCEPT ![r] = Idle],
             UNCHANGED <<today, laid, absence>>
      PROVE  LedgerInv'
  <2>1. RowsAge /\ LeaveShows'  BY <1>8, CommittedLeave
  <2>2. RequestsOK'  BY <1>1, <1>3, <1>8, <2>1, RequestsKept
  <2>3. ASSUME NEW k \in Keys, IsPlan(k)', k[2] >= today' PROVE FALSE
    <3>1. Ends(tx[r])  BY InFlight DEF RequestOK
    <3>2. IsPlan(k) /\ Id(k) \notin tx[r].drop /\ (Mine(r, k) => Id(k) \in tx[r].seen)
      BY <1>8, <2>3, CommittedKeys
    <3>3. Mine(r, k)  BY <1>8, <3>1 DEF Ends, Mine
    <3> QED BY <1>8, <2>3, <3>1, <3>2, <3>3 DEF Ends
  <2>4. PlansFollowTheSlot' /\ RetiredHoldNothing'  BY <1>1, <2>3, PromisesHold
  <2> QED BY <1>1, <2>1, <2>2, <2>4 DEF LedgerInv
<1>9. CASE CommitEnd(r)  BY <1>8, <1>9 DEF CommitEnd
<1>10. CASE CommitCycle(r)
  <2>1. CASE tx[r].op = "close"  BY <1>8, <1>10, <2>1 DEF CommitCycle
  <2>2. CASE tx[r].op = "open"
    <3>1. open' = TRUE /\ tx' = [tx EXCEPT ![r] = Idle]
          /\ UNCHANGED <<today, ended, slots, days, laid, absence, made>>
      BY <1>10, <2>2 DEF CommitCycle
    <3>2. RowsAge  BY <1>2, <3>1 DEF RowsAge, IsPlan
    <3>3. RequestsOK'  BY <1>1, <1>3, <3>1, <3>2, RequestsKept
    <3>4. PlansFollowTheSlot' /\ RetiredHoldNothing'
      BY <3>1 DEF LedgerInv, PlansFollowTheSlot, RetiredHoldNothing, Rows, Live
    <3>5. LeaveShows'  BY <3>1 DEF LedgerInv, LeaveShows, Rows, LeaveOf
    <3> QED BY <1>1, <3>3, <3>4, <3>5 DEF LedgerInv
  <2> QED BY <1>10, <2>1, <2>2 DEF CommitCycle
<1> QED BY <1>4, <1>5, <1>6, <1>7, <1>9, <1>10 DEF Committing

-----------------------------------------------------------------------------
(* The theorems.                                                            *)

LEMMA LedgerInit == Init => LedgerInv
<1> SUFFICES ASSUME Init PROVE LedgerInv  OBVIOUS
<1>1. TypeOK
  <2>1. slots \in [Slots -> Slot]
    <3>1. \A x \in Shapes \cup {NoSlot} : x \in Slot  BY NoSlotTyped, ShapeTyped
    <3>2. slots \in [Slots -> Shapes \cup {NoSlot}]  BY LedgerAssumption DEF Init
    <3> QED BY <3>1, <3>2
  <2>2. 0 \in Dates /\ 0 \in Nat  BY LedgerAssumption DEF Dates
  <2> QED BY <2>1, <2>2, IdleTyped DEF Init, TypeOK
<1>2. RequestsOK
  <2>1. ASSUME NEW i \in Requests PROVE tx[i] = Idle  BY DEF Init
  <2> QED BY <2>1, IdleOK DEF RequestsOK
<1>3. Rows = {}  BY DEF Init, Rows
<1> QED BY <1>1, <1>2, <1>3 DEF LedgerInv, PlansFollowTheSlot, RetiredHoldNothing, LeaveShows

LEMMA LedgerStep == LedgerInv /\ [Next]_vars => LedgerInv'
<1> SUFFICES ASSUME LedgerInv, [Next]_vars PROVE LedgerInv'  OBVIOUS
<1>1. ASSUME NEW r \in Requests, Reading(r) PROVE LedgerInv'  BY <1>1, ReadingKept
<1>2. ASSUME NEW r \in Requests, Committing(r) PROVE LedgerInv'  BY <1>2, CommittingKept
<1>3. CASE Daily  BY <1>3, DailyKept
<1>4. CASE UNCHANGED vars
  <2> USE <1>4 DEF vars
  <2>1. TypeOK'  BY DEF LedgerInv, TypeOK
  <2>2. RowsAge
    <3>1. today \in Int /\ \A k \in Keys : laid[k] \in Int  BY TodayInt DEF LedgerInv, TypeOK
    <3> QED BY <3>1 DEF RowsAge, IsPlan
  <2>3. RequestsOK'  BY <2>1, <2>2, RequestsStand
  <2>4. PlansFollowTheSlot' /\ RetiredHoldNothing'
    BY DEF LedgerInv, PlansFollowTheSlot, RetiredHoldNothing, Rows, Live
  <2>5. LeaveShows'  BY DEF LedgerInv, LeaveShows, Rows, LeaveOf
  <2> QED BY <2>1, <2>3, <2>4, <2>5 DEF LedgerInv
<1> QED BY <1>1, <1>2, <1>3, <1>4 DEF Next, Daily

\* What has been read, and not yet written, stays true enough to be written:
\* the invariant holds throughout.
THEOREM LedgerInvariant == Spec => []LedgerInv
<1>1. Init => LedgerInv  BY LedgerInit
<1>2. LedgerInv /\ [Next]_vars => LedgerInv'  BY LedgerStep
<1> QED BY <1>1, <1>2, PTL DEF Spec

\* The plans ahead are those of the timetable, for any number of requests that
\* create, move, retire, open and close while days are written.
THEOREM PlansAreOfTheTimetableHolds == Spec => []PlansAreOfTheTimetable
<1>1. LedgerInv => PlansAreOfTheTimetable  BY DEF LedgerInv, PlansAreOfTheTimetable
<1> QED BY <1>1, LedgerInvariant, PTL

\* Leave shows on every day it covers, but where it was overridden.
THEOREM LeaveShowsHolds == Spec => []LeaveShows
<1>1. LedgerInv => LeaveShows  BY DEF LedgerInv
<1> QED BY <1>1, LedgerInvariant, PTL

-----------------------------------------------------------------------------
\* A record this request read, and did not plan to touch, it leaves alone.
LEMMA CommitSpares ==
    ASSUME LedgerInv, NEW r \in Requests, days' = Committed(r),
           NEW k \in Keys, days[k] # NULL, Id(k) \in tx[r].records
    PROVE  /\ days'[k] # NULL /\ days'[k].place = days[k].place /\ days'[k].lead = days[k].lead
<1>1. TypeOK /\ Spares(tx[r])  BY InFlight DEF LedgerInv, RequestOK
<1>2. Id(k) \notin tx[r].drop /\ New(r, k) = {}  BY <1>1 DEF Spares, New
<1> DEFINE d == Committed(r)[k]
<1>3. /\ d \in Day /\ d.place = Put(days[k].place, {c.place : c \in New(r, k)})
      /\ d.lead = Put(days[k].lead, {c.lead : c \in New(r, k)})
  BY <1>1, <1>2, CommittedRow
<1>4. days'[k] = d  OBVIOUS
<1> HIDE DEF d
<1>5. {c.place : c \in New(r, k)} = {} /\ {c.lead : c \in New(r, k)} = {}  BY <1>2
<1> QED BY <1>3, <1>4, <1>5, LedgerAssumption DEF Put

\* No step that ends a request touches what was a record when the request read.
LEMMA StepSpares ==
    ASSUME LedgerInv, Next, NEW r \in Requests, tx'[r] = Idle, NEW id \in tx[r].records,
           days[id[1]] # NULL, Id(id[1]) = id
    PROVE  /\ days'[id[1]] # NULL /\ laid'[id[1]] = laid[id[1]]
           /\ days'[id[1]].place = days[id[1]].place /\ days'[id[1]].lead = days[id[1]].lead
<1> TypeOK  BY DEF LedgerInv
<1>1. PICK k \in Keys : k = id[1]
  <2>1. tx[r] \in Request  BY InFlight
  <2>2. id \in RowId  BY <2>1 DEF Request
  <2> QED BY <2>2 DEF RowId
<1>2. Idle.records = {}  BY DEF Idle
<1>3. tx'[r] # tx[r]  BY <1>2
<1>4. ASSUME NEW i \in Requests, NEW y, tx' = [tx EXCEPT ![i] = y] PROVE i = r
  BY <1>3, <1>4 DEF TypeOK
<1>5. ASSUME NEW i \in Requests, Reading(i) PROVE UNCHANGED <<days, laid>>
  BY <1>5 DEF Reading, MaterializeHorizon, CloseCycle, OpenCycle, RetireActivity, GenerateDay,
              DeleteMasterSlot, RetireMasterSlot, CreateMasterSlot, UpdateMasterSlot, Reads
<1>6. ASSUME NEW i \in Requests, Committing(i)
      PROVE  \/ UNCHANGED <<days, laid>>
             \/ days' = Committed(r) /\ laid' = laid
             \/ days'[k] = days[k] /\ laid'[k] = laid[k]
  <2>1. CASE WriteDays(i)
    <3> DEFINE after == Stored(tx[i].write)
    <3>1. days' = after /\ laid' = [j \in Keys |-> IF after[j] # days[j] THEN laid[j] + 1 ELSE laid[j]]
      BY <2>1 DEF WriteDays, Stored
    <3>2. StoredAs(after[k], tx[i].write, k)  BY StoredRows
    <3> HIDE DEF after
    <3>3. after[k] = days[k]  BY <1>1, <3>2 DEF StoredAs
    <3> QED BY <3>1, <3>3
  <2>2. CASE CommitCreate(i) \/ FillHorizon(i)  BY <2>2 DEF CommitCreate, FillHorizon
  <2>3. CASE CommitChange(i)
    <3>1. i = r  BY <1>4, <2>3 DEF CommitChange
    <3> QED BY <2>3, <3>1 DEF CommitChange
  <2>4. CASE CommitEnd(i)
    <3>1. i = r  BY <1>4, <2>4 DEF CommitEnd
    <3> QED BY <2>4, <3>1 DEF CommitEnd
  <2>5. CASE CommitCycle(i)
    <3>1. i = r  BY <1>4, <2>5 DEF CommitCycle
    <3> QED BY <2>5, <3>1 DEF CommitCycle
  <2> QED BY <1>6, <2>1, <2>2, <2>3, <2>4, <2>5 DEF Committing
<1>7. ASSUME Daily PROVE tx' = tx
  BY <1>7 DEF Daily, WriteMark, UpdateLedgerEntry, RouteAbsenceDeclaration, CommitAbsenceOverride, NextDay
<1>8. \/ days'[k] = days[k] /\ laid'[k] = laid[k]
      \/ days' = Committed(r) /\ laid' = laid
  <2>1. ~Daily  BY <1>3, <1>7
  <2>2. \E i \in Requests : Reading(i) \/ Committing(i)  BY <2>1 DEF Next, Daily
  <2> QED BY <1>5, <1>6, <2>2
<1>9. CASE days'[k] = days[k] /\ laid'[k] = laid[k]  BY <1>1, <1>9
<1>10. CASE days' = Committed(r) /\ laid' = laid
  <2>1. days[k] # NULL /\ Id(k) \in tx[r].records  BY <1>1
  <2> QED BY <1>1, <1>10, <2>1, CommitSpares
<1> QED BY <1>8, <1>9, <1>10

\* A day that was over, or carried attendance or a note, when a request read
\* the ledger, is as it was after the request wrote: however many requests are
\* in flight, and however the class is changed.
THEOREM RecordsSurviveHolds == Spec => RecordsSurvive
<1> DEFINE Left(r) == tx'[r] = Idle =>
              \A id \in tx[r].records : days[id[1]] # NULL /\ Id(id[1]) = id =>
                  /\ days'[id[1]] # NULL /\ laid'[id[1]] = laid[id[1]]
                  /\ days'[id[1]].place = days[id[1]].place
                  /\ days'[id[1]].lead = days[id[1]].lead
<1>1. LedgerInv /\ [Next]_vars => [\A r \in Requests : Left(r)]_vars
  <2> SUFFICES ASSUME LedgerInv, Next PROVE \A r \in Requests : Left(r)  OBVIOUS
  <2> QED BY StepSpares
<1>2. Spec => [][\A r \in Requests : Left(r)]_vars  BY <1>1, LedgerInvariant, PTL DEF Spec
<1> QED BY <1>2 DEF RecordsSurvive
=============================================================================
