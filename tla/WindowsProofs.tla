---------------------------- MODULE WindowsProofs ----------------------------
(***************************************************************************)
(* Facts about the arithmetic of Windows, for a day of any length: dates   *)
(* and times, spans, and the sums over a pool.                             *)
(***************************************************************************)
EXTENDS Windows, FiniteSetTheorems, WellFoundedInduction, TLAPS
-----------------------------------------------------------------------------
(* Dates and times.                                                         *)

LEMMA DayIs == Day \in Nat /\ Day \in Int /\ Day >= 1
BY DayAssumption

LEMMA NextDate == ASSUME NEW d \in Int PROVE Day * d \in Int /\ Day * (d + 1) = Day * d + Day
BY DayIs

LEMMA LaterDate ==
    ASSUME NEW c \in Int, NEW d \in Int, c < d
    PROVE  Day * c + Day <= Day * d
<1>1. Day * (d - c) >= Day  BY DayIs
<1>2. Day * (d - c) = Day * d - Day * c /\ Day * d \in Int /\ Day * c \in Int /\ Day \in Int  BY DayIs
<1> QED BY <1>1, <1>2

\* A date and a time of day are told from their instant.
LEMMA DateAndTime ==
    ASSUME NEW d \in Int, NEW t \in 0..(Day - 1)
    PROVE  (Day * d + t) \div Day = d /\ (Day * d + t) % Day = t
<1> DEFINE i == Day * d + t
           q == i \div Day
           m == i % Day
<1>1. Day \in Int /\ Day >= 1 /\ t \in Int /\ 0 <= t /\ t < Day /\ Day * d \in Int /\ i \in Int  BY DayIs
<1>2. q \in Int /\ m \in Int /\ 0 <= m /\ m < Day /\ i = Day * q + m
  <2> HIDE DEF i
  <2> QED BY <1>1
<1> HIDE DEF q, m
<1>3. Day * q \in Int  BY <1>1, <1>2
<1>4. ~(q < d)
  <2> SUFFICES ASSUME q < d PROVE FALSE  OBVIOUS
  <2>1. Day * q + Day <= Day * d  BY <1>2, LaterDate
  <2> QED BY <1>1, <1>2, <1>3, <2>1
<1>5. ~(d < q)
  <2> SUFFICES ASSUME d < q PROVE FALSE  OBVIOUS
  <2>1. Day * d + Day <= Day * q  BY <1>2, LaterDate
  <2> QED BY <1>1, <1>2, <1>3, <2>1
<1>6. q = d  BY <1>2, <1>4, <1>5
<1>7. m = t  BY <1>1, <1>2, <1>3, <1>6
<1> QED BY <1>6, <1>7 DEF q, m

\* An instant is a date and a time of day.
LEMMA InstantIs ==
    ASSUME NEW i \in Int
    PROVE  /\ i \div Day \in Int /\ i % Day \in 0..(Day - 1) /\ i = Day * (i \div Day) + (i % Day)
BY DayIs

\* What a stored window stands for: it starts on its date, ends within a day.
LEMMA SpanIs ==
    ASSUME NEW d \in Int, NEW s \in 0..(Day - 1), NEW e \in 0..(Day - 1), s # e
    PROVE  LET win == WindowSpan(d, s, e)
           IN  /\ win[1] = Day * d + s /\ win[1] \in Int /\ win[2] \in Int
               /\ win[2] = Day * d + e + (IF e < s THEN Day ELSE 0)
               /\ win[1] < win[2] /\ win[2] < win[1] + Day
               /\ Day * d <= win[1] /\ win[1] < Day * d + Day
               /\ win[2] < Day * d + Day + Day
<1>1. Day \in Int /\ Day * d \in Int /\ Day * (d + 1) = Day * d + Day  BY DayIs, NextDate
<1>2. s \in Int /\ e \in Int /\ 0 <= s /\ s < Day /\ 0 <= e /\ e < Day  BY DayIs
<1> DEFINE D == Day * d
           win == WindowSpan(d, s, e)
<1>3. win[1] = D + s  BY DEF WindowSpan
<1>4. win[2] = D + e + (IF e < s THEN Day ELSE 0)  BY <1>1, <1>2 DEF WindowSpan, LastDate
<1>5. D \in Int  BY <1>1
<1> HIDE DEF win, D
<1>6. /\ win[1] = D + s /\ win[1] \in Int /\ win[2] \in Int
      /\ win[2] = D + e + (IF e < s THEN Day ELSE 0)
      /\ win[1] < win[2] /\ win[2] < win[1] + Day
      /\ D <= win[1] /\ win[1] < D + Day
      /\ win[2] < D + Day + Day
  BY <1>1, <1>2, <1>3, <1>4, <1>5
<1> QED BY <1>6 DEF win, D

LEMMA NotNoWindow == \A a, b, c : <<a, b, c>> # NoWindow
<1> SUFFICES ASSUME NEW a, NEW b, NEW c PROVE <<a, b, c>> # <<>>  BY DEF NoWindow
<1>1. 3 \in DOMAIN <<a, b, c>> /\ 3 \notin DOMAIN <<>>  OBVIOUS
<1> QED BY <1>1

\* A window shorter than a day, of a date, is what its date and times stand for.
LEMMA ReadBack ==
    ASSUME NEW d \in Int, NEW i \in Int, NEW j \in Int,
           Day * d <= i, i < Day * d + Day, i < j, j < i + Day
    PROVE  /\ i % Day # j % Day
           /\ WindowSpan(d, i % Day, j % Day) = <<i, j>>
<1>1. Day \in Int /\ Day >= 1 /\ Day * d \in Int /\ Day * (d + 1) = Day * d + Day  BY DayIs, NextDate
<1> DEFINE D == Day * d
           t == i - D
           u == j - D
<1>2. D \in Int /\ t \in 0..(Day - 1) /\ u \in Int /\ t < u /\ u < t + Day /\ i = D + t /\ j = D + u
  BY <1>1
<1>3. i % Day = t
  <2>1. (Day * d + t) % Day = t  BY <1>2, DateAndTime
  <2> QED BY <1>2, <2>1
<1>4. CASE u < Day
  <2>1. u \in 0..(Day - 1)  BY <1>1, <1>2, <1>4
  <2>2. (Day * d + u) % Day = u  BY <2>1, DateAndTime
  <2>3. j % Day = u  BY <1>2, <2>2
  <2>4. ~(u < t)  BY <1>1, <1>2
  <2>5. WindowSpan(d, t, u) = <<D + t, D + u>>  BY <2>4 DEF WindowSpan, LastDate
  <2>6. t # u  BY <1>1, <1>2
  <2> QED BY <1>2, <1>3, <2>3, <2>5, <2>6
<1>5. CASE ~(u < Day)
  <2> DEFINE v == u - Day
  <2>1. v \in 0..(Day - 1) /\ v < t  BY <1>1, <1>2, <1>5
  <2>2. (Day * (d + 1) + v) % Day = v  BY <2>1, DateAndTime
  <2>3. Day * (d + 1) + v = j  BY <1>1, <1>2
  <2>4. j % Day = v  BY <2>2, <2>3
  <2>5. WindowSpan(d, t, v) = <<D + t, Day * (d + 1) + v>>  BY <2>1 DEF WindowSpan, LastDate
  <2>6. t # v  BY <1>1, <1>2, <2>1
  <2> HIDE DEF v
  <2> QED BY <1>2, <1>3, <2>3, <2>4, <2>5, <2>6
<1> QED BY <1>4, <1>5

\* Padding below a day either widens the window to just what was asked, or is
\* refused for leaving the dates of the window.
LEMMA PaddedBelowADay ==
    ASSUME NEW d \in Int, NEW s \in 0..(Day - 1), NEW e \in 0..(Day - 1), s # e,
           NEW before \in Nat, NEW after \in Nat, NEW win, win = WindowSpan(d, s, e),
           (win[2] + after) - (win[1] - before) < Day
    PROVE  Padded(win, before, after) =
             IF /\ win[1] - before >= Day * d
                /\ win[2] + after <= Day * (((win[2] - 1) \div Day) + 1)
             THEN <<win[1] - before, win[2] + after>> ELSE NoWindow
<1> DEFINE D == Day * d
           starts == win[1] - before
           ends == win[2] + after
           closes == Day * (((win[2] - 1) \div Day) + 1)
<1>1. Day \in Int /\ Day >= 1 /\ D \in Int  BY DayIs, NextDate
<1>2. /\ win[1] \in Int /\ win[2] \in Int /\ win[1] < win[2] /\ win[2] < win[1] + Day
      /\ D <= win[1] /\ win[1] < D + Day /\ win[1] = D + s /\ win = <<win[1], win[2]>>
  <2>1. LET w == WindowSpan(d, s, e)
        IN  w[1] \in Int /\ w[2] \in Int /\ w[1] < w[2] /\ w[2] < w[1] + Day
            /\ Day * d <= w[1] /\ w[1] < Day * d + Day /\ w[1] = Day * d + s
    BY SpanIs
  <2>2. WindowSpan(d, s, e) = <<WindowSpan(d, s, e)[1], WindowSpan(d, s, e)[2]>>  BY DEF WindowSpan
  <2> QED BY <2>1, <2>2
<1>3. win[1] \div Day = d
  <2>1. (Day * d + s) \div Day = d  BY DateAndTime
  <2> QED BY <1>2, <2>1
<1>4. /\ starts \in Int /\ ends \in Int /\ starts < ends /\ ends < starts + Day /\ starts < D + Day
  BY <1>1, <1>2
<1>5. closes \in Int /\ win[2] <= closes
  <2> DEFINE i == win[2] - 1
  <2>1. i \in Int  BY <1>2
  <2>2. i \div Day \in Int /\ i % Day \in 0..(Day - 1) /\ i = Day * (i \div Day) + (i % Day)
    BY <2>1, InstantIs
  <2>3. Day * (i \div Day) \in Int /\ closes = Day * (i \div Day) + Day  BY <2>2, NextDate
  <2> HIDE DEF closes
  <2>4. i % Day < Day /\ i % Day \in Int  BY <1>1, <2>2
  <2> HIDE DEF i
  <2>5. i < closes  BY <1>1, <2>1, <2>2, <2>3, <2>4
  <2>6. win[2] = i + 1  BY <1>2 DEF i
  <2> QED BY <1>1, <2>1, <2>3, <2>5, <2>6
<1>6. PaddedRow(win, before, after) =
         IF before = 0 /\ after = 0 THEN <<d, win[1] % Day, win[2] % Day>>
         ELSE IF starts < D \/ ends > closes \/ starts % Day = ends % Day THEN NoWindow
         ELSE <<d, starts % Day, ends % Day>>
  BY <1>3 DEF PaddedRow
<1>7. Padded(win, before, after) =
         LET kept == PaddedRow(win, before, after)
         IN  IF kept = NoWindow THEN NoWindow ELSE WindowSpan(kept[1], kept[2], kept[3])
  BY DEF Padded
<1> HIDE DEF D, starts, ends, closes
<1>8. CASE before = 0 /\ after = 0
  <2>1. starts = win[1] /\ ends = win[2]  BY <1>2, <1>8 DEF starts, ends
  <2>2. PaddedRow(win, before, after) = <<d, win[1] % Day, win[2] % Day>>  BY <1>6, <1>8
  <2>3. Padded(win, before, after) = WindowSpan(d, win[1] % Day, win[2] % Day)
    BY <1>7, <2>2, NotNoWindow
  <2>4. WindowSpan(d, win[1] % Day, win[2] % Day) = <<win[1], win[2]>>  BY <1>2, ReadBack DEF D
  <2>5. starts >= D /\ ends <= closes  BY <1>1, <1>2, <1>5, <2>1
  <2> QED BY <2>1, <2>3, <2>4, <2>5 DEF starts, ends, closes, D
<1>9. CASE ~(before = 0 /\ after = 0)
  <2>1. CASE starts < D \/ ends > closes
    <3>1. PaddedRow(win, before, after) = NoWindow  BY <1>6, <1>9, <2>1
    <3>2. Padded(win, before, after) = NoWindow  BY <1>7, <3>1
    <3>3. ~(starts >= D /\ ends <= closes)  BY <1>1, <1>4, <1>5, <2>1
    <3> QED BY <3>2, <3>3 DEF starts, ends, closes, D
  <2>2. CASE ~(starts < D \/ ends > closes)
    <3>1. D <= starts /\ ends <= closes /\ starts >= D  BY <1>1, <1>4, <1>5, <2>2
    <3>2. starts % Day # ends % Day /\ WindowSpan(d, starts % Day, ends % Day) = <<starts, ends>>
      BY <1>4, <3>1, ReadBack DEF D
    <3>3. PaddedRow(win, before, after) = <<d, starts % Day, ends % Day>>  BY <1>6, <1>9, <2>2, <3>2
    <3>4. Padded(win, before, after) = <<starts, ends>>  BY <1>7, <3>2, <3>3, NotNoWindow
    <3> QED BY <3>1, <3>4 DEF starts, ends, closes, D
  <2> QED BY <2>1, <2>2
<1> QED BY <1>8, <1>9

\* Two windows meet where they share an instant.
LEMMA MeetIsShared ==
    ASSUME NEW a1 \in Int, NEW a2 \in Int, NEW b1 \in Int, NEW b2 \in Int, a1 < a2, b1 < b2
    PROVE  (a1 < b2 /\ b1 < a2) <=> (a1..(a2 - 1)) \cap (b1..(b2 - 1)) # {}
<1>1. ASSUME a1 < b2, b1 < a2 PROVE (a1..(a2 - 1)) \cap (b1..(b2 - 1)) # {}
  <2>1. CASE a1 <= b1
    <3>1. b1 \in a1..(a2 - 1) /\ b1 \in b1..(b2 - 1)  BY <1>1, <2>1
    <3> QED BY <3>1
  <2>2. CASE ~(a1 <= b1)
    <3>1. a1 \in a1..(a2 - 1) /\ a1 \in b1..(b2 - 1)  BY <1>1, <2>2
    <3> QED BY <3>1
  <2> QED BY <2>1, <2>2
<1>2. ASSUME NEW i \in (a1..(a2 - 1)) \cap (b1..(b2 - 1)) PROVE a1 < b2 /\ b1 < a2
  <2>1. i \in Int /\ a1 <= i /\ i <= a2 - 1 /\ b1 <= i /\ i <= b2 - 1  OBVIOUS
  <2> QED BY <2>1
<1> QED BY <1>1, <1>2

\* Where a window lies, even one that ends as it starts.
LEMMA SpanLies ==
    ASSUME NEW d \in Int, NEW s \in 0..(Day - 1), NEW e \in 0..(Day - 1)
    PROVE  LET win == WindowSpan(d, s, e)
           IN  /\ win = <<win[1], win[2]>> /\ win[1] \in Int /\ win[2] \in Int
               /\ win[1] = Day * d + s /\ Day * d <= win[1] /\ win[1] < Day * d + Day
               /\ win[1] <= win[2] /\ win[2] < Day * d + Day + Day
               /\ win[2] <= Day * LastDate(d, s, e) + Day
               /\ d <= LastDate(d, s, e) /\ LastDate(d, s, e) \in Int
<1> DEFINE win == WindowSpan(d, s, e)
<1>1. CASE s # e
  <2>1. /\ win[1] = Day * d + s /\ win[1] \in Int /\ win[2] \in Int
        /\ win[1] < win[2] /\ Day * d <= win[1] /\ win[1] < Day * d + Day /\ win[2] < Day * d + Day + Day
        /\ win[2] = Day * d + e + (IF e < s THEN Day ELSE 0)
    BY <1>1, SpanIs
  <2>2. win = <<win[1], win[2]>>  BY DEF WindowSpan
  <2>3. Day * (d + 1) = Day * d + Day /\ Day * d \in Int /\ Day \in Int  BY DayIs, NextDate
  <2>4. e \in Int /\ e < Day  BY DayIs
  <2> HIDE DEF win
  <2>5. CASE e < s
    <3>1. LastDate(d, s, e) = d + 1  BY <2>5 DEF LastDate
    <3> QED BY <2>1, <2>2, <2>3, <2>4, <2>5, <3>1 DEF win
  <2>6. CASE ~(e < s)
    <3>1. LastDate(d, s, e) = d  BY <2>6 DEF LastDate
    <3> QED BY <2>1, <2>2, <2>3, <2>4, <2>6, <3>1 DEF win
  <2> QED BY <2>5, <2>6
<1>2. CASE s = e
  <2>1. ~(e < s) /\ s \in Int /\ 0 <= s /\ s < Day /\ Day \in Int /\ Day * d \in Int  BY <1>2, DayIs
  <2>2. win = <<Day * d + s, Day * d + e>> /\ LastDate(d, s, e) = d  BY <2>1 DEF WindowSpan, LastDate
  <2>3. win = <<win[1], win[2]>> /\ win[1] = Day * d + s /\ win[2] = Day * d + s  BY <1>2, <2>2
  <2> HIDE DEF win
  <2> QED BY <1>2, <2>1, <2>2, <2>3 DEF win
<1> QED BY <1>1, <1>2

\* Windows of dates two apart never meet.
LEMMA FarDates ==
    ASSUME NEW c \in Int, NEW d \in Int, c + 1 < d,
           NEW s \in 0..(Day - 1), NEW e \in 0..(Day - 1),
           NEW t \in 0..(Day - 1), NEW u \in 0..(Day - 1)
    PROVE  /\ ~Overlaps(WindowSpan(c, s, e), WindowSpan(d, t, u))
           /\ ~Overlaps(WindowSpan(d, t, u), WindowSpan(c, s, e))
<1> DEFINE v == WindowSpan(c, s, e)
           w == WindowSpan(d, t, u)
<1>1. v[2] \in Int /\ v[2] < Day * c + Day + Day  BY SpanLies
<1>2. w[1] \in Int /\ Day * d <= w[1]  BY SpanLies
<1>3. Day * (c + 1) + Day <= Day * d  BY LaterDate
<1>4. Day * (c + 1) = Day * c + Day /\ Day * c \in Int /\ Day * d \in Int /\ Day \in Int
  BY NextDate, DayIs
<1> HIDE DEF v, w
<1>5. v[2] <= w[1]  BY <1>1, <1>2, <1>3, <1>4
<1>6. ~(w[1] < v[2])  BY <1>1, <1>2, <1>5
<1> QED BY <1>6 DEF Overlaps, v, w

LEMMA NearDates ==
    ASSUME NEW c \in Int, NEW d \in Int,
           NEW s \in 0..(Day - 1), NEW e \in 0..(Day - 1),
           NEW t \in 0..(Day - 1), NEW u \in 0..(Day - 1),
           Overlaps(WindowSpan(c, s, e), WindowSpan(d, t, u))
    PROVE  d - c \in {-1, 0, 1} /\ c - d \in {-1, 0, 1}
<1>1. ~(c + 1 < d)  BY FarDates
<1>2. ~(d + 1 < c)  BY FarDates
<1> QED BY <1>1, <1>2

-----------------------------------------------------------------------------
(* The least and the greatest of a set.                                     *)

\* Min is the least, where there is one.
LEMMA LeastIs ==
    ASSUME NEW S, S \subseteq Int, NEW m \in S, \A n \in S : m <= n
    PROVE  Min(S) = m
<1>1. Min(S) \in S /\ \A y \in S : Min(S) <= y  BY DEF Min
<1>2. Min(S) \in Int /\ m \in Int /\ Min(S) <= m /\ m <= Min(S)  BY <1>1
<1> QED BY <1>2

LEMMA GreatestIs ==
    ASSUME NEW S, S \subseteq Int, NEW m \in S, \A n \in S : n <= m
    PROVE  Max(S) = m
<1>1. \E x \in S : \A y \in S : x >= y
  <2>1. \A y \in S : m >= y  OBVIOUS
  <2> QED BY <2>1
<1>2. Max(S) \in S /\ \A y \in S : Max(S) >= y  BY <1>1 DEF Max
<1>3. Max(S) \in Int /\ m \in Int /\ m <= Max(S) /\ Max(S) <= m  BY <1>2
<1> QED BY <1>3

LEMMA MinOfTwo == ASSUME NEW a \in Int, NEW b \in Int PROVE Min({a, b}) = IF a <= b THEN a ELSE b
<1>1. CASE a <= b  BY <1>1, LeastIs
<1>2. CASE ~(a <= b)  BY <1>2, LeastIs
<1> QED BY <1>1, <1>2

LEMMA MaxOfTwo == ASSUME NEW a \in Int, NEW b \in Int PROVE Max({a, b}) = IF a >= b THEN a ELSE b
<1>1. CASE a >= b  BY <1>1, GreatestIs
<1>2. CASE ~(a >= b)  BY <1>2, GreatestIs
<1> QED BY <1>1, <1>2

LEMMA MaxOfThree ==
    ASSUME NEW a \in Int, NEW b \in Int, NEW c \in Int
    PROVE  /\ Max({a, b, c}) \in Int
           /\ \A x \in Int : Max({a, b, c}) <= x <=> (a <= x /\ b <= x /\ c <= x)
<1> PICK m \in {a, b, c} : \A n \in {a, b, c} : n <= m
  <2>1. CASE a >= b /\ a >= c  BY <2>1
  <2>2. CASE b >= a /\ b >= c  BY <2>2
  <2>3. CASE c >= a /\ c >= b  BY <2>3
  <2> QED BY <2>1, <2>2, <2>3
<1>1. Max({a, b, c}) = m  BY GreatestIs
<1> QED BY <1>1

\* A set of integers that is bounded below has a least element.
LEMMA MinThere ==
    ASSUME NEW S, S \subseteq Int, S # {}, NEW b \in Int, \A n \in S : b <= n
    PROVE  Min(S) \in S /\ \A n \in S : Min(S) <= n
<1> DEFINE T == {n \in Nat : b + n \in S}
<1>1. PICK k \in S : TRUE  OBVIOUS
<1>2. k - b \in T  BY <1>1
<1> DEFINE R == {ss \in Nat \X Nat : ss[1] < ss[2]}
<1>3. PICK x \in T : \A y \in T : ~(<<y, x>> \in R)
  <2>1. IsWellFoundedOn(R, Nat)  BY NatLessThanWellFounded DEF OpToRel
  <2>2. T # {} /\ T \subseteq Nat  BY <1>2
  <2> HIDE DEF T, R
  <2> QED BY <2>1, <2>2, WFMin
<1>4. ASSUME NEW y \in T PROVE x <= y
  <2>1. y \in Nat /\ x \in Nat  OBVIOUS
  <2>2. y < x => <<y, x>> \in R  BY <2>1
  <2> QED BY <1>3, <2>1, <2>2
<1>5. b + x \in S /\ x \in Nat  BY <1>3
<1>6. ASSUME NEW n \in S PROVE b + x <= n
  <2>1. n - b \in T  BY <1>6
  <2> QED BY <1>4, <1>5, <2>1
<1>7. Min(S) = b + x  BY <1>5, <1>6, LeastIs
<1> QED BY <1>5, <1>6, <1>7

-----------------------------------------------------------------------------
(* Sums over a finite set.                                                  *)

\* Among some of the parts of a finite set, one has no smaller one next to it.
LEMMA SmallestPart ==
    ASSUME NEW T, IsFiniteSet(T), NEW C, C \subseteq SUBSET T, C # {}
    PROVE  \E s \in C : \A x \in s : s \ {x} \notin C
<1> DEFINE K == {Cardinality(s) : s \in C}
<1>1. \A s \in C : IsFiniteSet(s) /\ Cardinality(s) \in Nat
  <2> SUFFICES ASSUME NEW s \in C PROVE IsFiniteSet(s) /\ Cardinality(s) \in Nat  OBVIOUS
  <2>1. s \subseteq T  OBVIOUS
  <2> QED BY <2>1, FS_Subset, FS_CardinalityType
<1>2. K \subseteq Nat /\ K # {} /\ K \subseteq Int  BY <1>1
<1>3. \A n \in K : 0 <= n  BY <1>2
<1> DEFINE m == Min(K)
<1>4. m \in K /\ \A n \in K : m <= n
  <2>1. 0 \in Int  OBVIOUS
  <2> HIDE DEF K
  <2> QED BY <1>2, <1>3, <2>1, MinThere
<1>5. PICK s \in C : Cardinality(s) = m  BY <1>4
<1>6. ASSUME NEW x \in s PROVE s \ {x} \notin C
  <2> SUFFICES ASSUME s \ {x} \in C PROVE FALSE  OBVIOUS
  <2>1. Cardinality(s \ {x}) = Cardinality(s) - 1  BY <1>1, FS_RemoveElement
  <2>2. m <= Cardinality(s \ {x})  BY <1>4
  <2>3. m \in Nat  BY <1>2, <1>4
  <2> HIDE DEF m
  <2> QED BY <1>5, <2>1, <2>2, <2>3
<1> QED BY <1>6

\* What holds of no elements, and of one element more each time, holds of all.
LEMMA OneByOne ==
    ASSUME NEW T, IsFiniteSet(T), NEW G, {} \in G,
           \A s \in SUBSET T : \A x \in T \ s : s \in G => s \cup {x} \in G
    PROVE  T \in G
<1> SUFFICES ASSUME T \notin G PROVE FALSE  OBVIOUS
<1> DEFINE C == {s \in SUBSET T : s \notin G}
<1>1. C # {} /\ C \subseteq SUBSET T  OBVIOUS
<1>2. PICK s \in C : \A x \in s : s \ {x} \notin C
  <2> HIDE DEF C
  <2> QED BY <1>1, SmallestPart
<1>3. PICK x \in s : TRUE  OBVIOUS
<1>4. s \ {x} \in G /\ s \ {x} \in SUBSET T /\ x \in T \ (s \ {x})  BY <1>2, <1>3
<1>5. (s \ {x}) \cup {x} = s  BY <1>3
<1>6. (s \ {x}) \cup {x} \in G  BY <1>4
<1> QED BY <1>5, <1>6

IsSum(g, T, f) ==
    /\ g \in [SUBSET T -> Int] /\ g[{}] = 0
    /\ \A s \in SUBSET T : \A x \in s : g[s] = f[x] + g[s \ {x}]

LEMMA SumThere ==
    ASSUME NEW T, IsFiniteSet(T), NEW f, f \in [T -> Int]
    PROVE  \E g : IsSum(g, T, f)
<1> DEFINE G == {s \in SUBSET T : \E g : IsSum(g, s, f)}
<1>1. {} \in G
  <2> DEFINE g == [s \in {{}} |-> 0]
  <2>1. SUBSET {} = {{}}  OBVIOUS
  <2>2. IsSum(g, {}, f)  BY <2>1 DEF IsSum
  <2> HIDE DEF g
  <2> QED BY <2>2
<1>2. ASSUME NEW s \in SUBSET T, NEW x \in T \ s, s \in G PROVE s \cup {x} \in G
  <2>1. PICK g : IsSum(g, s, f)  BY <1>2
  <2> DEFINE u == s \cup {x}
             h == [r \in SUBSET u |-> IF x \in r THEN f[x] + g[r \ {x}] ELSE g[r]]
  <2>2. ASSUME NEW r \in SUBSET u PROVE r \ {x} \in SUBSET s /\ (x \notin r => r \in SUBSET s)
    OBVIOUS
  <2>3. f[x] \in Int /\ \A r \in SUBSET s : g[r] \in Int  BY <2>1 DEF IsSum
  <2>4. h \in [SUBSET u -> Int]
    <3> SUFFICES ASSUME NEW r \in SUBSET u PROVE h[r] \in Int  OBVIOUS
    <3>1. g[r \ {x}] \in Int /\ (x \notin r => g[r] \in Int)  BY <2>2, <2>3
    <3> QED BY <2>3, <3>1
  <2>5. h[{}] = 0  BY <2>1 DEF IsSum
  <2>6. ASSUME NEW r \in SUBSET u, NEW y \in r PROVE h[r] = f[y] + h[r \ {y}]
    <3>1. r \ {y} \in SUBSET u  OBVIOUS
    <3>2. CASE y = x
      <4>1. h[r] = f[x] + g[r \ {x}]  BY <3>2
      <4>2. h[r \ {x}] = g[r \ {x}]  BY <3>1, <3>2
      <4> HIDE DEF h
      <4> QED BY <3>2, <4>1, <4>2
    <3>3. CASE y # x /\ x \notin r
      <4>1. r \in SUBSET s /\ h[r] = g[r]  BY <2>2, <3>3
      <4>2. h[r \ {y}] = g[r \ {y}]  BY <3>1, <3>3
      <4>3. g[r] = f[y] + g[r \ {y}]  BY <2>1, <4>1 DEF IsSum
      <4> HIDE DEF h
      <4> QED BY <4>1, <4>2, <4>3
    <3>4. CASE y # x /\ x \in r
      <4> DEFINE p == r \ {x}
                 q == p \ {y}
      <4>1. h[r] = f[x] + g[p]  BY <3>4
      <4>2. p \in SUBSET s /\ y \in p  BY <2>2, <3>4
      <4>3. g[p] = f[y] + g[q]  BY <2>1, <4>2 DEF IsSum
      <4>4. x \in r \ {y} /\ (r \ {y}) \ {x} = q  BY <3>4
      <4>5. h[r \ {y}] = f[x] + g[q]  BY <3>1, <4>4
      <4>6. q \in SUBSET s /\ f[y] \in Int
        <5>1. y \in T  BY <4>2
        <5> QED BY <4>2, <5>1
      <4>7. g[q] \in Int  BY <2>3, <4>6
      <4> HIDE DEF h, p, q
      <4> QED BY <2>3, <4>1, <4>3, <4>5, <4>6, <4>7
    <3> QED BY <3>2, <3>3, <3>4
  <2> HIDE DEF h
  <2>7. IsSum(h, u, f)  BY <2>4, <2>5, <2>6 DEF IsSum
  <2> QED BY <2>7
<1> HIDE DEF G
<1>3. T \in G  BY <1>1, <1>2, OneByOne
<1> QED BY <1>3 DEF G

\* The library's sum: take one element out, and add it to the rest.
IsFold(g, T, f) ==
    g = [s \in SUBSET T |-> IF s = {} THEN 0 ELSE LET x == CHOOSE x \in s : TRUE IN f[x] + g[s \ {x}]]

LEMMA SumIsFold ==
    ASSUME NEW T, NEW f, NEW g, IsSum(g, T, f)
    PROVE  IsFold(g, T, f)
<1> DEFINE h == [s \in SUBSET T |-> IF s = {} THEN 0 ELSE LET x == CHOOSE x \in s : TRUE IN f[x] + g[s \ {x}]]
<1>1. ASSUME NEW s \in SUBSET T PROVE g[s] = h[s]
  <2>1. CASE s = {}  BY <2>1 DEF IsSum
  <2>2. CASE s # {}
    <3> DEFINE x == CHOOSE x \in s : TRUE
    <3>1. x \in s  BY <2>2
    <3>2. h[s] = f[x] + g[s \ {x}]  BY <2>2
    <3> HIDE DEF x, h
    <3> QED BY <3>1, <3>2 DEF IsSum
  <2> QED BY <2>1, <2>2
<1>2. g = [s \in SUBSET T |-> g[s]]  BY DEF IsSum
<1>3. g = [s \in SUBSET T |-> h[s]]
  <2> HIDE DEF h
  <2> QED BY <1>1, <1>2
<1> QED BY <1>3 DEF IsFold

LEMMA FoldIsSum ==
    ASSUME NEW T, IsFiniteSet(T), NEW f, f \in [T -> Int], NEW it, IsFold(it, T, f)
    PROVE  IsSum(it, T, f)
<1>1. PICK g : IsSum(g, T, f)  BY SumThere
<1> DEFINE C == {s \in SUBSET T : it[s] # g[s]}
<1>2. \A s \in SUBSET T : it[s] = IF s = {} THEN 0 ELSE f[CHOOSE x \in s : TRUE] + it[s \ {CHOOSE x \in s : TRUE}]
  BY DEF IsFold
<1>3. C = {}
  <2> SUFFICES ASSUME C # {} PROVE FALSE  OBVIOUS
  <2>1. C \subseteq SUBSET T  OBVIOUS
  <2>2. PICK s \in C : \A x \in s : s \ {x} \notin C
    <3> HIDE DEF C
    <3> QED BY <2>1, SmallestPart
  <2>3. s \in SUBSET T /\ it[s] # g[s]  OBVIOUS
  <2>4. s # {}  BY <1>1, <1>2, <2>3 DEF IsSum
  <2> DEFINE x == CHOOSE x \in s : TRUE
  <2>5. x \in s  BY <2>4
  <2>6. it[s] = f[x] + it[s \ {x}]  BY <1>2, <2>3, <2>4
  <2> HIDE DEF x
  <2>7. s \ {x} \in SUBSET T /\ s \ {x} \notin C  BY <2>2, <2>5
  <2>8. it[s \ {x}] = g[s \ {x}]  BY <2>7
  <2>9. g[s] = f[x] + g[s \ {x}]  BY <1>1, <2>3, <2>5 DEF IsSum
  <2> QED BY <2>3, <2>6, <2>8, <2>9
<1>4. it = [s \in SUBSET T |-> it[s]]  BY DEF IsFold
<1>5. g = [s \in SUBSET T |-> g[s]]  BY <1>1 DEF IsSum
<1>6. it = g  BY <1>3, <1>4, <1>5
<1> QED BY <1>1, <1>6

\* Two sums of the same numbers agree.
LEMMA SumsAgree ==
    ASSUME NEW T, NEW f, NEW g, IsSum(g, T, f), NEW T2, NEW f2, NEW g2, IsSum(g2, T2, f2),
           NEW s \in SUBSET T, s \in SUBSET T2, IsFiniteSet(s), \A x \in s : f[x] = f2[x]
    PROVE  g[s] = g2[s]
<1> DEFINE G == {r \in SUBSET s : g[r] = g2[r]}
<1>1. {} \in G  BY DEF IsSum
<1>2. ASSUME NEW r \in SUBSET s, NEW x \in s \ r, r \in G PROVE r \cup {x} \in G
  <2> DEFINE u == r \cup {x}
  <2>1. u \in SUBSET T /\ u \in SUBSET T2 /\ x \in u /\ u \ {x} = r  OBVIOUS
  <2> HIDE DEF u
  <2>2. g[u] = f[x] + g[r] /\ g2[u] = f2[x] + g2[r]  BY <2>1 DEF IsSum
  <2>3. u \in SUBSET s  BY DEF u
  <2> QED BY <1>2, <2>2, <2>3 DEF u
<1> HIDE DEF G
<1>3. s \in G  BY <1>1, <1>2, OneByOne
<1> QED BY <1>3 DEF G

-----------------------------------------------------------------------------
(* The units of a set of holds.                                             *)

Holds(H) == IsFiniteSet(H) /\ \A h \in H : h.qty \in Nat

LEMMA UnitsAre ==
    ASSUME NEW H, Holds(H), NEW T, H \subseteq T, NEW g, IsSum(g, T, [h \in T |-> h.qty])
    PROVE  Units(H) = g[H]
<1> DEFINE f == [h \in H |-> h.qty]
           it == CHOOSE i : i = [s \in SUBSET H |-> IF s = {} THEN 0
                                   ELSE LET x == CHOOSE x \in s : TRUE IN x.qty + i[s \ {x}]]
<1>1. f \in [H -> Int]  BY DEF Holds
<1>2. PICK k : IsSum(k, H, f)  BY <1>1, SumThere DEF Holds
<1>3. ASSUME NEW i PROVE
        [s \in SUBSET H |-> IF s = {} THEN 0 ELSE LET x == CHOOSE x \in s : TRUE IN x.qty + i[s \ {x}]]
        = [s \in SUBSET H |-> IF s = {} THEN 0 ELSE LET x == CHOOSE x \in s : TRUE IN f[x] + i[s \ {x}]]
  <2> DEFINE P(s) == IF s = {} THEN 0 ELSE LET x == CHOOSE x \in s : TRUE IN x.qty + i[s \ {x}]
             Q(s) == IF s = {} THEN 0 ELSE LET x == CHOOSE x \in s : TRUE IN f[x] + i[s \ {x}]
  <2>1. ASSUME NEW s \in SUBSET H PROVE P(s) = Q(s)
    <3>1. CASE s # {}
      <4> DEFINE x == CHOOSE y \in s : TRUE
      <4>1. x \in s  BY <3>1
      <4>2. f[x] = x.qty  BY <4>1
      <4>3. P(s) = x.qty + i[s \ {x}] /\ Q(s) = f[x] + i[s \ {x}]  BY <3>1
      <4> HIDE DEF x, f, P, Q
      <4> QED BY <4>2, <4>3
    <3> QED BY <3>1
  <2> HIDE DEF P, Q
  <2>2. [s \in SUBSET H |-> P(s)] = [s \in SUBSET H |-> Q(s)]  BY <2>1
  <2> QED BY <2>2 DEF P, Q
<1>4. IsFold(k, H, f)  BY <1>2, SumIsFold
<1>5. it = [s \in SUBSET H |-> IF s = {} THEN 0 ELSE LET x == CHOOSE x \in s : TRUE IN x.qty + it[s \ {x}]]
  <2>1. k = [s \in SUBSET H |-> IF s = {} THEN 0 ELSE LET x == CHOOSE x \in s : TRUE IN x.qty + k[s \ {x}]]
    BY <1>3, <1>4 DEF IsFold
  <2> HIDE DEF f
  <2> QED BY <2>1
<1>6. Units(H) = it[H]  BY DEF Units, MapThenSumSet, MapThenFoldSet
<1> HIDE DEF it
<1>7. IsFold(it, H, f)  BY <1>3, <1>5 DEF IsFold
<1>8. IsSum(it, H, f)  BY <1>1, <1>7, FoldIsSum DEF Holds
<1> DEFINE f2 == [h \in T |-> h.qty]
<1>9. \A x \in H : f[x] = f2[x]  OBVIOUS
<1>10. H \in SUBSET H /\ H \in SUBSET T /\ IsFiniteSet(H) /\ IsSum(g, T, f2)  BY DEF Holds
<1> HIDE DEF f, f2
<1>11. it[H] = g[H]  BY <1>8, <1>9, <1>10, SumsAgree
<1> QED BY <1>6, <1>11

LEMMA PartHolds == ASSUME NEW H, Holds(H), NEW S, S \subseteq H PROVE Holds(S)
BY FS_Subset DEF Holds

\* One hold's units are taken on top of the others'.
LEMMA UnitsTake ==
    ASSUME NEW H, Holds(H)
    PROVE  /\ Units({}) = 0 /\ Units(H) \in Nat
           /\ \A x \in H : x.qty \in Nat /\ Units(H \ {x}) \in Nat /\ Units(H) = x.qty + Units(H \ {x})
<1> DEFINE f == [h \in H |-> h.qty]
<1>1. f \in [H -> Int] /\ \A x \in H : f[x] = x.qty /\ x.qty \in Nat  BY DEF Holds
<1>2. PICK g : IsSum(g, H, f)  BY <1>1, SumThere DEF Holds
<1>3. ASSUME NEW s \in SUBSET H PROVE Units(s) = g[s] /\ IsFiniteSet(s)
  <2>1. Holds(s)  BY PartHolds
  <2> QED BY <1>2, <2>1, UnitsAre DEF Holds
<1> HIDE DEF f
<1> DEFINE G == {s \in SUBSET H : g[s] \in Nat}
<1>4. ASSUME NEW s \in SUBSET H PROVE g[s] \in Nat
  <2>1. {} \in G  BY <1>2 DEF IsSum
  <2>2. ASSUME NEW r \in SUBSET s, NEW x \in s \ r, r \in G PROVE r \cup {x} \in G
    <3> DEFINE u == r \cup {x}
    <3>1. u \in SUBSET H /\ x \in u /\ u \ {x} = r /\ x \in H  OBVIOUS
    <3> HIDE DEF u
    <3>2. g[u] = f[x] + g[r]  BY <1>2, <3>1 DEF IsSum
    <3>3. f[x] \in Nat /\ g[r] \in Nat  BY <1>1, <2>2, <3>1
    <3> QED BY <3>1, <3>2, <3>3 DEF u
  <2> HIDE DEF G
  <2>3. s \in G  BY <1>3, <2>1, <2>2, OneByOne
  <2> QED BY <2>3 DEF G
<1>5. g[{}] = 0 /\ {} \in SUBSET H /\ H \in SUBSET H  BY <1>2 DEF IsSum
<1>6. ASSUME NEW x \in H
      PROVE  x.qty \in Nat /\ Units(H \ {x}) \in Nat /\ Units(H) = x.qty + Units(H \ {x})
  <2>1. g[H] = f[x] + g[H \ {x}]  BY <1>2, <1>5 DEF IsSum
  <2>2. H \ {x} \in SUBSET H  OBVIOUS
  <2> QED BY <1>1, <1>3, <1>4, <1>5, <2>1, <2>2
<1> QED BY <1>3, <1>4, <1>5, <1>6

LEMMA UnitsSplit ==
    ASSUME NEW H, Holds(H), NEW S, S \subseteq H
    PROVE  /\ Units(H) = Units(S) + Units(H \ S)
           /\ Units(H) \in Nat /\ Units(S) \in Nat /\ Units(H \ S) \in Nat /\ Units(S) <= Units(H)
<1> DEFINE G == {r \in SUBSET S : Units(H) = Units(r) + Units(H \ r)}
<1>1. \A r \in SUBSET H : Holds(r) /\ Units(r) \in Nat
  <2> SUFFICES ASSUME NEW r \in SUBSET H PROVE Holds(r) /\ Units(r) \in Nat  OBVIOUS
  <2>1. Holds(r)  BY PartHolds
  <2> QED BY <2>1, UnitsTake
<1>2. {} \in G
  <2>1. H \ {} = H /\ Units({}) = 0 /\ Units(H) \in Nat  BY UnitsTake
  <2> QED BY <2>1
<1>3. ASSUME NEW r \in SUBSET S, NEW x \in S \ r, r \in G PROVE r \cup {x} \in G
  <2> DEFINE u == r \cup {x}
             v == H \ r
  <2>1. u \in SUBSET H /\ x \in u /\ u \ {x} = r /\ v \in SUBSET H /\ x \in v /\ v \ {x} = H \ u /\ H \ u \in SUBSET H
    OBVIOUS
  <2> HIDE DEF u, v
  <2>2. Units(u) = x.qty + Units(r) /\ x.qty \in Nat  BY <1>1, <2>1, UnitsTake
  <2>3. Units(v) = x.qty + Units(H \ u)  BY <1>1, <2>1, UnitsTake
  <2>4. Units(H) = Units(r) + Units(v)  BY <1>3 DEF v
  <2>5. Units(r) \in Nat /\ Units(H \ u) \in Nat /\ Units(u) \in Nat  BY <1>1, <2>1
  <2>6. Units(H) = Units(u) + Units(H \ u)  BY <2>2, <2>3, <2>4, <2>5
  <2>7. u \in SUBSET S  BY DEF u
  <2> QED BY <2>6, <2>7 DEF u
<1>4. IsFiniteSet(S)  BY FS_Subset DEF Holds
<1> HIDE DEF G
<1>5. S \in G  BY <1>2, <1>3, <1>4, OneByOne
<1>6. Units(H) = Units(S) + Units(H \ S)  BY <1>5 DEF G
<1>7. Units(H) \in Nat /\ Units(S) \in Nat /\ Units(H \ S) \in Nat
  <2>1. H \in SUBSET H /\ S \in SUBSET H /\ H \ S \in SUBSET H  OBVIOUS
  <2> QED BY <1>1, <2>1
<1> QED BY <1>6, <1>7

\* Holds that differ only elsewhere take the same units.
LEMMA UnitsOfImage ==
    ASSUME NEW H, Holds(H), NEW m, DOMAIN m = H, \A h \in H : m[h].qty = h.qty,
           \A h, k \in H : m[h] = m[k] => h = k
    PROVE  /\ Holds({m[h] : h \in H})
           /\ \A S \in SUBSET H : Units({m[h] : h \in S}) = Units(S)
<1> DEFINE I(S) == {m[h] : h \in S}
<1>1. \A S \in SUBSET H : I(S) \subseteq I(H) /\ IsFiniteSet(S)  BY FS_Subset DEF Holds
<1>2. Holds(I(H))
  <2> DEFINE G == {S \in SUBSET H : IsFiniteSet(I(S))}
  <2>1. {} \in G
    <3>1. I({}) = {}  OBVIOUS
    <3> QED BY <3>1, FS_EmptySet
  <2>2. ASSUME NEW r \in SUBSET H, NEW x \in H \ r, r \in G PROVE r \cup {x} \in G
    <3>1. I(r \cup {x}) = I(r) \cup {m[x]}  OBVIOUS
    <3>2. IsFiniteSet(I(r))  BY <2>2
    <3> DEFINE J == I(r)
    <3> HIDE DEF I, J
    <3>3. IsFiniteSet(J \cup {m[x]})
      <4>1. IsFiniteSet(J)  BY <3>2 DEF J
      <4> QED BY ONLY <4>1, FS_AddElement
    <3>4. IsFiniteSet(I(r \cup {x}))  BY <3>1, <3>3 DEF J
    <3> QED BY <3>4
  <2>3. H \in G
    <3> HIDE DEF G
    <3> QED BY <2>1, <2>2, OneByOne DEF Holds
  <2> QED BY <2>3 DEF Holds
<1>3. ASSUME NEW S \in SUBSET H PROVE Units(I(S)) = Units(S)
  <2> DEFINE G == {r \in SUBSET S : Units(I(r)) = Units(r)}
  <2>1. {} \in G
    <3>1. I({}) = {}  OBVIOUS
    <3> HIDE DEF I
    <3> QED BY <3>1
  <2>2. ASSUME NEW r \in SUBSET S, NEW x \in S \ r, r \in G PROVE r \cup {x} \in G
    <3> DEFINE u == r \cup {x}
    <3>1. u \in SUBSET H /\ x \in u /\ u \ {x} = r /\ x \in H  OBVIOUS
    <3>2. m[x] \in I(u)  OBVIOUS
    <3>3. I(u) \ {m[x]} = I(r)
      <4>1. ASSUME NEW h \in r PROVE m[h] # m[x]
        <5>1. h \in H /\ h # x  BY <2>2
        <5> QED BY <3>1, <5>1
      <4> QED BY <4>1
    <3>4. Holds(u)  BY <3>1, PartHolds
    <3>5. Holds(I(u))  BY <1>1, <1>2, <3>1, PartHolds
    <3> HIDE DEF I, u
    <3>6. Units(u) = x.qty + Units(r)  BY <3>1, <3>4, UnitsTake
    <3>7. Units(I(u)) = m[x].qty + Units(I(r))  BY <3>2, <3>3, <3>5, UnitsTake
    <3>8. Units(I(r)) = Units(r)  BY <2>2
    <3>9. Units(I(u)) = Units(u)  BY <3>1, <3>6, <3>7, <3>8
    <3>10. u \in SUBSET S  BY DEF u
    <3> QED BY <3>9, <3>10 DEF u
  <2> HIDE DEF G
  <2>3. S \in G  BY <1>1, <2>1, <2>2, OneByOne
  <2> QED BY <2>3 DEF G
<1> HIDE DEF I
<1>4. Holds(I(H)) /\ \A S \in SUBSET H : Units(I(S)) = Units(S)  BY <1>2, <1>3
<1> QED BY <1>4 DEF I

-----------------------------------------------------------------------------
(* The level of a pool, change by change.                                   *)

\* Holds with a span of their own.
Timed(H) == /\ Holds(H)
            /\ \A h \in H : h.win[1] \in Int /\ h.win[2] \in Int /\ h.win[1] < h.win[2]

\* The holds whose span has the instant.
RunAt(H, i) == {h \in H : h.win[1] <= i /\ i < h.win[2]}

LEMMA InstantsFinite == ASSUME NEW H, Timed(H) PROVE IsFiniteSet(Instants(H)) /\ Instants(H) \subseteq Int
<1> DEFINE G == {S \in SUBSET H : IsFiniteSet(Instants(S))}
<1>1. {} \in G
  <2>1. Instants({}) = {}  BY DEF Instants
  <2> QED BY <2>1, FS_EmptySet
<1>2. ASSUME NEW r \in SUBSET H, NEW x \in H \ r, r \in G PROVE r \cup {x} \in G
  <2>1. IsFiniteSet(Instants(r))  BY <1>2
  <2>2. IsFiniteSet(Instants(r) \cup {x.win[1]})  BY ONLY <2>1, FS_AddElement
  <2>3. IsFiniteSet((Instants(r) \cup {x.win[1]}) \cup {x.win[2]})  BY ONLY <2>2, FS_AddElement
  <2>4. (Instants(r) \cup {x.win[1]}) \cup {x.win[2]} = Instants(r \cup {x})  BY DEF Instants
  <2> QED BY <2>3, <2>4
<1>3. H \in G
  <2> HIDE DEF G
  <2> QED BY <1>1, <1>2, OneByOne DEF Timed, Holds
<1>4. Instants(H) \subseteq Int  BY DEF Instants, Timed
<1> QED BY <1>3, <1>4

\* The changes at some of the instants, summed up as the library does.
Changed(H, J) == MapThenSumSet(LAMBDA j : Delta(H, j), J)

LEMMA ChangedAre ==
    ASSUME NEW H, NEW J, IsFiniteSet(J), \A j \in J : Delta(H, j) \in Int,
           NEW T, J \subseteq T, NEW g, IsSum(g, T, [j \in T |-> Delta(H, j)])
    PROVE  Changed(H, J) = g[J]
<1> DEFINE f == [j \in J |-> Delta(H, j)]
           it == CHOOSE i : i = [s \in SUBSET J |-> IF s = {} THEN 0
                                   ELSE LET x == CHOOSE x \in s : TRUE IN Delta(H, x) + i[s \ {x}]]
<1>1. f \in [J -> Int]  OBVIOUS
<1>2. PICK k : IsSum(k, J, f)  BY <1>1, SumThere
<1>3. ASSUME NEW i PROVE
        [s \in SUBSET J |-> IF s = {} THEN 0 ELSE LET x == CHOOSE x \in s : TRUE IN Delta(H, x) + i[s \ {x}]]
        = [s \in SUBSET J |-> IF s = {} THEN 0 ELSE LET x == CHOOSE x \in s : TRUE IN f[x] + i[s \ {x}]]
  <2> DEFINE P(s) == IF s = {} THEN 0 ELSE LET x == CHOOSE x \in s : TRUE IN Delta(H, x) + i[s \ {x}]
             Q(s) == IF s = {} THEN 0 ELSE LET x == CHOOSE x \in s : TRUE IN f[x] + i[s \ {x}]
  <2>1. ASSUME NEW s \in SUBSET J PROVE P(s) = Q(s)
    <3>1. CASE s # {}
      <4> DEFINE x == CHOOSE y \in s : TRUE
      <4>1. x \in s  BY <3>1
      <4>2. f[x] = Delta(H, x)  BY <4>1
      <4>3. P(s) = Delta(H, x) + i[s \ {x}] /\ Q(s) = f[x] + i[s \ {x}]  BY <3>1
      <4> HIDE DEF x, f, P, Q
      <4> QED BY <4>2, <4>3
    <3> QED BY <3>1
  <2> HIDE DEF P, Q
  <2>2. [s \in SUBSET J |-> P(s)] = [s \in SUBSET J |-> Q(s)]  BY <2>1
  <2> QED BY <2>2 DEF P, Q
<1>4. IsFold(k, J, f)  BY <1>2, SumIsFold
<1>5. it = [s \in SUBSET J |-> IF s = {} THEN 0 ELSE LET x == CHOOSE x \in s : TRUE IN Delta(H, x) + it[s \ {x}]]
  <2>1. k = [s \in SUBSET J |-> IF s = {} THEN 0 ELSE LET x == CHOOSE x \in s : TRUE IN Delta(H, x) + k[s \ {x}]]
    BY <1>3, <1>4 DEF IsFold
  <2> HIDE DEF f
  <2> QED BY <2>1
<1>6. Changed(H, J) = it[J]  BY DEF Changed, MapThenSumSet, MapThenFoldSet
<1> HIDE DEF it
<1>7. IsFold(it, J, f)  BY <1>3, <1>5 DEF IsFold
<1>8. IsSum(it, J, f)  BY <1>1, <1>7, FoldIsSum
<1> DEFINE f2 == [j \in T |-> Delta(H, j)]
<1>9. \A x \in J : f[x] = f2[x]  OBVIOUS
<1>10. J \in SUBSET J /\ J \in SUBSET T /\ IsSum(g, T, f2)  OBVIOUS
<1> HIDE DEF f, f2
<1>11. it[J] = g[J]  BY <1>8, <1>9, <1>10, SumsAgree
<1> QED BY <1>6, <1>11

\* The changes at some instants are the units that start there less those that end.
LEMMA ChangedIs ==
    ASSUME NEW H, Timed(H), NEW J, IsFiniteSet(J)
    PROVE  Changed(H, J) = Units({h \in H : h.win[1] \in J}) - Units({h \in H : h.win[2] \in J})
<1> DEFINE U(s) == Units({h \in H : h.win[1] \in s})
           V(s) == Units({h \in H : h.win[2] \in s})
           f == [j \in J |-> Delta(H, j)]
           G == {s \in SUBSET J : Changed(H, s) = U(s) - V(s)}
<1>1. Holds(H)  BY DEF Timed
<1>2. ASSUME NEW S, S \subseteq H PROVE Holds(S) /\ Units(S) \in Nat
  <2>1. Holds(S)  BY <1>1, <1>2, PartHolds
  <2> QED BY <2>1, UnitsTake
<1>3. \A s : U(s) \in Nat /\ V(s) \in Nat  BY <1>2
<1>4. \A j : Delta(H, j) \in Int
  <2> SUFFICES ASSUME NEW j PROVE Delta(H, j) \in Int  OBVIOUS
  <2> DEFINE S == {h \in H : h.win[1] = j}
             E == {h \in H : h.win[2] = j}
  <2>1. S \subseteq H /\ E \subseteq H  OBVIOUS
  <2>2. Delta(H, j) = Units(S) - Units(E)  BY DEF Delta
  <2> HIDE DEF S, E
  <2>3. Units(S) \in Nat /\ Units(E) \in Nat  BY <1>2, <2>1
  <2> QED BY <2>2, <2>3
<1>5. f \in [J -> Int]  BY <1>4
<1>6. PICK g : IsSum(g, J, f)  BY <1>5, SumThere
<1>7. ASSUME NEW s \in SUBSET J PROVE Changed(H, s) = g[s]
  <2>1. IsFiniteSet(s)  BY FS_Subset
  <2> QED BY <1>4, <1>6, <2>1, ChangedAre
<1>8. {} \in G
  <2>1. {h \in H : h.win[1] \in {}} = {} /\ {h \in H : h.win[2] \in {}} = {}  OBVIOUS
  <2>2. U({}) = 0 /\ V({}) = 0  BY <1>1, <2>1, UnitsTake
  <2>3. Changed(H, {}) = 0  BY <1>6, <1>7 DEF IsSum
  <2> HIDE DEF U, V
  <2> QED BY <2>2, <2>3
<1>9. ASSUME NEW r \in SUBSET J, NEW x \in J \ r, r \in G PROVE r \cup {x} \in G
  <2> DEFINE u == r \cup {x}
  <2>1. u \in SUBSET J /\ x \in u /\ u \ {x} = r /\ r \in SUBSET J  OBVIOUS
  <2>2. Changed(H, u) = Delta(H, x) + Changed(H, r)
    <3> HIDE DEF u
    <3>1. g[u] = f[x] + g[r]  BY <1>6, <2>1 DEF IsSum
    <3>2. f[x] = Delta(H, x)  BY <2>1
    <3> QED BY <1>7, <2>1, <3>1, <3>2
  <2>3. U(u) = U(r) + Units({h \in H : h.win[1] = x})
    <3> DEFINE A == {h \in H : h.win[1] \in u}
               B == {h \in H : h.win[1] \in r}
               D == {h \in H : h.win[1] = x}
    <3>1. A \subseteq H /\ B \subseteq A /\ A \ B = D  BY <1>9
    <3> HIDE DEF A, B, D
    <3>2. Holds(A)  BY <1>2, <3>1
    <3>3. Units(A) = Units(B) + Units(D)  BY <3>1, <3>2, UnitsSplit
    <3> QED BY <3>3 DEF A, B, D
  <2>4. V(u) = V(r) + Units({h \in H : h.win[2] = x})
    <3> DEFINE A == {h \in H : h.win[2] \in u}
               B == {h \in H : h.win[2] \in r}
               D == {h \in H : h.win[2] = x}
    <3>1. A \subseteq H /\ B \subseteq A /\ A \ B = D  BY <1>9
    <3> HIDE DEF A, B, D
    <3>2. Holds(A)  BY <1>2, <3>1
    <3>3. Units(A) = Units(B) + Units(D)  BY <3>1, <3>2, UnitsSplit
    <3> QED BY <3>3 DEF A, B, D
  <2> DEFINE S == {h \in H : h.win[1] = x}
             E == {h \in H : h.win[2] = x}
  <2>5. Delta(H, x) = Units(S) - Units(E)  BY DEF Delta
  <2>6. Units(S) \in Nat /\ Units(E) \in Nat
    <3>1. S \subseteq H /\ E \subseteq H  OBVIOUS
    <3> HIDE DEF S, E
    <3> QED BY <1>2, <3>1
  <2>7. Changed(H, r) = U(r) - V(r)  BY <1>9
  <2>8. U(r) \in Nat /\ V(r) \in Nat  BY <1>3
  <2> HIDE DEF S, E, U, V
  <2>9. Changed(H, u) = U(u) - V(u)  BY <2>2, <2>3, <2>4, <2>5, <2>6, <2>7, <2>8 DEF S, E
  <2> QED BY <2>1, <2>9
<1> HIDE DEF G
<1>10. J \in G  BY <1>8, <1>9, OneByOne
<1> QED BY <1>10 DEF G

\* The level at an instant is what runs then.
LEMMA LevelIs ==
    ASSUME NEW H, Timed(H), NEW i \in Int
    PROVE  Level(H, i) = Units(RunAt(H, i)) /\ Units(RunAt(H, i)) \in Nat
<1> DEFINE J == {j \in Instants(H) : j <= i}
           A == {h \in H : h.win[1] \in J}
           B == {h \in H : h.win[2] \in J}
<1>1. IsFiniteSet(J)  BY InstantsFinite, FS_Subset
<1>2. Level(H, i) = Changed(H, J)  BY DEF Level, Changed
<1>3. Changed(H, J) = Units(A) - Units(B)
  <2> HIDE DEF J
  <2> QED BY <1>1, ChangedIs
<1>4. A \subseteq H /\ B \subseteq A /\ A \ B = RunAt(H, i)
  <2>1. ASSUME NEW h \in H
        PROVE  /\ h.win[1] \in Int /\ h.win[2] \in Int /\ h.win[1] < h.win[2]
               /\ h.win[1] \in Instants(H) /\ h.win[2] \in Instants(H)
    BY DEF Timed, Instants
  <2>2. ASSUME NEW h \in H PROVE (h \in A <=> h.win[1] <= i) /\ (h \in B <=> h.win[2] <= i)
    BY <2>1
  <2> HIDE DEF A, B, J
  <2>3. A \subseteq H /\ B \subseteq H  BY DEF A, B
  <2>4. ASSUME NEW h \in B PROVE h \in A  BY <2>1, <2>2, <2>3, <2>4
  <2>5. ASSUME NEW h \in H PROVE h \in A \ B <=> h \in RunAt(H, i)
    BY <2>1, <2>2 DEF RunAt
  <2>6. A \ B \subseteq H /\ RunAt(H, i) \subseteq H  BY <2>3 DEF RunAt
  <2> QED BY <2>3, <2>4, <2>5, <2>6
<1> HIDE DEF A, B, J
<1>5. Holds(A)  BY <1>4, PartHolds DEF Timed
<1>6. /\ Units(A) = Units(B) + Units(RunAt(H, i))
      /\ Units(A) \in Nat /\ Units(B) \in Nat /\ Units(RunAt(H, i)) \in Nat
  BY <1>4, <1>5, UnitsSplit
<1> QED BY <1>2, <1>3, <1>6

-----------------------------------------------------------------------------
(* The most a pool has out.                                                 *)

\* A set of integers that is bounded above has a greatest element.
LEMMA MaxBelow ==
    ASSUME NEW S, S \subseteq Int, S # {}, NEW b \in Int, \A n \in S : n <= b
    PROVE  Max(S) \in S /\ \A n \in S : n <= Max(S)
<1> DEFINE T == {0 - n : n \in S}
<1>0. PICK k0 \in S : TRUE  OBVIOUS
<1>1. T \subseteq Int /\ T # {} /\ 0 - b \in Int
  <2>1. 0 - k0 \in T  OBVIOUS
  <2>2. ASSUME NEW t \in T PROVE t \in Int  OBVIOUS
  <2> HIDE DEF T
  <2> QED BY <2>1, <2>2
<1>2. ASSUME NEW t \in T PROVE 0 - b <= t
  <2>1. PICK n \in S : t = 0 - n  OBVIOUS
  <2>2. n \in Int /\ n <= b  OBVIOUS
  <2> QED BY <2>1, <2>2
<1> DEFINE m == Min(T)
<1>3. m \in T /\ \A t \in T : m <= t
  <2> HIDE DEF T
  <2> QED BY <1>1, <1>2, MinThere
<1>4. PICK n \in S : m = 0 - n  BY <1>3
<1> HIDE DEF m
<1>5. ASSUME NEW k \in S PROVE k <= n
  <2>1. 0 - k \in T  OBVIOUS
  <2>2. m <= 0 - k  BY <1>3, <2>1
  <2>3. k \in Int /\ n \in Int  OBVIOUS
  <2> QED BY <1>4, <2>2, <2>3
<1>6. Max(S) = n  BY <1>5, GreatestIs
<1> QED BY <1>5, <1>6

\* Nothing runs any more once the last span has ended.
LEMMA AfterAll ==
    ASSUME NEW H, Timed(H), NEW i \in Int, \A h \in H : h.win[2] <= i
    PROVE  Level(H, i) = 0
<1>1. \A h \in H : ~(i < h.win[2])  BY DEF Timed
<1>2. RunAt(H, i) = {}  BY <1>1 DEF RunAt
<1>3. Units({}) = 0  BY UnitsTake DEF Timed
<1> QED BY <1>2, <1>3, LevelIs

\* Where an instant has something running, a start no later has all of it.
LEMMA AtTheLastStart ==
    ASSUME NEW H, Timed(H), NEW i \in Int, RunAt(H, i) # {}
    PROVE  \E h \in RunAt(H, i) : RunAt(H, i) \subseteq RunAt(H, h.win[1])
<1> DEFINE S == {h.win[1] : h \in RunAt(H, i)}
           j == Max(S)
<1>1. \A h \in RunAt(H, i) : h \in H /\ h.win[1] \in Int /\ h.win[2] \in Int /\ h.win[1] <= i /\ i < h.win[2]
  BY DEF RunAt, Timed
<1>2. S \subseteq Int /\ S # {} /\ \A n \in S : n <= i  BY <1>1
<1>3. j \in S /\ \A n \in S : n <= j
  <2> HIDE DEF S
  <2> QED BY <1>2, MaxBelow
<1>4. PICK h \in RunAt(H, i) : h.win[1] = j  BY <1>3
<1> HIDE DEF j
<1>5. ASSUME NEW k \in RunAt(H, i) PROVE k \in RunAt(H, h.win[1])
  <2>1. k.win[1] <= j  BY <1>3
  <2>2. k \in H /\ k.win[1] \in Int /\ k.win[2] \in Int /\ i < k.win[2]  BY <1>1
  <2>3. h.win[1] \in Int /\ h.win[1] <= i  BY <1>1
  <2>4. h.win[1] < k.win[2]  BY <2>2, <2>3
  <2> QED BY <1>4, <2>1, <2>2, <2>4 DEF RunAt
<1> QED BY <1>5

LEMMA RunningLess ==
    ASSUME NEW H, Timed(H), NEW i \in Int, NEW j \in Int, RunAt(H, i) \subseteq RunAt(H, j)
    PROVE  /\ Units(RunAt(H, i)) \in Nat /\ Units(RunAt(H, j)) \in Nat
           /\ Units(RunAt(H, i)) <= Units(RunAt(H, j))
<1>1. RunAt(H, j) \subseteq H  BY DEF RunAt
<1>2. Holds(RunAt(H, j))  BY <1>1, PartHolds DEF Timed
<1> QED BY <1>2, UnitsSplit

LEMMA NothingRuns == ASSUME NEW H, Timed(H), NEW i \in Int, RunAt(H, i) = {} PROVE Units(RunAt(H, i)) = 0
BY UnitsTake DEF Timed

\* A span cut to a window.
LEMMA ClipIs ==
    ASSUME NEW a, NEW w, a[1] \in Int, a[2] \in Int, w[1] \in Int, w[2] \in Int,
           NEW b, b = Clip(a, w)
    PROVE  /\ b[1] \in Int /\ b[2] \in Int /\ w[1] <= b[1] /\ b[2] <= w[2]
           /\ \A i \in Int : (w[1] <= i /\ i < w[2]) => ((b[1] <= i /\ i < b[2]) <=> (a[1] <= i /\ i < a[2]))
<1>1. b[1] = Max({a[1], w[1]}) /\ b[2] = Min({a[2], w[2]})  BY DEF Clip
<1>2. b[1] = IF a[1] >= w[1] THEN a[1] ELSE w[1]  BY <1>1, MaxOfTwo
<1>3. b[2] = IF a[2] <= w[2] THEN a[2] ELSE w[2]  BY <1>1, MinOfTwo
<1> QED BY <1>2, <1>3

\* k is the hold h with its span cut to the window.
CutTo(k, h, w) ==
    /\ k.id = h.id /\ k.qty = h.qty /\ h.qty \in Nat
    /\ k.win[1] \in Int /\ k.win[2] \in Int /\ w[1] <= k.win[1] /\ k.win[2] <= w[2]
    /\ \A i \in Int : (w[1] <= i /\ i < w[2]) =>
          ((k.win[1] <= i /\ i < k.win[2]) <=> (h.win[1] <= i /\ i < h.win[2]))

\* The holds of H, each with an id of its own, can be cut to a window.
Cuts(H, w) ==
    /\ Timed(H) /\ \A h, k \in H : h.id = k.id => h = k
    /\ w[1] \in Int /\ w[2] \in Int /\ w[1] < w[2]
    /\ \A h \in H : CutTo([h EXCEPT !.win = Clip(h.win, w)], h, w)

\* What runs at an instant of the window runs of the holds cut to it.
CutAlike(spans, H, w) ==
    /\ Timed(spans) /\ \A h \in spans : w[1] <= h.win[1] /\ h.win[2] <= w[2]
    /\ \A i \in Int : w[1] <= i /\ i < w[2] => Units(RunAt(spans, i)) = Units(RunAt(H, i))

LEMMA CutHolds ==
    ASSUME NEW H, NEW w, Cuts(H, w)
    PROVE  CutAlike({h \in {[h EXCEPT !.win = Clip(h.win, w)] : h \in H} : h.win[1] < h.win[2]}, H, w)
<1> DEFINE cut == [h \in H |-> [h EXCEPT !.win = Clip(h.win, w)]]
           clipped == {cut[h] : h \in H}
           spans == {k \in clipped : k.win[1] < k.win[2]}
<1>1. w[1] \in Int /\ w[2] \in Int /\ w[1] < w[2]  BY DEF Cuts
<1>2. {h \in {[h EXCEPT !.win = Clip(h.win, w)] : h \in H} : h.win[1] < h.win[2]} = spans  OBVIOUS
<1>3. ASSUME NEW h \in H PROVE CutTo(cut[h], h, w)
  <2>1. cut[h] = [h EXCEPT !.win = Clip(h.win, w)]  OBVIOUS
  <2> HIDE DEF cut
  <2> QED BY <2>1 DEF Cuts
<1>4. DOMAIN cut = H  OBVIOUS
<1> HIDE DEF cut
<1>5. \A h \in H : cut[h].qty = h.qty /\ cut[h].id = h.id  BY <1>3 DEF CutTo
<1>6. /\ Holds(clipped) /\ \A S \in SUBSET H : Units({cut[h] : h \in S}) = Units(S)
  <2>1. Holds(H)  BY DEF Cuts, Timed
  <2>2. \A h, k \in H : cut[h] = cut[k] => h = k  BY <1>5 DEF Cuts
  <2> QED BY <1>4, <1>5, <2>1, <2>2, UnitsOfImage
<1>7. ASSUME NEW k \in spans
      PROVE  /\ k.win[1] \in Int /\ k.win[2] \in Int /\ k.win[1] < k.win[2]
             /\ w[1] <= k.win[1] /\ k.win[2] <= w[2]
  <2>1. PICK h \in H : k = cut[h]  OBVIOUS
  <2>2. CutTo(k, h, w)  BY <1>3, <2>1
  <2> QED BY <2>2 DEF CutTo
<1>8. Timed(spans)
  <2>1. spans \subseteq clipped  OBVIOUS
  <2> HIDE DEF clipped
  <2>2. Holds(spans)  BY <1>6, <2>1, PartHolds
  <2> QED BY <1>7, <2>2 DEF Timed
<1>9. ASSUME NEW i \in Int, w[1] <= i, i < w[2] PROVE Units(RunAt(spans, i)) = Units(RunAt(H, i))
  <2>2. ASSUME NEW h \in H
        PROVE  (cut[h].win[1] <= i /\ i < cut[h].win[2]) <=> h \in RunAt(H, i)
    <3>1. CutTo(cut[h], h, w)  BY <1>3
    <3> QED BY <1>9, <3>1 DEF CutTo, RunAt
  <2> DEFINE S == RunAt(H, i)
  <2>3. S \in SUBSET H  BY DEF RunAt
  <2>4. ASSUME NEW k \in RunAt(spans, i) PROVE k \in {cut[h] : h \in S}
    <3>1. k \in spans /\ k.win[1] <= i /\ i < k.win[2]  BY DEF RunAt
    <3>2. PICK h \in H : k = cut[h]  BY <3>1
    <3>3. h \in S  BY <2>2, <3>1, <3>2
    <3> QED BY <3>2, <3>3
  <2>5. ASSUME NEW h \in S PROVE cut[h] \in RunAt(spans, i)
    <3>1. h \in H  BY <2>3
    <3>2. cut[h].win[1] <= i /\ i < cut[h].win[2]  BY <2>2, <3>1
    <3>3. cut[h].win[1] \in Int /\ cut[h].win[2] \in Int  BY <1>3, <3>1 DEF CutTo
    <3>4. cut[h].win[1] < cut[h].win[2]  BY <3>2, <3>3
    <3>5. cut[h] \in spans  BY <3>1, <3>4
    <3> QED BY <3>2, <3>5 DEF RunAt
  <2> HIDE DEF S, spans
  <2>6. RunAt(spans, i) = {cut[h] : h \in S}  BY <2>4, <2>5
  <2>7. Units(RunAt(spans, i)) = Units(S)  BY <1>6, <2>3, <2>6
  <2> QED BY <2>7 DEF S
<1> HIDE DEF spans
<1>10. CutAlike(spans, H, w)  BY <1>7, <1>8, <1>9 DEF CutAlike
<1> QED BY <1>2, <1>10

\* The most that runs at any instant of the window.
MostIn(p, H, w) ==
    /\ p \in Nat
    /\ \A i \in Int : w[1] <= i /\ i < w[2] => Units(RunAt(H, i)) <= p
    /\ \E i \in Int : w[1] <= i /\ i < w[2] /\ Units(RunAt(H, i)) = p

\* pool_peak: the most at any start is the most at any instant.
LEMMA PeakIs == ASSUME NEW H, NEW w, Cuts(H, w) PROVE MostIn(PoolPeak(H, w), H, w)
<1> DEFINE spans == {h \in {[h EXCEPT !.win = Clip(h.win, w)] : h \in H} : h.win[1] < h.win[2]}
           at == {i \in Int : w[1] <= i /\ i < w[2]}
           V == {Units(RunAt(H, i)) : i \in at}
           M == {Level(spans, i) : i \in Instants(spans)}
           v == Max(V)
<1>1. PoolPeak(H, w) = IF spans = {} THEN 0 ELSE Max(M)  BY DEF PoolPeak
<1>2. /\ Timed(spans) /\ w[1] \in Int /\ w[2] \in Int /\ w[1] < w[2] /\ Timed(H)
      /\ \A h \in spans : w[1] <= h.win[1] /\ h.win[2] <= w[2]
      /\ \A i \in at : Units(RunAt(spans, i)) = Units(RunAt(H, i))
  <2>1. CutAlike(spans, H, w)  BY CutHolds
  <2> HIDE DEF spans
  <2> QED BY <2>1 DEF CutAlike, Cuts
<1> HIDE DEF spans
<1>3. \A i : i \in at <=> (i \in Int /\ w[1] <= i /\ i < w[2])  OBVIOUS
<1> HIDE DEF at
<1>4. ASSUME NEW i \in at
      PROVE  /\ Units(RunAt(H, i)) \in Nat /\ Units(RunAt(H, i)) <= Units(spans)
             /\ Units(RunAt(H, i)) = Level(spans, i)
  <2>1. i \in Int  BY <1>3
  <2>2. RunAt(spans, i) \subseteq spans /\ Holds(spans)  BY <1>2 DEF RunAt, Timed
  <2>3. Units(RunAt(spans, i)) <= Units(spans) /\ Units(RunAt(spans, i)) \in Nat  BY <2>2, UnitsSplit
  <2> QED BY <1>2, <2>1, <2>3, LevelIs
<1>5. Units(spans) \in Int
  <2>1. Units(spans) \in Nat  BY <1>2, UnitsTake DEF Timed
  <2> QED BY <2>1
<1>6. V \subseteq Int /\ V # {} /\ \A n \in V : 0 <= n /\ n <= Units(spans)
  <2>1. w[1] \in at  BY <1>2, <1>3
  <2> QED BY <1>4, <2>1
<1>7. v \in V /\ \A n \in V : n <= v
  <2> HIDE DEF V
  <2> QED BY <1>5, <1>6, MaxBelow
<1>8. v \in Nat
  <2> HIDE DEF v, V
  <2> QED BY <1>6, <1>7
<1>9. PICK top \in at : Units(RunAt(H, top)) = v  BY <1>7
<1>10. \A i \in at : Units(RunAt(H, i)) <= v  BY <1>7
<1>11. MostIn(v, H, w)
  <2> HIDE DEF V, v
  <2> QED BY <1>3, <1>8, <1>9, <1>10 DEF MostIn
<1> HIDE DEF V, v
<1>12. CASE spans = {}
  <2>1. RunAt(spans, top) = {}  BY <1>12 DEF RunAt
  <2>2. Units({}) = 0  BY <1>2, UnitsTake DEF Timed
  <2>3. v = 0  BY <1>2, <1>9, <2>1, <2>2
  <2> QED BY <1>1, <1>11, <1>12, <2>3
<1>13. CASE spans # {}
  <2>1. ASSUME NEW i \in Instants(spans) PROVE i \in Int /\ (i \in at \/ i = w[2])
    <3>1. PICK h \in spans : i = h.win[1] \/ i = h.win[2]  BY DEF Instants
    <3>2. h.win[1] \in Int /\ h.win[2] \in Int /\ h.win[1] < h.win[2]  BY <1>2 DEF Timed
    <3>3. w[1] <= h.win[1] /\ h.win[2] <= w[2]  BY <1>2
    <3> QED BY <1>2, <1>3, <3>1, <3>2, <3>3
  <2>2. Level(spans, w[2]) = 0  BY <1>2, AfterAll
  <2>3. ASSUME NEW i \in Instants(spans) PROVE Level(spans, i) \in Int /\ Level(spans, i) <= v
    <3>1. CASE i \in at  BY <1>4, <1>10, <3>1
    <3>2. CASE i = w[2]  BY <1>8, <2>2, <3>2
    <3> QED BY <2>1, <3>1, <3>2
  <2>4. \E i \in Instants(spans) : Level(spans, i) = v
    <3>1. CASE RunAt(spans, top) # {}
      <4>1. top \in Int  BY <1>3
      <4>2. PICK h \in RunAt(spans, top) : RunAt(spans, top) \subseteq RunAt(spans, h.win[1])
        BY <1>2, <3>1, <4>1, AtTheLastStart
      <4>3. h \in spans /\ h.win[1] \in Int /\ h.win[2] \in Int /\ h.win[1] < h.win[2]
        BY <1>2 DEF RunAt, Timed
      <4>4. w[1] <= h.win[1] /\ h.win[2] <= w[2]  BY <1>2, <4>3
      <4>5. h.win[1] \in at  BY <1>2, <1>3, <4>3, <4>4
      <4>6. Units(RunAt(spans, top)) <= Units(RunAt(spans, h.win[1]))  BY <1>2, <4>1, <4>2, <4>3, RunningLess
      <4>7. v <= Units(RunAt(H, h.win[1]))  BY <1>2, <1>9, <4>5, <4>6
      <4>8. Units(RunAt(H, h.win[1])) <= v /\ Units(RunAt(H, h.win[1])) \in Nat  BY <1>4, <1>10, <4>5
      <4>9. Units(RunAt(H, h.win[1])) = v  BY <1>8, <4>7, <4>8
      <4>10. h.win[1] \in Instants(spans)  BY <4>3 DEF Instants
      <4> QED BY <1>4, <4>5, <4>9, <4>10
    <3>2. CASE RunAt(spans, top) = {}
      <4>1. Units({}) = 0  BY <1>2, UnitsTake DEF Timed
      <4>2. v = 0  BY <1>2, <1>9, <3>2, <4>1
      <4> DEFINE E == {h.win[2] : h \in spans}
                 e == Max(E)
      <4>3. E \subseteq Int /\ E # {} /\ \A n \in E : n <= w[2]  BY <1>2, <1>13 DEF Timed
      <4>4. e \in E /\ \A n \in E : n <= e
        <5> HIDE DEF E
        <5> QED BY <1>2, <4>3, MaxBelow
      <4>5. e \in Int /\ e \in Instants(spans) /\ \A h \in spans : h.win[2] <= e
        <5> HIDE DEF e
        <5> QED BY <4>3, <4>4 DEF Instants
      <4> HIDE DEF e, E
      <4>6. Level(spans, e) = 0  BY <1>2, <4>5, AfterAll
      <4> QED BY <4>2, <4>5, <4>6
    <3> QED BY <3>1, <3>2
  <2>5. M \subseteq Int /\ v \in M /\ \A n \in M : n <= v  BY <2>3, <2>4
  <2> HIDE DEF M
  <2>6. Max(M) = v  BY <2>5, GreatestIs
  <2> QED BY <1>1, <1>11, <1>13, <2>6
<1> QED BY <1>12, <1>13

-----------------------------------------------------------------------------
(* The stretches at or above a level.                                       *)

\* Between two changes what runs stays the same.
LEMMA LastChange ==
    ASSUME NEW H, Timed(H), NEW i \in Int, NEW k \in Instants(H), k <= i
    PROVE  \E j \in Instants(H) : /\ j <= i /\ RunAt(H, i) = RunAt(H, j)
                                  /\ \A x \in Instants(H) : x <= i => x <= j
<1> DEFINE S == {x \in Instants(H) : x <= i}
           j == Max(S)
<1>1. Instants(H) \subseteq Int  BY InstantsFinite
<1>2. S \subseteq Int /\ S # {} /\ \A x \in S : x <= i  BY <1>1
<1>3. j \in S /\ \A x \in S : x <= j
  <2> HIDE DEF S
  <2> QED BY <1>2, MaxBelow
<1>4. j \in Instants(H) /\ j <= i /\ j \in Int /\ \A x \in Instants(H) : x <= i => x <= j
  BY <1>1, <1>3
<1> HIDE DEF j
<1>5. ASSUME NEW h \in H PROVE h \in RunAt(H, i) <=> h \in RunAt(H, j)
  <2>1. h.win[1] \in Int /\ h.win[2] \in Int /\ h.win[1] \in Instants(H) /\ h.win[2] \in Instants(H)
    BY DEF Timed, Instants
  <2>2. h.win[1] <= i => h.win[1] <= j  BY <1>4, <2>1
  <2>3. h.win[2] <= i => h.win[2] <= j  BY <1>4, <2>1
  <2> QED BY <1>4, <2>1, <2>2, <2>3 DEF RunAt
<1>6. RunAt(H, i) = RunAt(H, j)
  <2>1. RunAt(H, i) \subseteq H /\ RunAt(H, j) \subseteq H  BY DEF RunAt
  <2> QED BY <1>5, <2>1
<1> QED BY <1>4, <1>6

\* pool_stretches, for any holds and a level of at least one unit.
Full(H, n) == {i \in Instants(H) : Level(H, i) >= n}
Gaps(H, n) == Instants(H) \ Full(H, n)
Opens(H, n) == {i \in Full(H, n) : \A j \in Instants(H) : j < i /\ j \in Full(H, n) =>
                                      \E k \in Gaps(H, n) : j < k /\ k < i}
Closing(H, n, i) == {k \in Gaps(H, n) : i < k}

\* Finitely many integers lie between two.
LEMMA FiniteLie ==
    ASSUME NEW S, IsFiniteSet(S), S \subseteq Int
    PROVE  \E a, b \in Int : \A i \in S : a <= i /\ i <= b
<1> DEFINE Lies(s) == \E a, b \in Int : \A i \in s : a <= i /\ i <= b
           G == {s \in SUBSET S : Lies(s)}
<1>1. {} \in G
  <2>1. Lies({})
    <3>1. 0 \in Int  OBVIOUS
    <3>2. \A i \in {} : 0 <= i /\ i <= 0  OBVIOUS
    <3> QED BY <3>1, <3>2
  <2> QED BY <2>1
<1>2. ASSUME NEW s \in SUBSET S, NEW x \in S \ s, s \in G PROVE s \cup {x} \in G
  <2>1. PICK a \in Int, b \in Int : \A i \in s : a <= i /\ i <= b  BY <1>2
  <2>2. x \in Int /\ \A i \in s : i \in Int  OBVIOUS
  <2>3. PICK a1 \in Int : a1 <= a /\ a1 <= x
    <3>1. CASE a <= x  BY <2>2, <3>1
    <3>2. CASE x <= a  BY <2>2, <3>2
    <3> QED BY <2>2, <3>1, <3>2
  <2>4. PICK b1 \in Int : b <= b1 /\ x <= b1
    <3>1. CASE b <= x  BY <2>2, <3>1
    <3>2. CASE x <= b  BY <2>2, <3>2
    <3> QED BY <2>2, <3>1, <3>2
  <2>5. \A i \in s \cup {x} : a1 <= i /\ i <= b1  BY <2>1, <2>2, <2>3, <2>4
  <2> QED BY <2>5
<1>3. S \in G
  <2> HIDE DEF G
  <2> QED BY <1>1, <1>2, OneByOne
<1> QED BY <1>3

\* Every full change is followed by one that is not.
LEMMA Closes ==
    ASSUME NEW H, Timed(H), NEW n \in Int, n >= 1, NEW i \in Full(H, n)
    PROVE  /\ Min(Closing(H, n, i)) \in Gaps(H, n) /\ i < Min(Closing(H, n, i))
           /\ \A k \in Gaps(H, n) : i < k => Min(Closing(H, n, i)) <= k
<1>0. PICK a \in Int, b \in Int : \A j \in Instants(H) : a <= j /\ j <= b  BY InstantsFinite, FiniteLie
<1>1. i \in Instants(H) /\ i \in Int /\ Instants(H) \subseteq Int /\ \A j \in Instants(H) : j <= b
  BY <1>0, InstantsFinite DEF Full
<1> DEFINE e == Max(Instants(H))
<1>2. e \in Instants(H) /\ e \in Int /\ \A j \in Instants(H) : j <= e  BY <1>1, MaxBelow
<1> HIDE DEF e
<1>3. \A h \in H : h.win[2] <= e  BY <1>2 DEF Instants
<1>4. Level(H, e) = 0  BY <1>1, <1>2, <1>3, AfterAll
<1>5. e \in Gaps(H, n)  BY <1>2, <1>4 DEF Gaps, Full
<1>6. i # e  BY <1>5 DEF Gaps
<1>7. i < e  BY <1>1, <1>2, <1>6
<1>8. Closing(H, n, i) \subseteq Int /\ Closing(H, n, i) # {} /\ \A k \in Closing(H, n, i) : i <= k
  <2>1. e \in Closing(H, n, i)  BY <1>5, <1>7 DEF Closing
  <2>2. ASSUME NEW k \in Closing(H, n, i) PROVE k \in Int /\ i < k  BY <1>1 DEF Closing, Gaps
  <2> QED BY <1>1, <2>1, <2>2
<1>9. Min(Closing(H, n, i)) \in Closing(H, n, i) /\ \A k \in Closing(H, n, i) : Min(Closing(H, n, i)) <= k
  BY <1>1, <1>8, MinThere
<1>10. \A k : k \in Closing(H, n, i) <=> k \in Gaps(H, n) /\ i < k  BY DEF Closing
<1> QED BY <1>9, <1>10

\* Every full change is part of a stretch: with no gap since it opened.
LEMMA OpenedBy ==
    ASSUME NEW H, Timed(H), NEW n \in Int, n >= 1, NEW j \in Full(H, n)
    PROVE  \E o \in Opens(H, n) : o <= j /\ \A k \in Gaps(H, n) : ~(o < k /\ k <= j)
<1> DEFINE P == {k \in Full(H, n) : k <= j /\ \A x \in Gaps(H, n) : ~(k < x /\ x < j)}
           o == Min(P)
<1>0. PICK a \in Int, b \in Int : \A i \in Instants(H) : a <= i /\ i <= b  BY InstantsFinite, FiniteLie
<1>1. \A i \in Instants(H) : i \in Int /\ a <= i  BY <1>0, InstantsFinite
<1>2. Full(H, n) \subseteq Instants(H) /\ Gaps(H, n) \subseteq Instants(H) /\ Full(H, n) \cap Gaps(H, n) = {}
  BY DEF Full, Gaps
<1>3. j \in Int  BY <1>1, <1>2
<1>4. \A x \in Gaps(H, n) : ~(j < x /\ x < j)  BY <1>1, <1>2, <1>3
<1>5. P \subseteq Int /\ j \in P /\ \A k \in P : a <= k  BY <1>1, <1>2, <1>3, <1>4
<1>6. o \in P /\ \A k \in P : o <= k
  <2> HIDE DEF P
  <2> QED BY <1>5, MinThere
<1>7. o \in Full(H, n) /\ o <= j /\ o \in Int /\ \A x \in Gaps(H, n) : ~(o < x /\ x < j)
  <2> HIDE DEF o
  <2> QED BY <1>1, <1>2, <1>6
<1> HIDE DEF o
<1>8. ASSUME NEW i \in Full(H, n), i < o PROVE \E k \in Gaps(H, n) : i < k /\ k < o
  <2> SUFFICES ASSUME \A k \in Gaps(H, n) : ~(i < k /\ k < o) PROVE FALSE  OBVIOUS
  <2>1. i \in Int  BY <1>1, <1>2
  <2>2. i <= j  BY <1>3, <1>7, <1>8, <2>1
  <2>3. ASSUME NEW x \in Gaps(H, n), i < x, x < j PROVE FALSE
    <3>1. x \in Int /\ x # o  BY <1>1, <1>2, <1>7
    <3>2. ~(x < o) /\ ~(o < x)  BY <1>7, <2>3
    <3> QED BY <1>7, <3>1, <3>2
  <2>4. i \in P  BY <2>2, <2>3
  <2> HIDE DEF P
  <2>5. o <= i  BY <1>6, <2>4
  <2> QED BY <1>7, <1>8, <2>1, <2>5
<1>9. o \in Opens(H, n)  BY <1>2, <1>7, <1>8 DEF Opens
<1>10. ASSUME NEW k \in Gaps(H, n), o < k, k <= j PROVE FALSE
  <2>1. k \in Int /\ k # j  BY <1>1, <1>2
  <2>2. k < j  BY <1>3, <1>10, <2>1
  <2> QED BY <1>7, <1>10, <2>2
<1> QED BY <1>7, <1>9, <1>10

\* pool_stretches: just the instants at or above the level, stretch by stretch.
AboveIn(found, H, n) ==
    /\ \A s \in found : s[1] \in Instants(H) /\ s[2] \in Instants(H) /\ s[1] < s[2]
    /\ \A i \in Int : Units(RunAt(H, i)) >= n <=> \E s \in found : s[1] <= i /\ i < s[2]
    /\ \A s, u \in found : s # u => s[2] < u[1] \/ u[2] < s[1]

LEMMA StretchesAre ==
    ASSUME NEW H, Timed(H), NEW n \in Int, n >= 1
    PROVE  AboveIn(PoolStretches(H, n), H, n)
<1> DEFINE close(i) == Min(Closing(H, n, i))
           found == {<<i, close(i)>> : i \in Opens(H, n)}
<1>1. PoolStretches(H, n) = found
  BY DEF PoolStretches, Closing, Gaps, Full, Opens
<1>3. /\ Instants(H) \subseteq Int
      /\ \A i \in Int : Units(RunAt(H, i)) = Level(H, i) /\ Units(RunAt(H, i)) \in Nat
  BY InstantsFinite, LevelIs
<1>4. /\ Full(H, n) \subseteq Instants(H) /\ Gaps(H, n) \subseteq Instants(H) /\ Opens(H, n) \subseteq Full(H, n)
      /\ \A i \in Instants(H) : (i \in Full(H, n) <=> Level(H, i) >= n) /\ (i \in Full(H, n) <=> i \notin Gaps(H, n))
  BY DEF Full, Gaps, Opens
<1>5. ASSUME NEW o \in Full(H, n)
      PROVE  /\ o \in Int /\ close(o) \in Int /\ close(o) \in Gaps(H, n) /\ o < close(o)
             /\ \A k \in Gaps(H, n) : o < k => close(o) <= k
  <2>1. /\ close(o) \in Gaps(H, n) /\ o < close(o)
        /\ \A k \in Gaps(H, n) : o < k => close(o) <= k
    BY Closes
  <2> HIDE DEF close
  <2> QED BY <1>3, <1>4, <2>1
<1> HIDE DEF close
<1>6. ASSUME NEW o \in Opens(H, n), NEW i \in Int, o <= i, i < close(o) PROVE Units(RunAt(H, i)) >= n
  <2>1. /\ o \in Full(H, n) /\ o \in Int /\ close(o) \in Int /\ close(o) \in Gaps(H, n) /\ o < close(o)
        /\ \A k \in Gaps(H, n) : o < k => close(o) <= k
    BY <1>4, <1>5
  <2>3. PICK j \in Instants(H) : /\ j <= i /\ RunAt(H, i) = RunAt(H, j)
                                 /\ \A x \in Instants(H) : x <= i => x <= j
    BY <1>4, <1>6, <2>1, LastChange
  <2>4. j \in Int /\ o <= j /\ j < close(o)  BY <1>3, <1>4, <1>6, <2>1, <2>3
  <2>5. j \in Full(H, n)
    <3>1. CASE j = o  BY <2>1, <3>1
    <3>2. CASE j # o
      <4>1. o < j  BY <2>1, <2>4, <3>2
      <4>2. j \notin Gaps(H, n)  BY <2>1, <2>4, <4>1
      <4> QED BY <1>4, <4>2
    <3> QED BY <3>1, <3>2
  <2>6. Level(H, j) >= n  BY <1>4, <2>5
  <2> QED BY <1>3, <2>3, <2>4, <2>6
<1>7. ASSUME NEW i \in Int, Units(RunAt(H, i)) >= n PROVE \E o \in Opens(H, n) : o <= i /\ i < close(o)
  <2>2. \E k \in Instants(H) : k <= i
    <3> SUFFICES ASSUME \A k \in Instants(H) : ~(k <= i) PROVE FALSE  OBVIOUS
    <3>1. \A h \in H : ~(h.win[1] <= i)  BY DEF Instants
    <3>2. RunAt(H, i) = {}  BY <3>1 DEF RunAt
    <3>3. Units(RunAt(H, i)) = 0  BY <3>2, NothingRuns
    <3> QED BY <1>7, <3>3
  <2>3. PICK j \in Instants(H) : /\ j <= i /\ RunAt(H, i) = RunAt(H, j)
                                 /\ \A x \in Instants(H) : x <= i => x <= j
    BY <2>2, LastChange
  <2>4. j \in Int /\ j \in Full(H, n)
    <3>1. j \in Int  BY <1>3
    <3>2. Level(H, j) = Units(RunAt(H, i))  BY <1>3, <2>3, <3>1
    <3> QED BY <1>4, <1>7, <3>1, <3>2
  <2>5. PICK o \in Opens(H, n) : o <= j /\ \A k \in Gaps(H, n) : ~(o < k /\ k <= j)
    BY <2>4, OpenedBy
  <2>6. /\ o \in Int /\ close(o) \in Int /\ close(o) \in Gaps(H, n) /\ o < close(o) /\ close(o) \in Instants(H)
    BY <1>4, <1>5
  <2>7. ~(close(o) <= j)  BY <2>5, <2>6
  <2>8. ~(close(o) <= i)  BY <2>3, <2>6, <2>7
  <2>9. o <= i /\ i < close(o)  BY <2>3, <2>4, <2>5, <2>6, <2>8
  <2> QED BY <2>9
<1>8. ASSUME NEW o \in Opens(H, n), NEW p \in Opens(H, n), o < p PROVE close(o) < p
  <2>1. o \in Full(H, n) /\ o \in Instants(H) /\ p \in Int /\ o \in Int  BY <1>3, <1>4
  <2>2. PICK k \in Gaps(H, n) : o < k /\ k < p  BY <1>8, <2>1 DEF Opens
  <2>3. close(o) <= k /\ close(o) \in Int /\ k \in Int  BY <1>3, <1>4, <1>5, <2>1, <2>2
  <2> QED BY <2>1, <2>2, <2>3
<1>9. ASSUME NEW s \in found, NEW u \in found, s # u PROVE s[2] < u[1] \/ u[2] < s[1]
  <2>1. PICK o \in Opens(H, n) : s = <<o, close(o)>>  OBVIOUS
  <2>2. PICK p \in Opens(H, n) : u = <<p, close(p)>>  OBVIOUS
  <2>3. o # p /\ o \in Int /\ p \in Int  BY <1>3, <1>4, <1>9, <2>1, <2>2
  <2>4. o < p \/ p < o  BY <2>3
  <2> QED BY <1>8, <2>1, <2>2, <2>4
<1>10. ASSUME NEW s \in found PROVE s[1] \in Instants(H) /\ s[2] \in Instants(H) /\ s[1] < s[2]
  <2>1. PICK o \in Opens(H, n) : s = <<o, close(o)>>  OBVIOUS
  <2> QED BY <1>4, <1>5, <2>1
<1>11. ASSUME NEW i \in Int PROVE Units(RunAt(H, i)) >= n <=> \E s \in found : s[1] <= i /\ i < s[2]
  <2>1. ASSUME NEW s \in found, s[1] <= i, i < s[2] PROVE Units(RunAt(H, i)) >= n
    <3>1. PICK o \in Opens(H, n) : s = <<o, close(o)>>  OBVIOUS
    <3> QED BY <1>6, <2>1, <3>1
  <2>2. ASSUME Units(RunAt(H, i)) >= n PROVE \E s \in found : s[1] <= i /\ i < s[2]
    <3>1. PICK o \in Opens(H, n) : o <= i /\ i < close(o)  BY <1>7, <2>2
    <3>2. <<o, close(o)>> \in found  OBVIOUS
    <3> QED BY <3>1, <3>2
  <2> HIDE DEF found
  <2> QED BY <2>1, <2>2
<1> HIDE DEF found
<1> QED BY <1>1, <1>9, <1>10, <1>11 DEF AboveIn
=============================================================================
