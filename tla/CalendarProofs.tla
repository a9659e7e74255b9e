--------------------------- MODULE CalendarProofs ----------------------------
(***************************************************************************)
(* Proofs about Windows and Calendar, for a day of any length, any rules   *)
(* and any windows: what CalendarCheck asks of one case after another.     *)
(***************************************************************************)
EXTENDS CalendarCheck, WindowsProofs
-----------------------------------------------------------------------------
(* The cases are of their types.                                            *)

WindowsTyped == row \in Rows /\ other \in Rows /\ pad \in (0..Day) \X (0..Day)

Kinds == {"against", "meet", "busy", "person", "clock"}

CaseTyped == \A kind \in Kinds : case.kind = kind => case \in Cases(kind)

LEMMA CasesTell ==
    ASSUME NEW kind \in Kinds, NEW c \in Cases(kind)
    PROVE  c.kind = kind
BY DEF Kinds, Cases

LEMMA CasesInit == CalendarInit => WindowsTyped /\ CaseTyped
<1> SUFFICES ASSUME CalendarInit PROVE WindowsTyped /\ CaseTyped  OBVIOUS
<1>1. 0 \in Times /\ 1 \in Times /\ 0 \in 0..MaxDate /\ 0 \in 0..Day
  BY BoundsAssumption, DayAssumption DEF Times
<1>2. <<0, 0, 1>> \in Rows  BY <1>1 DEF Rows
<1>3. case.kind = "none"  BY DEF CalendarInit, NoCase
<1> QED BY <1>1, <1>2, <1>3 DEF CalendarInit, Init, WindowsTyped, CaseTyped, Kinds

LEMMA CasesStep == WindowsTyped /\ CaseTyped /\ [CalendarNext]_allVars => (WindowsTyped /\ CaseTyped)'
<1> SUFFICES ASSUME WindowsTyped, CaseTyped, [CalendarNext]_allVars PROVE (WindowsTyped /\ CaseTyped)'
  OBVIOUS
<1>1. <<0, 0, 1>> \in Rows /\ <<0, 0>> \in (0..Day) \X (0..Day)
  <2>1. 0 \in Times /\ 1 \in Times /\ 0 \in 0..MaxDate /\ 0 \in 0..Day
    BY BoundsAssumption, DayAssumption DEF Times
  <2> QED BY <2>1 DEF Rows
<1>2. CASE Next /\ UNCHANGED case
  <2>1. WindowsTyped'  BY <1>1, <1>2 DEF Next, PickWindows, PickPadding, PickHolds, WindowsTyped
  <2>2. CaseTyped'  BY <1>2 DEF CaseTyped
  <2> QED BY <2>1, <2>2
<1>3. CASE PickCase /\ UNCHANGED vars
  <2>1. PICK k \in Kinds : case' \in Cases(k)  BY <1>3 DEF PickCase, Kinds
  <2>2. case'.kind = k  BY <2>1, CasesTell
  <2>3. CaseTyped'  BY <2>1, <2>2 DEF CaseTyped, Kinds, Cases
  <2> QED BY <1>3, <2>3 DEF WindowsTyped, vars
<1>4. CASE PickReport /\ UNCHANGED vars
  <2>1. case'.kind = "report"  BY <1>4 DEF PickReport
  <2>2. CaseTyped'  BY <2>1 DEF CaseTyped, Kinds
  <2> QED BY <1>4, <2>2 DEF WindowsTyped, vars
<1>5. CASE UNCHANGED allVars
  <2>1. row' = row /\ other' = other /\ pad' = pad /\ case' = case  BY <1>5 DEF allVars
  <2> QED BY <2>1 DEF WindowsTyped, CaseTyped
<1> QED BY <1>2, <1>3, <1>4, <1>5 DEF CalendarNext

LEMMA CasesHold == CalendarSpec => [](WindowsTyped /\ CaseTyped)
BY CasesInit, CasesStep, PTL DEF CalendarSpec

-----------------------------------------------------------------------------
(* Windows.                                                                 *)

LEMMA RowIs ==
    ASSUME NEW r \in Rows
    PROVE  r[1] \in Int /\ r[2] \in 0..(Day - 1) /\ r[3] \in 0..(Day - 1) /\ r[2] # r[3]
<1>1. r[1] \in 0..MaxDate /\ r[2] \in Times /\ r[3] \in Times /\ r[2] # r[3]  BY DEF Rows
<1> QED BY <1>1 DEF Times

LEMMA ReadAlike == WindowsTyped => WindowsAreReadAlike
<1> SUFFICES ASSUME WindowsTyped PROVE WindowsAreReadAlike  OBVIOUS
<1> DEFINE w == RowSpan(row)
           v == RowSpan(other)
           D == Day * row[1]
<1>1. /\ row[1] \in Int /\ row[2] \in 0..(Day - 1) /\ row[3] \in 0..(Day - 1) /\ row[2] # row[3]
      /\ other[1] \in Int /\ other[2] \in 0..(Day - 1) /\ other[3] \in 0..(Day - 1) /\ other[2] # other[3]
  BY RowIs DEF WindowsTyped
<1>2. /\ w = <<w[1], w[2]>> /\ w[1] = D + row[2] /\ w[1] \in Int /\ w[2] \in Int
      /\ w[2] = D + row[3] + (IF row[3] < row[2] THEN Day ELSE 0)
      /\ w[1] < w[2] /\ w[2] < w[1] + Day
  <2>1. w = <<w[1], w[2]>>  BY DEF RowSpan, WindowSpan
  <2> QED BY <1>1, <2>1, SpanIs DEF RowSpan
<1>3. v[1] \in Int /\ v[2] \in Int /\ v[1] < v[2]  BY <1>1, SpanIs DEF RowSpan
<1>4. Day \in Int /\ D \in Int  BY <1>1, NextDate, DayIs
<1>5. SpanAgreesWithConstraint
  <2>1. ConstraintSpan(row[1], row[2], row[3]) =
          <<D + row[2], D + row[3] + (IF row[3] <= row[2] THEN Day ELSE 0)>>
    BY DEF ConstraintSpan
  <2>2. row[3] <= row[2] <=> row[3] < row[2]  BY <1>1, DayIs
  <2> HIDE DEF D, w
  <2> QED BY <1>2, <2>1, <2>2 DEF SpanAgreesWithConstraint, w
<1>6. OverlapIsSharedInstant
  <2> HIDE DEF w, v
  <2>1. (w[1] < v[2] /\ v[1] < w[2]) <=> (w[1]..(w[2] - 1)) \cap (v[1]..(v[2] - 1)) # {}
    <3>1. w[1] \in Int /\ w[2] \in Int /\ w[1] < w[2]  BY <1>2
    <3> QED BY <1>3, <3>1, MeetIsShared, Zenon
  <2> QED BY <2>1 DEF OverlapIsSharedInstant, Overlaps, Covered, w, v
<1>7. PaddingBelowADayIsExact
  <2>1. pad[1] \in Nat /\ pad[2] \in Nat  BY DayIs DEF WindowsTyped
  <2>2. w = WindowSpan(row[1], row[2], row[3])  BY DEF RowSpan
  <2> HIDE DEF w
  <2>3. ASSUME (w[2] + pad[2]) - (w[1] - pad[1]) < Day
        PROVE  Padded(w, pad[1], pad[2]) =
                 IF /\ w[1] - pad[1] >= Day * row[1]
                    /\ w[2] + pad[2] <= Day * (((w[2] - 1) \div Day) + 1)
                 THEN <<w[1] - pad[1], w[2] + pad[2]>> ELSE NoWindow
    <3>1. \A d \in Int : \A s, e \in 0..(Day - 1) : s # e =>
            \A b, a \in Nat : \A x : (x = WindowSpan(d, s, e) /\ (x[2] + a) - (x[1] - b) < Day) =>
              Padded(x, b, a) = IF x[1] - b >= Day * d /\ x[2] + a <= Day * (((x[2] - 1) \div Day) + 1)
                                THEN <<x[1] - b, x[2] + a>> ELSE NoWindow
      BY PaddedBelowADay
    <3>2. \A b, a \in Nat : \A x : (x = WindowSpan(row[1], row[2], row[3]) /\ (x[2] + a) - (x[1] - b) < Day) =>
              Padded(x, b, a) = IF x[1] - b >= Day * row[1] /\ x[2] + a <= Day * (((x[2] - 1) \div Day) + 1)
                                THEN <<x[1] - b, x[2] + a>> ELSE NoWindow
      BY <1>1, <3>1, Zenon
    <3>3. \A x : (x = WindowSpan(row[1], row[2], row[3]) /\ (x[2] + pad[2]) - (x[1] - pad[1]) < Day) =>
              Padded(x, pad[1], pad[2]) =
                IF x[1] - pad[1] >= Day * row[1] /\ x[2] + pad[2] <= Day * (((x[2] - 1) \div Day) + 1)
                THEN <<x[1] - pad[1], x[2] + pad[2]>> ELSE NoWindow
      BY <2>1, <3>2, Zenon
    <3> QED BY <2>2, <2>3, <3>3, Zenon
  <2> QED BY <2>3 DEF PaddingBelowADayIsExact, w
<1> QED BY <1>5, <1>6, <1>7 DEF WindowsAreReadAlike

\* A window means the same to the constraint, to the checks and to whoever
\* reads a requirement's hold back, for every window, date and padding.
THEOREM WindowsAreReadAlikeHolds == CalendarSpec => []WindowsAreReadAlike
BY CasesHold, ReadAlike, PTL

-----------------------------------------------------------------------------
(* Classes and rows of the cases.                                           *)

GoodTimes(x) == x.start \in 0..(Day - 1) /\ x.end \in 0..(Day - 1)
GoodRow(x) == x.date \in Int /\ GoodTimes(x)
GoodClass(c) == c.rule \subseteq Int /\ c.first \in Int /\ c.last \in Int /\ GoodTimes(c)

LEMMA WinIs == ASSUME NEW w \in Wins PROVE w[1] \in 0..(Day - 1) /\ w[2] \in 0..(Day - 1)
<1>1. w \in Times \X Times  BY CalendarAssumption
<1> QED BY <1>1 DEF Times

LEMMA DatesAre == Dates \subseteq Int
BY CalendarAssumption DEF Dates

LEMMA ClassIs ==
    ASSUME NEW ids, NEW c \in Classes(ids)
    PROVE  GoodClass(c) /\ c.id \in ids /\ c.lead = Person
<1>1. PICK i \in ids, r \in SUBSET Dates, w \in Wins, f \in Dates, l \in Dates :
        c = [id |-> i, rule |-> r, start |-> w[1], end |-> w[2], first |-> f, last |-> l, lead |-> Person]
  BY DEF Classes
<1>2. /\ c.id = i /\ c.rule = r /\ c.start = w[1] /\ c.end = w[2] /\ c.first = f /\ c.last = l
      /\ c.lead = Person
  BY <1>1
<1> QED BY <1>2, WinIs, DatesAre DEF GoodClass, GoodTimes

LEMMA DatedRowIs ==
    ASSUME NEW dates, dates \subseteq Int, NEW x \in DatedRows(dates)
    PROVE  GoodRow(x)
<1>1. PICK d \in dates, w \in Wins : x = [date |-> d, start |-> w[1], end |-> w[2]]  BY DEF DatedRows
<1>2. x.date = d /\ x.start = w[1] /\ x.end = w[2]  BY <1>1
<1> QED BY <1>2, WinIs DEF GoodRow, GoodTimes

LEMMA DayRowIs == ASSUME NEW x \in DayRows PROVE GoodRow(x)
<1>1. PICK k \in {0, 1, 2}, y \in DatedRows(Dates) :
        x = [class |-> k, date |-> y.date, start |-> y.start, end |-> y.end]
  BY DEF DayRows
<1>2. x.date = y.date /\ x.start = y.start /\ x.end = y.end  BY <1>1
<1>3. GoodRow(y)  BY DatesAre, DatedRowIs
<1> QED BY <1>2, <1>3 DEF GoodRow, GoodTimes

LEMMA AtMostOneOf == ASSUME NEW S, NEW T \in AtMostOne(S) PROVE T \subseteq S
BY DEF AtMostOne

\* Only the dates from the one before up to the one it ends on reach a window.
LEMMA OnlyThese ==
    ASSUME NEW c \in Int, NEW s \in 0..(Day - 1), NEW e \in 0..(Day - 1),
           NEW d \in Int, NEW t \in 0..(Day - 1), NEW u \in 0..(Day - 1),
           Overlaps(WindowSpan(c, s, e), WindowSpan(d, t, u))
    PROVE  d - 1 <= c /\ c <= LastDate(d, t, u)
<1> DEFINE v == WindowSpan(c, s, e)
           w == WindowSpan(d, t, u)
           last == LastDate(d, t, u)
<1>1. d - c \in {-1, 0, 1}  BY NearDates
<1>2. v[1] \in Int /\ Day * c <= v[1]  BY SpanLies
<1>3. w[2] \in Int /\ w[2] <= Day * last + Day /\ last \in Int  BY SpanLies
<1>4. v[1] < w[2]  BY DEF Overlaps
<1>5. Day * c \in Int /\ Day * last \in Int /\ Day \in Int /\ Day * (last + 1) = Day * last + Day
  BY <1>3, NextDate, DayIs
<1>6. Day \in Nat /\ Day >= 1  BY DayIs
<1> HIDE DEF v, w, last
<1>7. ~(last < c)
  <2> SUFFICES ASSUME last < c PROVE FALSE  OBVIOUS
  <2>1. Day * last + Day <= Day * c  BY <1>3, LaterDate
  <2> QED BY <1>2, <1>3, <1>4, <1>5, <2>1
<1>8. c <= last  BY <1>3, <1>7
<1> QED BY <1>1, <1>8 DEF last

-----------------------------------------------------------------------------
(* What a new class would sit on.                                           *)

LEMMA NeighboursAreEnough == CaseTyped => NeighboursSuffice
<1> SUFFICES ASSUME CaseTyped, case.kind = "against" PROVE NeighboursSuffice
  BY DEF NeighboursSuffice
<1> DEFINE c == case.class
           T == case.today
           R == case.rows
           named == AgainstSlot(c, T, R)
           sat(dates) == {x \in R : \E d \in dates : Meets(c, d, Span(x))}
<1>1. /\ c \in Class1 /\ T \in {0, 1}
      /\ R \in AtMostOne(DatedRows(0..(LastRuleDate + 1)))
  BY DEF CaseTyped, Kinds, Cases
<1>2. GoodClass(c) /\ T \in Int
  <2>1. c \in Classes({1})  BY <1>1 DEF Class1
  <2> QED BY <1>1, <2>1, ClassIs
<1>3. ASSUME NEW x \in R PROVE GoodRow(x)
  <2>1. 0..(LastRuleDate + 1) \subseteq Int  OBVIOUS
  <2>2. x \in DatedRows(0..(LastRuleDate + 1))  BY <1>1, <1>3, AtMostOneOf
  <2> HIDE DEF R
  <2> QED BY <2>1, <2>2, DatedRowIs
<1> HIDE DEF c, T, R
<1>4. ASSUME NEW x \in sat({d \in RunsOn(c) : d > T}) PROVE x \in named
  <2>1. x \in R /\ GoodRow(x)  BY <1>3
  <2>2. PICK d \in RunsOn(c) : d > T /\ Meets(c, d, Span(x))  BY <1>4
  <2>3. d \in c.rule /\ Within(c, d) /\ d \in Int  BY <1>2, <2>2 DEF RunsOn, GoodClass
  <2>4. Overlaps(SpanOn(c, d), Span(x))  BY <2>2 DEF Meets
  <2>5. d - x.date \in {-1, 0, 1}  BY <1>2, <2>1, <2>3, <2>4, NearDates DEF GoodRow, GoodClass, GoodTimes, Span, SpanOn
  <2>6. x.date \in Int  BY <2>1 DEF GoodRow
  <2>7. x.date >= T /\ x.date + (d - x.date) = d  BY <1>2, <2>2, <2>3, <2>5, <2>6
  <2> DEFINE o == d - x.date
  <2>8. o \in Neighbours /\ x.date + o = d  BY <2>5, <2>7 DEF Neighbours
  <2> HIDE DEF o
  <2>9. \E n \in Neighbours : /\ Within(c, x.date + n) /\ x.date + n \in c.rule
                              /\ Overlaps(SpanOn(c, x.date + n), Span(x))
    BY <2>3, <2>4, <2>8
  <2> QED BY <2>1, <2>7, <2>9 DEF AgainstSlot
<1>5. ASSUME NEW x \in named PROVE x \in sat(RunsOn(c))
  <2>1. x \in R /\ \E n \in Neighbours : /\ Within(c, x.date + n) /\ x.date + n \in c.rule
                                        /\ Overlaps(SpanOn(c, x.date + n), Span(x))
    BY <1>5 DEF AgainstSlot
  <2>2. PICK n \in Neighbours : /\ Within(c, x.date + n) /\ x.date + n \in c.rule
                                /\ Overlaps(SpanOn(c, x.date + n), Span(x))
    BY <2>1
  <2>3. x.date + n \in RunsOn(c) /\ Meets(c, x.date + n, Span(x))  BY <2>2 DEF RunsOn, Meets
  <2> QED BY <2>1, <2>3
<1> QED BY <1>4, <1>5 DEF NeighboursSuffice, c, T, R

-----------------------------------------------------------------------------
(* Where two classes meet.                                                  *)

\* p is a date of each, the first from tomorrow on, and they overlap.
Met(c, T, o, p) ==
    /\ p \in RunsOn(c) \X RunsOn(o)
    /\ p[1] > T /\ Meets(c, p[1], SpanOn(o, p[2]))

\* a and e are of the narrowed rules, and overlap.
Narrowed(c, r, o, a, e) ==
    /\ a \in c.rule /\ r[1] <= a /\ a <= r[2]
    /\ e \in o.rule /\ Max({r[1] - 1, o.first}) <= e /\ e <= Min({r[2] + 1, o.last})
    /\ Overlaps(SpanOn(c, a), SpanOn(o, e))

\* The two narrowed rules leave out no date that meets one of the other.
LEMMA NarrowedRules ==
    ASSUME NEW c, NEW o, NEW T \in Int, GoodClass(c), GoodClass(o), NEW a, NEW e
    PROVE  LET r == Reach(c, T + 1, o)
           IN  /\ r[1] \in Int /\ r[2] \in Int
               /\ Met(c, T, o, <<a, e>>) <=> Narrowed(c, r, o, a, e)
<1> DEFINE r == Reach(c, T + 1, o)
<1>1. /\ c.rule \subseteq Int /\ c.first \in Int /\ c.last \in Int
      /\ o.rule \subseteq Int /\ o.first \in Int /\ o.last \in Int
  BY DEF GoodClass
<1>2. r[1] = Max({T + 1, o.first - 1, c.first}) /\ r[2] = Min({o.last + 1, c.last})  BY DEF Reach
<1> HIDE DEF r
<1>3. /\ r[1] \in Int
      /\ \A x \in Int : r[1] <= x <=> (T + 1 <= x /\ o.first - 1 <= x /\ c.first <= x)
  <2> DEFINE u == T + 1
             v == o.first - 1
             w == c.first
  <2>1. u \in Int /\ v \in Int /\ w \in Int  BY <1>1
  <2>2. r[1] = Max({u, v, w})  BY <1>2
  <2> HIDE DEF u, v, w
  <2>3. r[1] \in Int /\ \A x \in Int : r[1] <= x <=> (u <= x /\ v <= x /\ w <= x)
    BY <2>1, <2>2, MaxOfThree
  <2> QED BY <2>3 DEF u, v, w
<1>4. /\ r[2] \in Int
      /\ \A x \in Int : x <= r[2] <=> (x <= o.last + 1 /\ x <= c.last)
  <2>1. r[2] = IF o.last + 1 <= c.last THEN o.last + 1 ELSE c.last  BY <1>1, <1>2, MinOfTwo
  <2> QED BY <1>1, <2>1
<1>5. \A x \in Int : Max({r[1] - 1, o.first}) <= x <=> (r[1] - 1 <= x /\ o.first <= x)
  <2>1. Max({r[1] - 1, o.first}) = IF r[1] - 1 >= o.first THEN r[1] - 1 ELSE o.first
    BY <1>1, <1>3, MaxOfTwo
  <2> QED BY <1>1, <1>3, <2>1
<1>6. \A x \in Int : x <= Min({r[2] + 1, o.last}) <=> (x <= r[2] + 1 /\ x <= o.last)
  <2>1. Min({r[2] + 1, o.last}) = IF r[2] + 1 <= o.last THEN r[2] + 1 ELSE o.last
    BY <1>1, <1>4, MinOfTwo
  <2> QED BY <1>1, <1>4, <2>1
<1>7. Met(c, T, o, <<a, e>>) <=>
        /\ a \in c.rule /\ c.first <= a /\ a <= c.last
        /\ e \in o.rule /\ o.first <= e /\ e <= o.last
        /\ a > T /\ Overlaps(SpanOn(c, a), SpanOn(o, e))
  BY DEF Met, RunsOn, Within, Meets
<1>8. ASSUME a \in c.rule, e \in o.rule, Overlaps(SpanOn(c, a), SpanOn(o, e))
      PROVE  a \in Int /\ e \in Int /\ e - 1 <= a /\ a <= e + 1
  <2>1. a \in Int /\ e \in Int  BY <1>1, <1>8
  <2>2. e - a \in {-1, 0, 1}  BY <1>8, <2>1, NearDates DEF GoodClass, GoodTimes, SpanOn
  <2> QED BY <2>1, <2>2
<1>9. ASSUME Met(c, T, o, <<a, e>>)
      PROVE  /\ a \in c.rule /\ r[1] <= a /\ a <= r[2]
             /\ e \in o.rule /\ Max({r[1] - 1, o.first}) <= e /\ e <= Min({r[2] + 1, o.last})
             /\ Overlaps(SpanOn(c, a), SpanOn(o, e))
  <2>1. /\ a \in c.rule /\ c.first <= a /\ a <= c.last
        /\ e \in o.rule /\ o.first <= e /\ e <= o.last
        /\ a > T /\ Overlaps(SpanOn(c, a), SpanOn(o, e))
    BY <1>7, <1>9
  <2>2. a \in Int /\ e \in Int /\ e - 1 <= a /\ a <= e + 1  BY <1>8, <2>1
  <2>3. T + 1 <= a /\ o.first - 1 <= a /\ c.first <= a  BY <1>1, <2>1, <2>2
  <2>4. a <= o.last + 1 /\ a <= c.last  BY <1>1, <2>1, <2>2
  <2>5. r[1] <= a /\ a <= r[2]  BY <1>3, <1>4, <2>2, <2>3, <2>4
  <2>6. r[1] - 1 <= e /\ e <= r[2] + 1  BY <1>3, <1>4, <2>2, <2>5
  <2> QED BY <1>5, <1>6, <2>1, <2>2, <2>5, <2>6
<1>10. ASSUME a \in c.rule, r[1] <= a, a <= r[2],
              e \in o.rule, Max({r[1] - 1, o.first}) <= e, e <= Min({r[2] + 1, o.last}),
              Overlaps(SpanOn(c, a), SpanOn(o, e))
       PROVE  Met(c, T, o, <<a, e>>)
  <2>1. a \in Int /\ e \in Int  BY <1>8, <1>10
  <2>2. T + 1 <= a /\ c.first <= a /\ a <= c.last  BY <1>3, <1>4, <1>10, <2>1
  <2>3. o.first <= e /\ e <= o.last  BY <1>5, <1>6, <1>10, <2>1
  <2>4. a > T  BY <2>1, <2>2
  <2> QED BY <1>7, <1>10, <2>2, <2>3, <2>4
<1> QED BY <1>3, <1>4, <1>9, <1>10 DEF Narrowed, r

\* The first meeting is the first of the pairs that meet, date by date.
LEMMA MeetingsFound == CaseTyped => MeetingsAreFound
<1> SUFFICES ASSUME CaseTyped, case.kind = "meet" PROVE MeetingsAreFound
  BY DEF MeetingsAreFound
<1> DEFINE c == case.class
           T == case.today
           o == case.other
           met == {p \in RunsOn(c) \X RunsOn(o) : p[1] > T /\ Meets(c, p[1], SpanOn(o, p[2]))}
           first == {p \in met : \A q \in met : p[1] < q[1] \/ (p[1] = q[1] /\ p[2] <= q[2])}
           r == Reach(c, T + 1, o)
           ours == {d \in c.rule : r[1] <= d /\ d <= r[2]}
           theirs == {d \in o.rule : Max({r[1] - 1, o.first}) <= d /\ d <= Min({r[2] + 1, o.last})}
           touch(d) == {e \in theirs : e - d \in Neighbours /\ Overlaps(SpanOn(c, d), SpanOn(o, e))}
           days == {d \in ours : touch(d) # {}}
           found == SlotAgainstSlot(c, T, o)
<1>1. GoodClass(c) /\ GoodClass(o) /\ T \in Int
  <2>1. c \in Class1 /\ T \in {-1, 0} /\ o \in Class2  BY DEF CaseTyped, Kinds, Cases
  <2>2. c \in Classes({1}) /\ o \in Classes({2})  BY <2>1 DEF Class1, Class2
  <2> QED BY <2>1, <2>2, ClassIs
<1>2. found = IF r[1] > r[2] THEN {} ELSE IF days = {} THEN {} ELSE {Min(touch(Min(days)))}
  BY DEF SlotAgainstSlot, FirstMeeting
<1>3. MeetingsAreFound <=> found = {p[2] : p \in first}  BY DEF MeetingsAreFound
<1> HIDE DEF found, c, T, o
<1>4. r[1] \in Int /\ r[2] \in Int  BY <1>1, NarrowedRules
<1>5. ours \subseteq Int /\ theirs \subseteq Int  BY <1>1 DEF GoodClass
<1>6. ASSUME NEW a, NEW e
      PROVE  /\ <<a, e>> \in met <=> (a \in ours /\ e \in theirs /\ Overlaps(SpanOn(c, a), SpanOn(o, e)))
             /\ <<a, e>> \in met <=> (a \in ours /\ e \in touch(a))
  <2>1. <<a, e>> \in met <=> Met(c, T, o, <<a, e>>)  BY DEF Met
  <2>2. Met(c, T, o, <<a, e>>) <=> (a \in ours /\ e \in theirs /\ Overlaps(SpanOn(c, a), SpanOn(o, e)))
    <3>1. Met(c, T, o, <<a, e>>) <=> Narrowed(c, r, o, a, e)  BY <1>1, NarrowedRules
    <3> HIDE DEF r
    <3> QED BY <3>1 DEF Narrowed
  <2>3. ASSUME a \in ours, e \in theirs, Overlaps(SpanOn(c, a), SpanOn(o, e))
        PROVE  e - a \in Neighbours
    <3>1. a \in Int /\ e \in Int  BY <1>5, <2>3
    <3> QED BY <1>1, <2>3, <3>1, NearDates DEF GoodClass, GoodTimes, SpanOn, Neighbours
  <2> HIDE DEF met, ours, theirs
  <2> QED BY <2>1, <2>2, <2>3
<1>7. ASSUME NEW p \in met PROVE p = <<p[1], p[2]>>  OBVIOUS
<1>8. \A d \in ours : r[1] <= d  OBVIOUS
<1>9. r[1] > r[2] => ours = {}  BY <1>4, <1>5
<1>10. ASSUME NEW d \in ours, NEW e \in touch(d) PROVE e \in Int /\ d - 1 <= e
  <2>1. d \in Int /\ e \in Int /\ e - d \in {-1, 0, 1}  BY <1>5 DEF Neighbours
  <2> QED BY <2>1
<1>11. days \subseteq ours  OBVIOUS
<1>12. \A d \in ours : d \in days <=> touch(d) # {}  OBVIOUS
<1> HIDE DEF met, ours, theirs, touch, days, r
<1>13. CASE days = {}
  <2>1. \A p \in met : FALSE
    <3> SUFFICES ASSUME NEW p \in met PROVE FALSE  OBVIOUS
    <3>1. p[1] \in ours /\ p[2] \in touch(p[1])  BY <1>6, <1>7
    <3> QED BY <1>12, <1>13, <3>1
  <2>2. first = {}  BY <2>1
  <2> HIDE DEF first
  <2>3. {p[2] : p \in first} = {} /\ found = {}  BY <1>2, <1>13, <2>2
  <2> QED BY <1>3, <2>3
<1>14. CASE days # {}
  <2> DEFINE m == Min(days)
             k == Min(touch(m))
  <2>1. m \in days /\ \A d \in days : m <= d  BY <1>4, <1>5, <1>8, <1>11, <1>14, MinThere
  <2>2. m \in ours /\ m \in Int /\ touch(m) # {}  BY <1>5, <1>11, <1>12, <2>1
  <2>3. touch(m) \subseteq Int /\ m - 1 \in Int /\ \A e \in touch(m) : m - 1 <= e  BY <1>10, <2>2
  <2> HIDE DEF m
  <2>4. k \in touch(m) /\ \A e \in touch(m) : k <= e  BY <2>2, <2>3, MinThere
  <2> HIDE DEF k
  <2>5. <<m, k>> \in met  BY <1>6, <2>2, <2>4
  <2>6. ASSUME NEW q \in met PROVE q[1] \in Int /\ q[2] \in Int /\ (m < q[1] \/ (m = q[1] /\ k <= q[2]))
    <3>1. q[1] \in ours /\ q[2] \in touch(q[1])  BY <1>6, <1>7
    <3>2. q[1] \in days /\ q[1] \in Int /\ q[2] \in Int  BY <1>5, <1>10, <1>12, <3>1
    <3>3. m <= q[1]  BY <2>1, <3>2
    <3>4. m = q[1] => k <= q[2]  BY <2>4, <3>1
    <3> QED BY <2>2, <3>2, <3>3, <3>4
  <2>7. <<m, k>> \in first  BY <2>5, <2>6
  <2>8. ASSUME NEW p \in first PROVE p[2] = k
    <3>1. p \in met  OBVIOUS
    <3>2. p[1] < m \/ (p[1] = m /\ p[2] <= k)  BY <2>5
    <3>3. p[1] \in Int /\ p[2] \in Int /\ (m < p[1] \/ (m = p[1] /\ k <= p[2]))  BY <2>6, <3>1
    <3>4. k \in Int  BY <2>3, <2>4
    <3> QED BY <2>2, <3>2, <3>3, <3>4
  <2> HIDE DEF first
  <2>9. {p[2] : p \in first} = {k}  BY <2>7, <2>8
  <2>10. ~(r[1] > r[2])  BY <1>9, <2>2
  <2>11. found = {k}  BY <1>2, <1>14, <2>10 DEF k, m
  <2> QED BY <1>3, <2>9, <2>11
<1> QED BY <1>13, <1>14

-----------------------------------------------------------------------------
(* What stands against a window.                                            *)

\* A row that overlaps the window is fetched, and reaches its dates.
LEMMA Reached ==
    ASSUME NEW x, GoodRow(x), NEW win, NEW d \in Int, NEW y, GoodTimes(y),
           win = WindowSpan(d, y.start, y.end), Overlaps(win, Span(x))
    PROVE  LET to == LastDate(x.date, x.start, x.end)
           IN  x.date - 1 <= d /\ d <= to /\ to \in Int /\ Overlaps(win, <<Day * x.date, Day * (to + 1)>>)
<1> DEFINE to == LastDate(x.date, x.start, x.end)
           s == Span(x)
<1>1. x.date \in Int /\ x.start \in 0..(Day - 1) /\ x.end \in 0..(Day - 1)  BY DEF GoodRow, GoodTimes
<1>2. /\ s[1] \in Int /\ s[2] \in Int /\ Day * x.date <= s[1]
      /\ s[2] <= Day * to + Day /\ to \in Int
  BY <1>1, SpanLies DEF Span
<1>3. win[1] \in Int /\ win[2] \in Int  BY SpanLies DEF GoodTimes
<1>4. x.date - 1 <= d /\ d <= to  BY <1>1, OnlyThese DEF GoodTimes, Span
<1>5. Day * x.date \in Int /\ Day * to \in Int /\ Day \in Int /\ Day * (to + 1) = Day * to + Day
  BY <1>1, <1>2, NextDate, DayIs
<1>6. win[1] < s[2] /\ s[1] < win[2]  BY DEF Overlaps
<1> HIDE DEF to, s
<1>7. win[1] < Day * (to + 1) /\ Day * x.date < win[2]  BY <1>2, <1>3, <1>5, <1>6
<1>8. Overlaps(win, <<Day * x.date, Day * (to + 1)>>)  BY <1>7 DEF Overlaps
<1> QED BY <1>2, <1>4, <1>8 DEF to

LEMMA ConflictsFound == CaseTyped => ConflictsAreTheWholeCalendar
<1> SUFFICES ASSUME CaseTyped, case.kind = "busy" PROVE ConflictsAreTheWholeCalendar
  BY DEF ConflictsAreTheWholeCalendar
<1> DEFINE c == case.class
           D == case.days
           H == case.held
           x == case.asked
           dated == {[by |-> y, date |-> y.date, win |-> Span(y)] : y \in D \cup H}
           classes == {[by |-> c, date |-> d, win |-> SpanOn(c, d)] :
                         d \in {e \in RunsOn(c) : ~\E y \in D : y.class = c.id /\ y.date = e}}
           to == LastDate(x.date, x.start, x.end)
           fetched == {y \in D : x.date - 1 <= y.date /\ y.date <= to}
           kept == {y \in H : x.date - 1 <= y.date /\ y.date <= to}
           asked == <<Day * x.date, Day * (to + 1)>>
           busy == {[by |-> k, date |-> d, win |-> SpanOn(k, d)] : k \in {c}, d \in (x.date - 1)..to}
           runs == {b \in busy : b.date \in b.by.rule /\ Within(b.by, b.date) /\ ~Settled(b.by, b.date, fetched)}
           rows == {[by |-> y, date |-> y.date, win |-> Span(y)] : y \in fetched \cup kept}
           found == WindowConflicts({c}, D, H, x)
           whole == {b \in dated \cup classes : Overlaps(b.win, Span(x))}
<1>1. /\ GoodClass(c) /\ GoodRow(x)
      /\ \A y \in D : GoodRow(y)
      /\ \A y \in H : GoodRow(y)
  <2>1. c \in Class1 /\ D \in AtMostOne(DayRows) /\ H \in AtMostOne(DatedRows({1})) /\ x \in DatedRows(Dates)
    BY DEF CaseTyped, Kinds, Cases
  <2>2. c \in Classes({1})  BY <2>1 DEF Class1
  <2>3. GoodClass(c)  BY <2>2, ClassIs
  <2>4. GoodRow(x)  BY <2>1, DatesAre, DatedRowIs
  <2>5. D \subseteq DayRows /\ H \subseteq DatedRows({1})  BY <2>1, AtMostOneOf
  <2>6. {1} \subseteq Int  OBVIOUS
  <2> HIDE DEF D, H, x, c
  <2>7. \A y \in D : GoodRow(y)  BY <2>5, DayRowIs
  <2>8. \A y \in H : GoodRow(y)  BY <2>5, <2>6, DatedRowIs
  <2> QED BY <2>3, <2>4, <2>7, <2>8
<1>2. \A b : b \in found <=> b \in runs \cup rows /\ Overlaps(b.win, asked) /\ Overlaps(b.win, Span(x))
  BY DEF WindowConflicts, Occupied
<1>3. ConflictsAreTheWholeCalendar <=> found = whole  BY DEF ConflictsAreTheWholeCalendar
<1> HIDE DEF c, D, H, x, found
<1>4. c.rule \subseteq Int /\ c.first \in Int /\ c.last \in Int /\ x.date \in Int  BY <1>1 DEF GoodClass, GoodRow
<1>5. to \in Int
  BY <1>4 DEF LastDate
<1> HIDE DEF to
<1>6. ASSUME NEW b \in runs PROVE b \in classes
  <2>1. PICK d \in (x.date - 1)..to : b = [by |-> c, date |-> d, win |-> SpanOn(c, d)]  OBVIOUS
  <2>2. b.by = c /\ b.date = d  BY <2>1
  <2>3. d \in c.rule /\ Within(c, d) /\ ~Settled(c, d, fetched)  BY <2>2
  <2>4. d \in RunsOn(c)  BY <2>3 DEF RunsOn
  <2>5. ~\E y \in D : y.class = c.id /\ y.date = d
    <3> SUFFICES ASSUME NEW y \in D, y.class = c.id, y.date = d PROVE FALSE  OBVIOUS
    <3>1. d \in Int /\ x.date - 1 <= d /\ d <= to  BY <1>4, <1>5
    <3>2. y \in fetched  BY <3>1
    <3> QED BY <2>3, <3>2 DEF Settled
  <2> QED BY <2>1, <2>4, <2>5
<1>7. ASSUME NEW b \in rows PROVE b \in dated
  OBVIOUS
<1>8. ASSUME NEW b \in classes, Overlaps(b.win, Span(x)) PROVE b \in runs /\ Overlaps(b.win, asked)
  <2>1. PICK d \in RunsOn(c) : /\ b = [by |-> c, date |-> d, win |-> SpanOn(c, d)]
                               /\ ~\E y \in D : y.class = c.id /\ y.date = d
    OBVIOUS
  <2>2. b.by = c /\ b.date = d /\ b.win = SpanOn(c, d)  BY <2>1
  <2>3. d \in c.rule /\ Within(c, d) /\ d \in Int  BY <1>4 DEF RunsOn
  <2>4. GoodTimes(c)  BY <1>1 DEF GoodClass
  <2>5. x.date - 1 <= d /\ d <= to /\ Overlaps(b.win, asked)
    BY <1>1, <1>8, <2>2, <2>3, <2>4, Reached DEF SpanOn, to
  <2>6. d \in (x.date - 1)..to  BY <1>4, <1>5, <2>3, <2>5
  <2>7. b \in busy  BY <2>1, <2>6
  <2>8. ~Settled(c, d, fetched)  BY <2>1 DEF Settled
  <2> QED BY <2>2, <2>3, <2>5, <2>7, <2>8
<1>9. ASSUME NEW b \in dated, Overlaps(b.win, Span(x)) PROVE b \in rows /\ Overlaps(b.win, asked)
  <2>1. PICK y \in D \cup H : b = [by |-> y, date |-> y.date, win |-> Span(y)]  OBVIOUS
  <2>2. GoodRow(y)  BY <1>1
  <2>3. b.win = Span(y) /\ y.date \in Int /\ GoodTimes(y)  BY <2>1, <2>2 DEF GoodRow
  <2>4. x.date - 1 <= y.date /\ y.date <= to /\ Overlaps(b.win, asked)
    BY <1>1, <1>9, <2>3, Reached DEF Span, to
  <2>5. y \in fetched \cup kept  BY <2>4
  <2> QED BY <2>1, <2>4, <2>5
<1> HIDE DEF runs, rows, asked, dated, classes
<1>10. ASSUME NEW b PROVE b \in found <=> b \in whole
  BY <1>2, <1>6, <1>7, <1>8, <1>9
<1> HIDE DEF whole
<1>11. \A b \in found : b \in whole  BY <1>10
<1>12. \A b \in whole : b \in found  BY <1>10
<1>13. found = whole
  <2>1. \A b : b \in found <=> b \in whole  BY <1>10
  <2> QED BY <2>1
<1> QED BY <1>3, <1>13

\* What a new class sits on, which class it meets and what stands against a
\* window are all found, though only a few dates of each rule are looked at: for
\* every rule, cycle, window and day.
THEOREM NarrowingOverlooksNothingHolds == CalendarSpec => []NarrowingOverlooksNothing
<1>1. WindowsTyped /\ CaseTyped => NarrowingOverlooksNothing
  BY NeighboursAreEnough, MeetingsFound, ConflictsFound DEF NarrowingOverlooksNothing
<1> QED BY <1>1, CasesHold, PTL

-----------------------------------------------------------------------------
(* Where somebody is.                                                       *)

\* What runs at an instant is of its date or of the one before.
LEMMA RunsToday ==
    ASSUME NEW d \in Int, NEW x, GoodTimes(x), NEW i \in Int, NEW win,
           win = WindowSpan(d, x.start, x.end), Covers(win, i)
    PROVE  d \in {(i \div Day) - 1, i \div Day}
<1> DEFINE t == i \div Day
           m == i % Day
<1>1. t \in Int /\ m \in Int /\ m < Day /\ i = Day * t + m
  <2>1. t \in Int /\ m \in 0..(Day - 1) /\ i = Day * t + m  BY InstantIs
  <2> HIDE DEF t, m
  <2> QED BY <2>1, DayIs
<1>2. win[1] \in Int /\ win[2] \in Int /\ Day * d <= win[1] /\ win[2] < Day * d + Day + Day
  BY SpanLies DEF GoodTimes
<1>3. win[1] <= i /\ i < win[2]  BY DEF Covers
<1>4. 0 <= m
  <2>1. m \in 0..(Day - 1)  BY InstantIs
  <2> HIDE DEF m
  <2> QED BY <2>1
<1> HIDE DEF t, m
<1>5. /\ Day * d \in Int /\ Day * t \in Int /\ Day \in Int /\ d + 1 \in Int
      /\ Day * (d + 1) = Day * d + Day
  BY <1>1, NextDate, DayIs
<1>6. ~(t < d)
  <2> SUFFICES ASSUME t < d PROVE FALSE  OBVIOUS
  <2>1. Day * t + Day <= Day * d  BY <1>1, LaterDate
  <2> QED BY <1>1, <1>2, <1>3, <1>5, <2>1
<1>7. ~(d + 1 < t)
  <2> SUFFICES ASSUME d + 1 < t PROVE FALSE  OBVIOUS
  <2>1. Day * (d + 1) + Day <= Day * t  BY <1>1, <1>5, LaterDate
  <2> QED BY <1>1, <1>2, <1>3, <1>4, <1>5, <2>1
<1>8. d = t \/ d = t - 1  BY <1>1, <1>6, <1>7
<1> QED BY <1>8 DEF t

\* What a person's running day says, and a running class with no day of its date.
DayAnswer(y) == [date |-> y.date, start |-> y.start, says |-> DaySays(y, Person)]
ClassAnswer(c, d, leave) ==
    [date |-> d, start |-> c.start, says |-> IF d \in leave THEN "away" ELSE "leads"]

\* The dates of the class with no day of their own.
Unwritten(c, days) == {d \in RunsOn(c) : ~Settled(c, d, days)}

\* What the running days say, those that say anything, and the class.
Saying(days, i) == {DayAnswer(y) : y \in {z \in days : Covers(Span(z), i)}}
Spoken(days, i) == {f \in Saying(days, i) : f.says # "nothing"}
Leading(c, days, leave, i) ==
    {ClassAnswer(c, d, leave) : d \in {e \in Unwritten(c, days) : Covers(SpanOn(c, e), i)}}
Rest(leave, i) ==
    {[date |-> i \div Day, start |-> 0, says |-> IF (i \div Day) \in leave THEN "away" ELSE "based"]}

AnsweredBy(c, days, leave, i) ==
    Located(Person, days, {c}, leave, i) =
        IF Spoken(days, i) # {} THEN First(Spoken(days, i))
        ELSE IF Leading(c, days, leave, i) # {} THEN First(Leading(c, days, leave, i))
        ELSE Rest(leave, i)

\* The answer is from the days that run and the dates of the class that do.
LEMMA LocatedIs ==
    ASSUME NEW c, GoodClass(c), c.lead = Person, NEW days, \A y \in days : GoodRow(y),
           NEW leave, NEW i \in Int
    PROVE  AnsweredBy(c, days, leave, i)
<1> DEFINE today == i \div Day
           dates == {today - 1, today}
           spoken == {f \in {DayAnswer(y) : y \in {z \in days : Covers(Span(z), i)}} : f.says # "nothing"}
           running == {ClassAnswer(c, d, leave) : d \in {e \in Unwritten(c, days) : Covers(SpanOn(c, e), i)}}
           rest == {[date |-> today, start |-> 0, says |-> IF today \in leave THEN "away" ELSE "based"]}
           second == {[date |-> x.date, start |-> x.start, says |-> DaySays(x, Person)] :
                        x \in {y \in days : y.date \in dates /\ Covers(Span(y), i)}}
           spoke == {f \in second : f.says # "nothing"}
           third == {r \in {c} \X dates :
                       /\ r[1].lead = Person /\ r[2] \in r[1].rule /\ Within(r[1], r[2])
                       /\ ~Settled(r[1], r[2], days) /\ Covers(SpanOn(r[1], r[2]), i)}
           ran == {[date |-> r[2], start |-> r[1].start, says |-> ClassSays(r[1], r[2], today, leave)] : r \in third}
<1>1. Located(Person, days, {c}, leave, i) =
        IF spoke # {} THEN First(spoke) ELSE IF ran # {} THEN First(ran) ELSE rest
  BY DEF Located
<1>2. {y \in days : y.date \in dates /\ Covers(Span(y), i)} = {z \in days : Covers(Span(z), i)}
  <2>1. ASSUME NEW y \in days, Covers(Span(y), i) PROVE y.date \in dates
    <3>1. y.date \in Int /\ GoodTimes(y)  BY DEF GoodRow
    <3> QED BY <2>1, <3>1, RunsToday DEF Span
  <2> HIDE DEF dates
  <2> QED BY <2>1
<1>3. spoke = spoken
  <2>1. second = {DayAnswer(y) : y \in {z \in days : Covers(Span(z), i)}}
    <3> DEFINE X == {y \in days : y.date \in dates /\ Covers(Span(y), i)}
               Z == {z \in days : Covers(Span(z), i)}
    <3>1. second = {DayAnswer(y) : y \in X}  BY DEF DayAnswer
    <3>2. X = Z  BY <1>2
    <3> HIDE DEF X, Z, second
    <3> QED BY <3>1, <3>2 DEF Z
  <2> HIDE DEF second
  <2> QED BY <2>1
<1>4. ASSUME NEW d PROVE <<c, d>> \in third <=> d \in Unwritten(c, days) /\ Covers(SpanOn(c, d), i)
  <2>1. ASSUME d \in c.rule, Covers(SpanOn(c, d), i) PROVE d \in dates
    <3>1. d \in Int /\ GoodTimes(c)  BY <2>1 DEF GoodClass
    <3> QED BY <2>1, <3>1, RunsToday DEF SpanOn
  <2> HIDE DEF dates
  <2> QED BY <2>1 DEF Unwritten, RunsOn
<1>5. ran = running
  <2>1. ASSUME NEW f \in ran PROVE f \in running
    <3>1. PICK r \in third : f = [date |-> r[2], start |-> r[1].start, says |-> ClassSays(r[1], r[2], today, leave)]
      OBVIOUS
    <3>2. r = <<c, r[2]>> /\ r[1] = c  OBVIOUS
    <3>3. r[2] \in Unwritten(c, days) /\ Covers(SpanOn(c, r[2]), i)  BY <1>4, <3>2
    <3>4. f = ClassAnswer(c, r[2], leave)  BY <3>1, <3>2 DEF ClassAnswer, ClassSays
    <3> QED BY <3>3, <3>4
  <2>2. ASSUME NEW f \in running PROVE f \in ran
    <3>1. PICK d \in {e \in Unwritten(c, days) : Covers(SpanOn(c, e), i)} : f = ClassAnswer(c, d, leave)
      OBVIOUS
    <3> DEFINE r == <<c, d>>
    <3>2. r \in third  BY <1>4, <3>1
    <3>3. f = [date |-> r[2], start |-> r[1].start, says |-> ClassSays(r[1], r[2], today, leave)]
      BY <3>1 DEF ClassAnswer, ClassSays
    <3> HIDE DEF r, third
    <3> QED BY <3>2, <3>3
  <2> HIDE DEF ran, running
  <2> QED BY <2>1, <2>2
<1> HIDE DEF spoke, spoken, ran, running, rest
<1>6. Located(Person, days, {c}, leave, i) =
        IF spoken # {} THEN First(spoken) ELSE IF running # {} THEN First(running) ELSE rest
  BY <1>1, <1>3, <1>5
<1> QED BY <1>6 DEF spoken, running, rest, AnsweredBy, Spoken, Saying, Leading, Rest

\* A written day says of the person what its class says.
LEMMA WrittenSays ==
    ASSUME NEW c, GoodClass(c), c.lead = Person, NEW leave, NEW d \in Int
    PROVE  /\ DayAnswer(Written(c, d, leave)) = ClassAnswer(c, d, leave)
           /\ ClassAnswer(c, d, leave).says # "nothing"
           /\ GoodRow(Written(c, d, leave))
           /\ Span(Written(c, d, leave)) = SpanOn(c, d)
           /\ Written(c, d, leave).class = c.id /\ Written(c, d, leave).date = d
<1> DEFINE w == Written(c, d, leave)
<1>1. /\ w.class = c.id /\ w.date = d /\ w.start = c.start /\ w.end = c.end /\ w.lead = Person
      /\ w.cover = 0 /\ w.state = IF d \in leave THEN "ON_LEAVE" ELSE "SCHEDULED"
  BY DEF Written
<1>2. 0 # Person  BY CalendarAssumption
<1> HIDE DEF w
<1>3. DaySays(w, Person) = IF d \in leave THEN "away" ELSE "leads"
  BY <1>1, <1>2 DEF DaySays
<1>4. DayAnswer(w) = ClassAnswer(c, d, leave)  BY <1>1, <1>3 DEF DayAnswer, ClassAnswer
<1>5. ClassAnswer(c, d, leave).says # "nothing"  BY DEF ClassAnswer
<1>6. GoodRow(w) /\ Span(w) = SpanOn(c, d)  BY <1>1 DEF GoodRow, GoodTimes, GoodClass, Span, SpanOn
<1> QED BY <1>1, <1>4, <1>5, <1>6 DEF w

WithWritten(c, days, leave) == days \cup {Written(c, d, leave) : d \in Unwritten(c, days)}

\* With every missing day written, what ran of the class runs of its days, and
\* nothing is left to the timetable.
LEMMA AllWritten ==
    ASSUME NEW c, GoodClass(c), c.lead = Person, NEW days, \A y \in days : GoodRow(y), NEW leave, NEW i \in Int
    PROVE  /\ \A y \in WithWritten(c, days, leave) : GoodRow(y)
           /\ Unwritten(c, WithWritten(c, days, leave)) = {}
           /\ Saying(WithWritten(c, days, leave), i) = Saying(days, i) \cup Leading(c, days, leave, i)
<1> DEFINE missing == Unwritten(c, days)
           new == {Written(c, d, leave) : d \in missing}
           after == days \cup new
           A == {z \in days : Covers(Span(z), i)}
           B == {e \in missing : Covers(SpanOn(c, e), i)}
           said == {DayAnswer(y) : y \in {z \in after : Covers(Span(z), i)}}
           old == {DayAnswer(y) : y \in A}
           runs == {ClassAnswer(c, d, leave) : d \in B}
<1>1. \A d \in missing : d \in Int  BY DEF Unwritten, RunsOn, GoodClass
<1>2. ASSUME NEW y \in after PROVE GoodRow(y)
  <2>1. CASE y \in days  BY <2>1
  <2>2. CASE y \in new
    <3>1. PICK d \in missing : y = Written(c, d, leave)  BY <2>2
    <3> QED BY <1>1, <3>1, WrittenSays
  <2> QED BY <2>1, <2>2
<1>3. ASSUME NEW d \in RunsOn(c) PROVE Settled(c, d, after)
  <2>1. CASE d \in missing
    <3>1. Written(c, d, leave) \in after  BY <2>1
    <3>2. Written(c, d, leave).class = c.id /\ Written(c, d, leave).date = d  BY <1>1, <2>1, WrittenSays
    <3> HIDE DEF after
    <3> QED BY <3>1, <3>2 DEF Settled
  <2>2. CASE d \notin missing
    <3>1. Settled(c, d, days)  BY <2>2 DEF Unwritten
    <3> QED BY <3>1 DEF Settled
  <2> QED BY <2>1, <2>2
<1>4. Unwritten(c, after) = {}  BY <1>3 DEF Unwritten
<1>5. ASSUME NEW f \in said PROVE f \in old \cup runs
  <2>1. PICK y \in after : f = DayAnswer(y) /\ Covers(Span(y), i)  OBVIOUS
  <2>2. CASE y \in days  BY <2>1, <2>2
  <2>3. CASE y \in new
    <3>1. PICK d \in missing : y = Written(c, d, leave)  BY <2>3
    <3>2. d \in B /\ f = ClassAnswer(c, d, leave)  BY <1>1, <2>1, <3>1, WrittenSays
    <3> QED BY <3>2
  <2> QED BY <2>2, <2>3
<1>6. ASSUME NEW f \in old PROVE f \in said  OBVIOUS
<1>7. ASSUME NEW f \in runs PROVE f \in said
  <2>1. PICK d \in B : f = ClassAnswer(c, d, leave)  OBVIOUS
  <2>2. d \in missing /\ Covers(SpanOn(c, d), i)  OBVIOUS
  <2> DEFINE w == Written(c, d, leave)
  <2>3. w \in after  BY <2>2
  <2>4. DayAnswer(w) = f /\ Covers(Span(w), i)  BY <1>1, <2>1, <2>2, WrittenSays
  <2> HIDE DEF w, after
  <2> QED BY <2>3, <2>4
<1>8. said = old \cup runs
  <2> HIDE DEF said, old, runs
  <2> QED BY <1>5, <1>6, <1>7
<1>9. WithWritten(c, days, leave) = after  BY DEF WithWritten
<1>10. Saying(after, i) = said /\ Saying(days, i) = old /\ Leading(c, days, leave, i) = runs
  BY DEF Saying, Leading
<1> HIDE DEF after, said, old, runs
<1> QED BY <1>2, <1>4, <1>8, <1>9, <1>10

\* Where one thing runs, the answer is that of the days once all are written.
LEMMA NobodyMoves == CaseTyped => WritingADayMovesNobody
<1> SUFFICES ASSUME CaseTyped, case.kind = "person", RunningNow <= 1 PROVE WritingADayMovesNobody
  BY DEF WritingADayMovesNobody
<1> DEFINE c == case.class
           D == case.days
           L == case.leave
           i == case.instant
           missing == {d \in RunsOn(c) : ~Settled(c, d, D)}
           after == D \cup {Written(c, d, L) : d \in missing}
           A == {x \in D : Covers(Span(x), i)}
           B == {d \in missing : Covers(SpanOn(c, d), i)}
<1>1. /\ GoodClass(c) /\ c.lead = Person /\ c \in Class1 /\ i \in Int /\ IsFiniteSet(D)
      /\ \A y \in D : GoodRow(y)
  <2> DEFINE S == {[class |-> x.class, date |-> x.date, start |-> x.start, end |-> x.end,
                    state |-> s, lead |-> w[1], cover |-> w[2]] :
                      x \in {y \in DayRows : y.date \in {0, 1}},
                      s \in {"SCHEDULED", "ON_LEAVE", "PROXY_SUBSTITUTE", "LUNCH"},
                      w \in {<<Person, 0>>, <<Person, Other>>, <<Other, Person>>}}
  <2>1. case \in Cases("person")  BY DEF CaseTyped, Kinds
  <2>2. c \in Class1 /\ i \in Day..(2 * Day - 1) /\ D \in AtMostOne(S)  BY <2>1 DEF Cases
  <2>3. c \in Classes({1})  BY <2>2 DEF Class1
  <2>4. i \in Int  BY <2>2, DayIs
  <2>5. IsFiniteSet(D)
    <3>1. IsFiniteSet({}) /\ \A x \in S : IsFiniteSet({x})  BY FS_EmptySet, FS_Singleton
    <3> HIDE DEF S, D
    <3> QED BY <2>2, <3>1 DEF AtMostOne
  <2>6. \A y \in S : GoodRow(y)
    <3> SUFFICES ASSUME NEW y \in S PROVE GoodRow(y)  OBVIOUS
    <3>1. PICK x \in DayRows : y.date = x.date /\ y.start = x.start /\ y.end = x.end  OBVIOUS
    <3>2. GoodRow(x)  BY DayRowIs
    <3> QED BY <3>1, <3>2 DEF GoodRow, GoodTimes
  <2>7. D \subseteq S  BY <2>2, AtMostOneOf
  <2> HIDE DEF S, D, c, i
  <2> QED BY <2>2, <2>3, <2>4, <2>5, <2>6, <2>7, ClassIs
<1>2. Cardinality(A) + Cardinality(B) <= 1  BY DEF RunningNow
<1>3. WritingADayMovesNobody <=> Located(Person, D, {c}, L, i) = Located(Person, after, {c}, L, i)
  BY DEF WritingADayMovesNobody
<1> HIDE DEF c, D, L, i
<1>4. missing = Unwritten(c, D)  BY DEF Unwritten
<1>5. IsFiniteSet(A) /\ IsFiniteSet(B)
  <2>1. c.rule \subseteq Dates
    <3>1. c \in Classes({1})  BY <1>1 DEF Class1
    <3>2. PICK k \in {1}, r \in SUBSET Dates, w \in Wins, f \in Dates, l \in Dates :
            c = [id |-> k, rule |-> r, start |-> w[1], end |-> w[2], first |-> f, last |-> l, lead |-> Person]
      BY <3>1 DEF Classes
    <3> QED BY <3>2
  <2>2. IsFiniteSet(Dates)  BY CalendarAssumption, FS_Interval DEF Dates
  <2>3. A \subseteq D /\ B \subseteq Dates  BY <2>1 DEF RunsOn
  <2> HIDE DEF A, B
  <2> QED BY <1>1, <2>2, <2>3, FS_Subset
<1>6. B # {} => A = {}
  <2>1. Cardinality(A) \in Nat /\ Cardinality(B) \in Nat  BY <1>5, FS_CardinalityType
  <2>2. Cardinality(B) = 0 <=> B = {}  BY <1>5, FS_EmptySet
  <2>3. Cardinality(A) = 0 <=> A = {}  BY <1>5, FS_EmptySet
  <2> HIDE DEF A, B
  <2> QED BY <1>2, <2>1, <2>2, <2>3
<1> DEFINE old == Saying(D, i)
           said == Saying(after, i)
           runs == Leading(c, D, L, i)
           left == Leading(c, after, L, i)
           spoken == Spoken(D, i)
           spoken2 == Spoken(after, i)
<1>7. after = WithWritten(c, D, L)  BY <1>4 DEF WithWritten
<1>8. (B = {} => runs = {}) /\ (A = {} => old = {})
  BY <1>4 DEF Leading, Saying
<1> HIDE DEF missing, after, A, B
<1>9. (\A y \in after : GoodRow(y)) /\ Unwritten(c, after) = {} /\ said = old \cup runs
  BY <1>1, <1>7, AllWritten
<1>10. left = {}  BY <1>9 DEF Leading
<1>11. Located(Person, D, {c}, L, i) =
        IF spoken # {} THEN First(spoken) ELSE IF runs # {} THEN First(runs) ELSE Rest(L, i)
  <2>1. AnsweredBy(c, D, L, i)  BY <1>1, LocatedIs
  <2> QED BY <2>1 DEF AnsweredBy
<1>12. Located(Person, after, {c}, L, i) =
        IF spoken2 # {} THEN First(spoken2) ELSE IF left # {} THEN First(left) ELSE Rest(L, i)
  <2>1. AnsweredBy(c, after, L, i)  BY <1>1, <1>9, LocatedIs
  <2> QED BY <2>1 DEF AnsweredBy
<1>13. \A f \in runs : f.says # "nothing"
  BY DEF Leading, ClassAnswer
<1>14. spoken = {f \in old : f.says # "nothing"} /\ spoken2 = {f \in said : f.says # "nothing"}
  BY DEF Spoken
<1> HIDE DEF old, runs, said, left, spoken, spoken2
<1>15. CASE B = {}
  <2>1. spoken2 = spoken /\ runs = {}  BY <1>8, <1>9, <1>14, <1>15
  <2> QED BY <1>3, <1>10, <1>11, <1>12, <2>1
<1>16. CASE B # {}
  <2>1. spoken = {} /\ spoken2 = runs  BY <1>6, <1>8, <1>9, <1>13, <1>14, <1>16
  <2> QED BY <1>3, <1>10, <1>11, <1>12, <2>1
<1> QED BY <1>15, <1>16

\* Where somebody is does not turn on whether the nightly job has run: for every
\* rule, cycle and window of the class, every day and leave, and every instant.
THEOREM WritingADayMovesNobodyHolds == CalendarSpec => []WritingADayMovesNobody
<1>1. WindowsTyped /\ CaseTyped => WritingADayMovesNobody  BY NobodyMoves
<1> QED BY <1>1, CasesHold, PTL

-----------------------------------------------------------------------------
(* Pools.                                                                   *)

HoldIs(h) ==
    /\ h = [id |-> h.id, win |-> h.win, qty |-> h.qty]
    /\ h.qty \in Nat /\ h.win[1] \in Int /\ h.win[2] \in Int
    /\ 0 <= h.win[1] /\ h.win[1] < h.win[2] /\ h.win[2] <= Day

\* The holds of a case: finitely many, each with a span and an id of its own.
HoldsTyped ==
    /\ IsFiniteSet(holds)
    /\ \A h \in holds : HoldIs(h)
    /\ \A h, k \in holds : h.id = k.id => h = k

LEMMA HoldsInit == CalendarInit => HoldsTyped
BY FS_EmptySet DEF CalendarInit, Init, HoldsTyped

LEMMA HoldsStep == HoldsTyped /\ [CalendarNext]_allVars => HoldsTyped'
<1> SUFFICES ASSUME HoldsTyped, [CalendarNext]_allVars PROVE HoldsTyped'  OBVIOUS
<1>1. CASE UNCHANGED holds
  BY <1>1 DEF HoldsTyped, HoldIs
<1>2. CASE PickHolds
  <2>0. PICK n \in 0..MaxHolds : \E f \in [1..n -> HoldSpans \X Units1] :
          holds' = {[id |-> i, win |-> f[i][1], qty |-> f[i][2]] : i \in 1..n}
    BY <1>2 DEF PickHolds
  <2>1. PICK f \in [1..n -> HoldSpans \X Units1] :
          holds' = {[id |-> i, win |-> f[i][1], qty |-> f[i][2]] : i \in 1..n}
    BY <2>0
  <2> DEFINE hold(i) == [id |-> i, win |-> f[i][1], qty |-> f[i][2]]
             G == {s \in SUBSET (1..n) : IsFiniteSet({hold(i) : i \in s})}
  <2>2. IsFiniteSet(1..n)  BY FS_Interval
  <2>3. {} \in G
    <3>1. {hold(i) : i \in {}} = {}  OBVIOUS
    <3> HIDE DEF hold
    <3> QED BY <3>1, FS_EmptySet
  <2>4. ASSUME NEW s \in SUBSET (1..n), NEW x \in (1..n) \ s, s \in G PROVE s \cup {x} \in G
    <3> DEFINE S == {hold(i) : i \in s}
    <3>1. IsFiniteSet(S)  BY <2>4
    <3>2. {hold(i) : i \in s \cup {x}} = S \cup {hold(x)}  OBVIOUS
    <3> HIDE DEF hold, S
    <3>3. IsFiniteSet(S \cup {hold(x)})  BY ONLY <3>1, FS_AddElement
    <3>4. IsFiniteSet({hold(i) : i \in s \cup {x}})  BY <3>2, <3>3
    <3> QED BY <3>4
  <2>5. 1..n \in G
    <3> HIDE DEF G
    <3> QED BY <2>2, <2>3, <2>4, OneByOne
  <2>6. IsFiniteSet(holds')  BY <2>1, <2>5
  <2>7. ASSUME NEW i \in 1..n PROVE HoldIs(hold(i))
    <3>1. f[i] \in HoldSpans \X Units1  OBVIOUS
    <3>2. f[i][1] \in HoldSpans /\ f[i][2] \in Nat  BY <3>1 DEF Units1
    <3> DEFINE w == f[i][1]
    <3>3. w \in (0..Day) \X (0..Day) /\ w[1] < w[2]  BY <3>2 DEF HoldSpans
    <3> HIDE DEF w
    <3>4. w[1] \in Int /\ w[2] \in Int /\ 0 <= w[1] /\ w[2] <= Day  BY <3>3, DayIs
    <3>5. hold(i).win = w /\ hold(i).qty = f[i][2] /\ hold(i).id = i  BY DEF w
    <3> QED BY <3>2, <3>3, <3>4, <3>5 DEF HoldIs
  <2>8. (\A h \in holds : HoldIs(h))'
    <3> SUFFICES ASSUME NEW h \in holds' PROVE HoldIs(h)  OBVIOUS
    <3>1. PICK i \in 1..n : h = hold(i)  BY <2>1
    <3> QED BY <2>7, <3>1
  <2>9. (\A h, k \in holds : h.id = k.id => h = k)'
    <3> SUFFICES ASSUME NEW h \in holds', NEW k \in holds', h.id = k.id PROVE h = k  OBVIOUS
    <3>1. PICK i \in 1..n : h = hold(i)  BY <2>1
    <3>2. PICK j \in 1..n : k = hold(j)  BY <2>1
    <3>3. i = j  BY <3>1, <3>2
    <3> QED BY <3>1, <3>2, <3>3
  <2> QED BY <2>6, <2>8, <2>9 DEF HoldsTyped
<1>3. UNCHANGED holds \/ PickHolds
  BY DEF CalendarNext, Next, PickWindows, PickPadding, vars, allVars
<1> QED BY <1>1, <1>2, <1>3

LEMMA HoldsAre == HoldsTyped => Timed(holds) /\ \A i \in Int : TakenAt(i) = Units(RunAt(holds, i))
<1> SUFFICES ASSUME HoldsTyped PROVE Timed(holds) /\ \A i \in Int : TakenAt(i) = Units(RunAt(holds, i))
  OBVIOUS
<1>1. Timed(holds)  BY DEF HoldsTyped, HoldIs, Timed, Holds
<1>2. ASSUME NEW i \in Int PROVE TakenAt(i) = Units(RunAt(holds, i))
  <2>1. \A h \in holds : i \in Covered(h.win) <=> h.win[1] <= i /\ i < h.win[2]
    <3> SUFFICES ASSUME NEW h \in holds PROVE i \in Covered(h.win) <=> h.win[1] <= i /\ i < h.win[2]  OBVIOUS
    <3>1. h.win[1] \in Int /\ h.win[2] \in Int  BY DEF HoldsTyped, HoldIs
    <3> QED BY <3>1 DEF Covered
  <2>2. {h \in holds : i \in Covered(h.win)} = RunAt(holds, i)  BY <2>1 DEF RunAt
  <2> QED BY <2>2 DEF TakenAt
<1> QED BY <1>1, <1>2

\* A hold cut to a window.
LEMMA CutIs ==
    ASSUME NEW h, HoldIs(h), NEW w, w[1] \in Int, w[2] \in Int
    PROVE  CutTo([h EXCEPT !.win = Clip(h.win, w)], h, w)
<1> DEFINE a == h.id
           b == h.win
           c == h.qty
           k == [h EXCEPT !.win = Clip(b, w)]
<1>1. h = [id |-> a, win |-> b, qty |-> c] /\ c \in Nat /\ b[1] \in Int /\ b[2] \in Int  BY DEF HoldIs
<1> HIDE DEF a, b, c
<1>2. k = [id |-> a, win |-> Clip(b, w), qty |-> c]  BY <1>1
<1>3. h.id = a /\ h.win = b /\ h.qty = c  BY <1>1
<1>4. k.id = a /\ k.win = Clip(b, w) /\ k.qty = c  BY <1>2
<1> HIDE DEF k
<1>5. /\ k.win[1] \in Int /\ k.win[2] \in Int /\ w[1] <= k.win[1] /\ k.win[2] <= w[2]
      /\ \A i \in Int : (w[1] <= i /\ i < w[2]) =>
            ((k.win[1] <= i /\ i < k.win[2]) <=> (b[1] <= i /\ i < b[2]))
  <2> DEFINE d == k.win
  <2>1. d = Clip(b, w)  BY <1>4
  <2> HIDE DEF d
  <2>2. /\ d[1] \in Int /\ d[2] \in Int /\ w[1] <= d[1] /\ d[2] <= w[2]
        /\ \A i \in Int : (w[1] <= i /\ i < w[2]) => ((d[1] <= i /\ i < d[2]) <=> (b[1] <= i /\ i < b[2]))
    BY <1>1, <2>1, ClipIs
  <2> QED BY <2>2 DEF d
<1>6. CutTo(k, h, w)  BY <1>1, <1>3, <1>4, <1>5 DEF CutTo
<1> QED BY <1>6 DEF k, b

\* pool_peak: the most at any start is the most at any instant.
LEMMA PeakFound == HoldsTyped => PeakIsTheMost
<1> SUFFICES ASSUME HoldsTyped, NEW w \in HoldSpans
             PROVE  PoolPeak(holds, w) = Max({TakenAt(i) : i \in Covered(w)})
  BY DEF PeakIsTheMost
<1>1. w[1] \in Int /\ w[2] \in Int /\ w[1] < w[2]  BY DayIs DEF HoldSpans
<1>2. Timed(holds) /\ \A i \in Int : TakenAt(i) = Units(RunAt(holds, i))  BY HoldsAre
<1>3. Cuts(holds, w)
  <2>1. \A h \in holds : HoldIs(h)  BY DEF HoldsTyped
  <2>2. \A h \in holds : CutTo([h EXCEPT !.win = Clip(h.win, w)], h, w)  BY <1>1, <2>1, CutIs
  <2> QED BY <1>1, <1>2, <2>2 DEF Cuts, HoldsTyped
<1> DEFINE v == PoolPeak(holds, w)
           V == {TakenAt(i) : i \in Covered(w)}
<1>4. MostIn(v, holds, w)  BY <1>3, PeakIs
<1>5. \A i : i \in Covered(w) <=> (i \in Int /\ w[1] <= i /\ i < w[2])  BY <1>1 DEF Covered
<1> HIDE DEF v
<1>6. v \in Int /\ v \in V  BY <1>2, <1>4, <1>5 DEF MostIn
<1>7. \A n \in V : n \in Int /\ n <= v
  <2> SUFFICES ASSUME NEW i \in Covered(w) PROVE TakenAt(i) \in Int /\ TakenAt(i) <= v  OBVIOUS
  <2>1. i \in Int /\ w[1] <= i /\ i < w[2]  BY <1>5
  <2>2. Units(RunAt(holds, i)) \in Nat  BY <1>2, <2>1, LevelIs
  <2> QED BY <1>2, <1>4, <2>1, <2>2 DEF MostIn
<1>8. V \subseteq Int  BY <1>7
<1> HIDE DEF V
<1>9. Max(V) = v  BY <1>6, <1>7, <1>8, GreatestIs
<1> QED BY <1>9 DEF v, V

\* The holds of a case lie in one day.
LEMMA InstantsLie == ASSUME HoldsTyped, NEW i \in Instants(holds) PROVE i \in Int /\ 0 <= i /\ i <= Day
<1>1. PICK h \in holds : i = h.win[1] \/ i = h.win[2]  BY DEF Instants
<1>2. h.win[1] \in Int /\ h.win[2] \in Int /\ 0 <= h.win[1] /\ h.win[1] < h.win[2] /\ h.win[2] <= Day
  BY DEF HoldsTyped, HoldIs
<1> QED BY <1>1, <1>2, DayIs

\* pool_stretches: just the instants at or above the level, stretch by stretch.
LEMMA StretchesFound == HoldsTyped => StretchesAreMaximal
<1> SUFFICES ASSUME HoldsTyped, NEW n \in 1..(MaxHolds * MaxUnits)
             PROVE  LET found == PoolStretches(holds, n)
                    IN  /\ UNION {Covered(s) : s \in found} = {i \in Horizon : TakenAt(i) >= n}
                        /\ \A s, u \in found : s # u => s[2] < u[1] \/ u[2] < s[1]
  BY DEF StretchesAreMaximal
<1> DEFINE found == PoolStretches(holds, n)
           level == {i \in Horizon : TakenAt(i) >= n}
<1>1. n \in Int /\ n >= 1
  <2>1. MaxHolds * MaxUnits \in Int  BY BoundsAssumption
  <2> QED BY <2>1
<1>2. Timed(holds) /\ \A i \in Int : TakenAt(i) = Units(RunAt(holds, i))  BY HoldsAre
<1>3. AboveIn(found, holds, n)  BY <1>1, <1>2, StretchesAre
<1> HIDE DEF found
<1>4. ASSUME NEW s \in found
      PROVE  /\ s[1] \in Int /\ s[2] \in Int /\ 0 <= s[1] /\ s[2] <= Day
             /\ \A i : i \in Covered(s) <=> (i \in Int /\ s[1] <= i /\ i < s[2])
  <2>1. s[1] \in Instants(holds) /\ s[2] \in Instants(holds)  BY <1>3 DEF AboveIn
  <2>2. s[1] \in Int /\ s[2] \in Int /\ 0 <= s[1] /\ s[2] <= Day  BY <2>1, InstantsLie
  <2> QED BY <2>2 DEF Covered
<1>5. Horizon \subseteq Int /\ \A i \in Int : 0 <= i /\ i <= Day => i \in Horizon
  <2>1. MaxDate \in Nat /\ Day \in Nat /\ MaxDate + 1 \in Int  BY BoundsAssumption, DayIs
  <2>2. Day * (MaxDate + 1) \in Int /\ Day * ((MaxDate + 1) + 1) = Day * (MaxDate + 1) + Day  BY <2>1, NextDate
  <2>3. Day * (MaxDate + 1) >= 0  BY <2>1
  <2>4. (MaxDate + 1) + 1 = MaxDate + 2  BY <2>1
  <2>5. Day <= Day * (MaxDate + 2) /\ Day * (MaxDate + 2) \in Int  BY <2>1, <2>2, <2>3, <2>4
  <2> QED BY <2>1, <2>5 DEF Horizon
<1>6. ASSUME NEW i, NEW s \in found, i \in Covered(s) PROVE i \in level
  <2>1. i \in Int /\ s[1] <= i /\ i < s[2]  BY <1>4, <1>6
  <2>2. 0 <= i /\ i <= Day  BY <1>4, <2>1, DayIs
  <2>3. Units(RunAt(holds, i)) >= n  BY <1>3, <2>1 DEF AboveIn
  <2> QED BY <1>2, <1>5, <2>1, <2>2, <2>3
<1>7. ASSUME NEW i \in level PROVE \E s \in found : i \in Covered(s)
  <2>1. i \in Int /\ TakenAt(i) >= n  BY <1>5
  <2>2. Units(RunAt(holds, i)) >= n  BY <1>2, <2>1
  <2>3. PICK s \in found : s[1] <= i /\ i < s[2]  BY <1>3, <2>1, <2>2 DEF AboveIn
  <2> QED BY <1>4, <2>1, <2>3
<1>8. UNION {Covered(s) : s \in found} = level
  <2> HIDE DEF level
  <2> QED BY <1>6, <1>7
<1>9. \A s, u \in found : s # u => s[2] < u[1] \/ u[2] < s[1]  BY <1>3 DEF AboveIn
<1> QED BY <1>8, <1>9 DEF found

\* The sums over a pool, by sweep, count what is held instant by instant: for
\* any holds, the most in any window, and the stretches at or above any level.
THEOREM PoolsAreCountedHolds == CalendarSpec => []PoolsAreCounted
<1>1. HoldsTyped => PoolsAreCounted  BY PeakFound, StretchesFound DEF PoolsAreCounted
<1> QED BY <1>1, HoldsInit, HoldsStep, PTL DEF CalendarSpec
=============================================================================
