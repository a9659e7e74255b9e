--------------------------- MODULE WebhooksProofs ---------------------------
(***************************************************************************)
(* Proofs about Webhooks, for any number of workers, rows and markers and  *)
(* any lease, batch and limit: what is counted, who sends, when a          *)
(* subscription is paused, and, where transactions end within the grace,   *)
(* what is fanned out and in which order it arrives.                       *)
(***************************************************************************)
EXTENDS Webhooks, FiniteSetTheorems, WellFoundedInduction, TLAPS

Marker == [row : Rows, kind : Kinds, at : Nat, state : {"open", "committed", "gone"}]
Subscription == [active : BOOLEAN, paused : BOOLEAN, failures : Nat, cursor : Nat]
Delivery == [status : {"pending", "succeeded", "failed"}, attempts : Nat, due : Nat]
Claimed == [id : Ids, due : Nat]
Pass == [at : {"idle", "claim", "send", "sending", "answered", "record"}, lease : Nat,
         todo : SUBSET Claimed, id : Nat, nth : Nat, since : Nat, ok : BOOLEAN,
         attempts : Nat, failures : Nat]
Request == [op : {"redeliver"}, id : Ids, row : Delivery, at : Nat]
           \cup [op : {"resume", "switch"}, row : Subscription]
End == [id : Ids, how : {"succeeded", "failed"}]

TypeOK ==
    /\ now \in Nat
    /\ markers \in Seq(Marker) /\ Len(markers) <= MaxMarkers
    /\ sub \in Subscription
    /\ born \in [yet : BOOLEAN, first : Nat]
    /\ Made \subseteq Ids /\ deliveries \in [Made -> Delivery]
    /\ pass \in [Workers -> Pass]
    /\ admin \in {NoAdmin} \cup Request
    /\ wire \subseteq Ids \X Nat /\ sent \in [Ids -> Nat] /\ arrived \in Seq(Ids)
    /\ recorded \in [Ids -> Nat] /\ ended \in Seq(End)
    /\ spent \in [redeliveries : Nat, switches : Nat, crashes : Nat]

InFlight(w) == pass[w].at \in {"sending", "answered", "record"}

\* What a pass has claimed and not dealt with.
Holds(w, i) == (\E d \in pass[w].todo : d.id = i) \/ (InFlight(w) /\ pass[w].id = i)

\* Each is claimed once, and what is in flight is no longer to do.
HoldsOnce(w) ==
    /\ pass[w].at \in {"idle", "claim"} => pass[w].todo = {}
    /\ \A d, e \in pass[w].todo : d.id = e.id => d = e
    /\ InFlight(w) => \A d \in pass[w].todo : d.id # pass[w].id

\* Whatever is claimed, on the wire, received, counted or asked for again is a
\* delivery; and an administrator's request was paid for.
Founded ==
    /\ \A w \in Workers : HoldsOnce(w)
    /\ \A w \in Workers, i \in Nat : Holds(w, i) => i \in Made
    /\ \A r \in wire : r[1] \in Made
    /\ \A n \in DOMAIN arrived : arrived[n] \in Made
    /\ \A i \in Ids : i \notin Made => recorded[i] = 0
    /\ admin.op = "redeliver" => admin.id \in Made /\ spent.redeliveries > 0
    /\ admin.op \in {"resume", "switch"} => spent.switches > 0

\* Before the subscription is created nothing is made of a marker.
Unborn == ~born.yet => ~sub.active /\ Made = {} /\ ended = <<>> /\ admin = NoAdmin

Basics == TypeOK /\ Founded /\ Unborn

Senders(i) == {w \in Workers : InFlight(w) /\ pass[w].id = i}

\* Every row of webhook_attempts, and every attempt in flight, has a request
\* of its own.
EachHasItsRequest == \A i \in Made : recorded[i] + Cardinality(Senders(i)) <= sent[i]

Counted == \A i \in Made : spent.redeliveries = 0 => deliveries[i].attempts = recorded[i]

\* A pass holds a delivery that carries its lease, or its lease is over; no
\* two passes hold one under the same lease; and an attempt ends in time.
Leased ==
    spent.redeliveries = 0 =>
        /\ \A w \in Workers, i \in Made :
             Holds(w, i) => \/ deliveries[i].status = "pending" /\ deliveries[i].due = pass[w].lease
                            \/ pass[w].lease <= now
        /\ \A v, w \in Workers, i \in Made :
             v # w /\ Holds(v, i) /\ Holds(w, i) => pass[v].lease # pass[w].lease

\* An attempt starts early enough to be given up before its lease is over.
EndsInTime ==
    \A w \in Workers : pass[w].at = "sending" =>
        now <= pass[w].since + Deadline /\ pass[w].since + Margin + Deadline <= pass[w].lease

\* The last n deliveries that ended all failed.
LastFailed(n) == \A m \in DOMAIN ended : m > Len(ended) - n => ended[m].how = "failed"

\* The count has missed none of the last failures, and pauses.
Tallied ==
    /\ spent.switches = 0 => \A n \in 0..Len(ended) : LastFailed(n) => n <= sub.failures
    /\ spent.switches = 0 => (sub.failures >= PauseAfter => sub.paused)

\* Ids are handed out in the order of time, and no transaction takes longer
\* than CommitWithin.
Timely ==
    /\ \A i \in DOMAIN markers : markers[i].at <= now
    /\ \A i \in DOMAIN markers : markers[i].state = "open" => now <= markers[i].at + CommitWithin
    /\ \A i, j \in DOMAIN markers : i <= j => markers[i].at <= markers[j].at

\* The cursor has passed no marker whose transaction is still open.
Passed ==
    /\ born.first <= sub.cursor /\ sub.cursor <= Len(markers)
    /\ \A i \in Made : born.first < i /\ i <= sub.cursor
    /\ \A i \in DOMAIN markers : markers[i].state = "open" /\ born.first < i => sub.cursor < i

Received(i) == \E n \in DOMAIN arrived : arrived[n] = i
Lost(i) == \E m \in DOMAIN ended : ended[m] = [id |-> i, how |-> "failed"]

\* What is no longer pending was received or has failed; a success was
\* received, and an attempt under way was received or is on the wire.
Truthful ==
    /\ \A i \in Made : deliveries[i].status # "pending" => Received(i) \/ Lost(i)
    /\ \A w \in Workers :
         /\ pass[w].at = "sending" => Received(pass[w].id) \/ <<pass[w].id, pass[w].nth>> \in wire
         /\ pass[w].at \in {"answered", "record"} /\ pass[w].ok => Received(pass[w].id)

\* A committed change of the same row that the subscription wants, before i.
Elder(j, i) ==
    /\ j \in Committed /\ born.first < j /\ j < i
    /\ markers[j].row = markers[i].row /\ markers[j].kind \in Wanted

\* Nothing is claimed, and nothing is on the wire, before its elders are done with.
Orderly ==
    /\ \A w \in Workers, i \in Made, j \in Nat : Holds(w, i) /\ Elder(j, i) => Received(j) \/ Lost(j)
    /\ \A r \in wire, j \in Nat : Elder(j, r[1]) => Received(j) \/ Lost(j)

Inv ==
    /\ Basics /\ EachHasItsRequest /\ Counted /\ Leased /\ EndsInTime /\ Tallied

\* Where a marker is trusted only after the longest transaction is over.
FeedInv == Inv /\ Timely /\ Passed /\ NothingSkipped /\ Truthful /\ Orderly /\ EldersFirst
-----------------------------------------------------------------------------
(* What is well typed and founded stays so. *)

\* A set of naturals with a bound has a largest element.
LEMMA LargestExists ==
    ASSUME NEW N \in Nat, NEW S \in SUBSET (0..N), S # {}
    PROVE  \E m \in S : \A j \in S : j <= m
<1> DEFINE T == {n \in Nat : N - n \in S}
<1> DEFINE R == {ss \in Nat \X Nat : ss[1] < ss[2]}
<1>1. IsWellFoundedOn(R, Nat)
    BY NatLessThanWellFounded DEF OpToRel
<1>2. ASSUME NEW j \in S PROVE N - j \in T /\ j \in Nat
    BY DEF T
<1>3. T \subseteq Nat /\ T # {}
    BY <1>2
<1> HIDE DEF T, R
<1>4. PICK x \in T : \A y \in T : <<y, x>> \notin R
    BY <1>1, <1>3, WFMin
<1>5. x \in Nat /\ N - x \in S
    BY DEF T
<1>6. ASSUME NEW j \in S PROVE j <= N - x
  <2>1. N - j \in T /\ j \in Nat /\ N - j \in Nat
      BY <1>2 DEF T
  <2>2. ~(N - j < x)
      BY <1>4, <1>5, <2>1 DEF R
  <2> QED
      BY <1>5, <2>1, <2>2
<1> QED
    BY <1>5, <1>6

LEMMA Workings ==
    ASSUME TypeOK, NEW w \in Workers
    PROVE  /\ pass[w].at \in {"idle", "claim", "send", "sending", "answered", "record"}
           /\ pass[w].lease \in Nat /\ pass[w].todo \subseteq Claimed /\ pass[w].id \in Nat
           /\ pass[w].nth \in Nat /\ pass[w].since \in Nat /\ pass[w].ok \in BOOLEAN
           /\ pass[w].attempts \in Nat /\ pass[w].failures \in Nat
BY DEF TypeOK, Pass

LEMMA IdleIsAPass == Idle \in Pass
BY DEF Idle, Pass

LEMMA InitBasics == Init => Basics
<1> SUFFICES ASSUME Init PROVE Basics
    OBVIOUS
<1>1. Made = {} /\ deliveries \in [{} -> Delivery]
    BY DEF Init, Made
<1>2. TypeOK
    BY <1>1, IdleIsAPass, LimitsAssumption DEF Init, TypeOK, Subscription
<1>3. Founded
    BY DEF Init, Founded, HoldsOnce, Holds, InFlight, Idle, NoAdmin
<1>4. Unborn
    BY <1>1 DEF Init, Unborn
<1> QED
    BY <1>2, <1>3, <1>4 DEF Basics

\* A step of one worker that changes no delivery and nothing on the wire, and
\* after which the worker holds nothing it did not hold.
LEMMA WorkerStep ==
    ASSUME Basics, NEW w \in Workers, NEW p \in Pass, pass' = [pass EXCEPT ![w] = p],
           UNCHANGED <<now, markers, sub, born, deliveries, admin, net, log>>,
           spent' \in [redeliveries : Nat, switches : Nat, crashes : Nat],
           spent'.redeliveries = spent.redeliveries, spent'.switches = spent.switches,
           p.at \in {"idle", "claim"} => p.todo = {},
           p.todo \subseteq pass[w].todo,
           p.at \in {"sending", "answered", "record"} =>
               InFlight(w) /\ p.id = pass[w].id
    PROVE  Basics'
<1>1. TypeOK'
    BY DEF Basics, TypeOK, net, log, Made
<1>2. ASSUME NEW v \in Workers PROVE HoldsOnce(v)'
    BY DEF Basics, Founded, HoldsOnce, InFlight, TypeOK
<1>3. ASSUME NEW v \in Workers, NEW i \in Nat, Holds(v, i)' PROVE Holds(v, i)
    BY <1>3 DEF Basics, Holds, InFlight, TypeOK
<1>4. Founded'
    BY <1>2, <1>3 DEF Basics, Founded, net, log, Made
<1>5. Unborn'
    BY DEF Basics, Unborn, log, Made
<1> QED
    BY <1>1, <1>4, <1>5 DEF Basics

LEMMA PassOverBasics == ASSUME Basics, NEW w \in Workers, PassOver(w) PROVE Basics'
<1>1. TypeOK
    BY DEF Basics
<1> QED
    BY <1>1, IdleIsAPass, WorkerStep DEF PassOver, Idle, TypeOK

LEMMA CrashBasics == ASSUME Basics, NEW w \in Workers, Crash(w) PROVE Basics'
<1>1. TypeOK
    BY DEF Basics
<1>2. /\ spent' \in [redeliveries : Nat, switches : Nat, crashes : Nat]
      /\ spent'.redeliveries = spent.redeliveries /\ spent'.switches = spent.switches
  <2>1. spent \in [redeliveries : Nat, switches : Nat, crashes : Nat]
      BY <1>1 DEF TypeOK
  <2>2. spent.crashes + 1 \in Nat /\ spent' = [spent EXCEPT !.crashes = spent.crashes + 1]
      BY <2>1 DEF Crash
  <2> QED
      BY <2>1, <2>2
<1>3. UNCHANGED <<now, markers, sub, born, deliveries, admin, net, log>> /\ pass' = [pass EXCEPT ![w] = Idle]
    BY DEF Crash
<1> QED
    BY <1>2, <1>3, IdleIsAPass, WorkerStep DEF Idle

LEMMA AnswerBasics == ASSUME Basics, NEW w \in Workers, NEW ok \in BOOLEAN, Answer(w, ok) PROVE Basics'
<1> DEFINE p == [pass[w] EXCEPT !.at = "answered", !.ok = ok]
<1>1. TypeOK
    BY DEF Basics
<1>2. p \in Pass /\ p.at = "answered" /\ p.todo = pass[w].todo /\ p.id = pass[w].id
    BY <1>1 DEF TypeOK, Pass
<1>3. pass' = [pass EXCEPT ![w] = p] /\ InFlight(w)
    BY DEF Answer, InFlight
<1> QED
    BY <1>1, <1>2, <1>3, WorkerStep DEF Answer, TypeOK

LEMMA RecordReadBasics == ASSUME Basics, NEW w \in Workers, RecordRead(w) PROVE Basics'
<1> DEFINE p == [pass[w] EXCEPT !.at = "record", !.attempts = deliveries[pass[w].id].attempts,
                                !.failures = sub.failures, !.since = now]
<1>1. TypeOK
    BY DEF Basics
<1>2. InFlight(w) /\ pass[w].id \in Made
    BY <1>1, Workings DEF RecordRead, InFlight, Basics, Founded, Holds
<1>3. deliveries[pass[w].id].attempts \in Nat /\ sub.failures \in Nat /\ now \in Nat
    BY <1>1, <1>2 DEF TypeOK, Delivery, Subscription
<1>4. p \in Pass /\ p.at = "record" /\ p.todo = pass[w].todo /\ p.id = pass[w].id
    BY <1>1, <1>3 DEF TypeOK, Pass
<1>5. pass' = [pass EXCEPT ![w] = p]
    BY DEF RecordRead
<1> QED
    BY <1>1, <1>2, <1>4, <1>5, WorkerStep DEF RecordRead, TypeOK

\* What GoOn leaves of a pass.
Onward(w) == [Idle EXCEPT !.at = "send", !.lease = pass[w].lease, !.todo = pass[w].todo]

LEMMA OnwardIsAPass ==
    ASSUME TypeOK, NEW w \in Workers
    PROVE  /\ Onward(w) \in Pass /\ Onward(w).at = "send" /\ Onward(w).lease = pass[w].lease
           /\ Onward(w).todo = pass[w].todo
           /\ GoOn(w) => pass' = [pass EXCEPT ![w] = Onward(w)]
<1>1. pass[w].lease \in Nat /\ pass[w].todo \subseteq Claimed
    BY Workings
<1> QED
    BY <1>1 DEF Onward, Idle, Pass, GoOn

LEMMA RecordDroppedBasics == ASSUME Basics, NEW w \in Workers, RecordDropped(w) PROVE Basics'
<1>1. TypeOK
    BY DEF Basics
<1>2. pass' = [pass EXCEPT ![w] = Onward(w)]
    BY <1>1, OnwardIsAPass DEF RecordDropped
<1> QED
    BY <1>1, <1>2, OnwardIsAPass, WorkerStep DEF RecordDropped, TypeOK
\* The cursor goes to the last of what is ready.
LEMMA CursorMoves ==
    ASSUME TypeOK, NEW w \in Workers, FanOut(w), Live, Ready # {}
    PROVE  \E m \in Ready : sub' = [sub EXCEPT !.cursor = m] /\ \A j \in Ready : j <= m
<1>1. Ready \in SUBSET (0..Len(markers)) /\ Len(markers) \in Nat
    BY DEF TypeOK, Ready, Ahead, Committed
<1>2. \E m \in Ready : \A j \in Ready : j <= m
    BY <1>1, LargestExists
<1> DEFINE m == CHOOSE i \in Ready : \A j \in Ready : j <= i
<1>3. m \in Ready /\ \A j \in Ready : j <= m
    BY <1>2
<1>4. sub' = [sub EXCEPT !.cursor = m]
    BY DEF FanOut
<1> QED
    BY <1>3, <1>4

LEMMA ReadyAreIds == ASSUME TypeOK PROVE Ready \subseteq DOMAIN markers /\ Ready \subseteq Ids /\ Ids \subseteq Nat
<1>1. DOMAIN markers = 1..Len(markers) /\ Len(markers) \in Nat /\ Len(markers) <= MaxMarkers
    BY DEF TypeOK
<1>2. Ready \subseteq DOMAIN markers
    BY DEF Ready, Ahead, Committed
<1>3. MaxMarkers \in Nat
    BY LimitsAssumption
<1> QED
    BY <1>1, <1>2, <1>3 DEF Ids

\* What fanning out does to the deliveries.
LEMMA FanOutMakes ==
    ASSUME TypeOK, NEW w \in Workers, FanOut(w), Live, Ready # {}
    PROVE  /\ Made' = Made \cup {j \in Ready : markers[j].kind \in Wanted}
           /\ \A i \in Made : deliveries'[i] = deliveries[i]
           /\ \A i \in Made' : i \notin Made =>
                deliveries'[i] = [status |-> "pending", attempts |-> 0, due |-> now]
           /\ Made' \subseteq Ids /\ deliveries' \in [Made' -> Delivery]
<1> DEFINE made == Made \cup {j \in Ready : markers[j].kind \in Wanted}
<1> DEFINE new == [status |-> "pending", attempts |-> 0, due |-> now]
<1>1. deliveries' = [i \in made |-> IF i \in Made THEN deliveries[i] ELSE new]
    BY DEF FanOut
<1>2. Made' = made
    BY <1>1 DEF Made
<1>3. new \in Delivery /\ Made \subseteq Ids /\ deliveries \in [Made -> Delivery]
    BY DEF TypeOK, Delivery
<1>4. made \subseteq Ids
    BY <1>3, ReadyAreIds
<1> HIDE DEF new
<1>5. deliveries' \in [made -> Delivery]
    BY <1>1, <1>3
<1>6. \A i \in made : deliveries'[i] = IF i \in Made THEN deliveries[i] ELSE new
    BY <1>1
<1> QED
    BY <1>2, <1>3, <1>4, <1>5, <1>6 DEF new

LEMMA FanOutBasics == ASSUME Basics, NEW w \in Workers, FanOut(w) PROVE Basics'
<1> DEFINE p == [pass[w] EXCEPT !.at = "claim"]
<1>1. TypeOK
    BY DEF Basics
<1>2. p \in Pass /\ p.at = "claim" /\ p.todo = {} /\ p.todo \subseteq pass[w].todo
  <2>1. pass[w] \in Pass
      BY <1>1 DEF TypeOK
  <2>2. pass[w].todo = {}
      BY DEF FanOut, Basics, Founded, HoldsOnce
  <2>3. p \in Pass /\ p.at = "claim" /\ p.todo = pass[w].todo
      BY <2>1 DEF Pass
  <2> QED
      BY <2>2, <2>3
<1>3. pass' = [pass EXCEPT ![w] = p]
    BY <1>1 DEF FanOut, TypeOK
<1>4. CASE ~(Live /\ Ready # {})
  <2>1. UNCHANGED <<now, markers, sub, born, deliveries, admin, net, log, spent>>
      BY <1>4 DEF FanOut
  <2> QED
      BY <1>1, <1>2, <1>3, <2>1, WorkerStep DEF TypeOK
<1>5. CASE Live /\ Ready # {}
  <2>1. UNCHANGED <<now, markers, born, admin, net, log, spent>>
      BY DEF FanOut
  <2>2. Made \subseteq Made' /\ Made' \subseteq Ids /\ deliveries' \in [Made' -> Delivery]
      BY <1>1, <1>5, FanOutMakes
  <2>3. sub' \in Subscription /\ sub'.active = sub.active
    <3>1. PICK m \in Ready : sub' = [sub EXCEPT !.cursor = m]
        BY <1>1, <1>5, CursorMoves
    <3>2. m \in Nat
        BY <1>1, ReadyAreIds
    <3> QED
        BY <1>1, <3>1, <3>2 DEF TypeOK, Subscription
  <2>4. pass' \in [Workers -> Pass]
      BY <1>1, <1>2, <1>3 DEF TypeOK
  <2>5. TypeOK'
      BY <1>1, <2>1, <2>2, <2>3, <2>4 DEF TypeOK, net, log
  <2>6. ASSUME NEW v \in Workers PROVE HoldsOnce(v)'
      BY <1>1, <1>2, <1>3 DEF Basics, Founded, HoldsOnce, InFlight, TypeOK
  <2>7. ASSUME NEW v \in Workers, NEW i \in Nat, Holds(v, i)' PROVE i \in Made'
      BY <1>1, <1>2, <1>3, <2>2, <2>7 DEF Basics, Founded, Holds, InFlight, TypeOK
  <2>8. Founded'
      BY <2>1, <2>2, <2>6, <2>7 DEF Basics, Founded, net, log
  <2>9. Unborn'
      BY <1>5, <2>1, <2>3 DEF Basics, Unborn, Live
  <2> QED
      BY <2>5, <2>8, <2>9 DEF Basics
<1> QED
    BY <1>4, <1>5

\* What a pass takes when it claims.
Taken == IF Live THEN {i \in Due : Cardinality({j \in Due : Sooner(j, i)}) < SendBatch} ELSE {}

\* What claiming does: what is taken was pending, due and not held up, and now
\* carries the lease of the pass, which holds just that.
LEMMA ClaimTakes ==
    ASSUME TypeOK, NEW w \in Workers, Claim(w)
    PROVE  /\ Taken \subseteq Due /\ Taken \subseteq Made /\ Made' = Made
           /\ deliveries' \in [Made -> Delivery]
           /\ \A i \in Taken : /\ deliveries[i].status = "pending" /\ deliveries[i].due <= now /\ ~HeldUp(i)
                               /\ deliveries'[i].status = "pending" /\ deliveries'[i].due = now + Lease
           /\ \A i \in Made : i \notin Taken => deliveries'[i] = deliveries[i]
           /\ \A i \in Made : /\ deliveries'[i].attempts = deliveries[i].attempts
                              /\ deliveries'[i].status = deliveries[i].status
           /\ pass' \in [Workers -> Pass]
           /\ \A v \in Workers : v # w => pass'[v] = pass[v]
           /\ pass'[w].at \in {"idle", "send"}
           /\ pass'[w].todo = {[id |-> i, due |-> deliveries[i].due] : i \in Taken}
           /\ Taken # {} => pass'[w].lease = now + Lease
<1>1. Taken \subseteq Due /\ Due \subseteq Made /\ Made \subseteq Ids /\ deliveries \in [Made -> Delivery]
    BY DEF Taken, Due, TypeOK
<1>2. deliveries' = [i \in Made |-> IF i \in Taken THEN [deliveries[i] EXCEPT !.due = now + Lease]
                                   ELSE deliveries[i]]
    BY DEF Claim, Taken
<1> DEFINE todo == {[id |-> i, due |-> deliveries[i].due] : i \in Taken}
<1> DEFINE p == IF Taken = {} THEN Idle
                ELSE [Idle EXCEPT !.at = "send", !.lease = now + Lease, !.todo = todo]
<1>3. pass' = [pass EXCEPT ![w] = p]
    BY DEF Claim, Taken
<1>4. now + Lease \in Nat
    BY TimesAssumption DEF TypeOK
<1>5. \A i \in Made : deliveries[i].status \in {"pending", "succeeded", "failed"}
                      /\ deliveries[i].attempts \in Nat /\ deliveries[i].due \in Nat
    BY <1>1 DEF Delivery
<1>6. todo \subseteq Claimed /\ (Taken = {} => todo = {})
    BY <1>1, <1>5 DEF Claimed
<1>7. /\ p \in Pass /\ p.at \in {"idle", "send"} /\ p.todo = todo
      /\ Taken # {} => p.lease = now + Lease
    BY <1>4, <1>6, IdleIsAPass DEF Idle, Pass
<1>8. \A i \in Made : [deliveries[i] EXCEPT !.due = now + Lease] \in Delivery
    BY <1>1, <1>4 DEF Delivery
<1>9. \A i \in Made : [deliveries[i] EXCEPT !.due = now + Lease].due = now + Lease
                      /\ [deliveries[i] EXCEPT !.due = now + Lease].status = deliveries[i].status
                      /\ [deliveries[i] EXCEPT !.due = now + Lease].attempts = deliveries[i].attempts
    BY <1>1 DEF Delivery
<1>10. deliveries' \in [Made -> Delivery] /\ Made' = Made
    BY <1>1, <1>2, <1>8 DEF Made
<1>11. \A i \in Taken : deliveries[i].status = "pending" /\ deliveries[i].due <= now /\ ~HeldUp(i)
    BY <1>1 DEF Due
<1>12. \A i \in Taken : deliveries'[i].status = "pending" /\ deliveries'[i].due = now + Lease
    BY <1>1, <1>2, <1>9, <1>11
<1>13. \A i \in Made : i \notin Taken => deliveries'[i] = deliveries[i]
    BY <1>2
<1>14. \A i \in Made : /\ deliveries'[i].attempts = deliveries[i].attempts
                       /\ deliveries'[i].status = deliveries[i].status
    BY <1>2, <1>9
<1> HIDE DEF p
<1>15. pass \in [Workers -> Pass]
    BY DEF TypeOK
<1>16. pass' \in [Workers -> Pass] /\ pass'[w] = p /\ \A v \in Workers : v # w => pass'[v] = pass[v]
    BY <1>3, <1>7, <1>15
<1> QED
    BY <1>1, <1>7, <1>10, <1>11, <1>12, <1>13, <1>14, <1>16

\* Nobody else holds anything else after a claim.
LEMMA ClaimHolds ==
    ASSUME TypeOK, NEW w \in Workers, Claim(w), NEW v \in Workers, NEW i, Holds(v, i)'
    PROVE  \/ v # w /\ Holds(v, i) /\ pass'[v] = pass[v]
           \/ v = w /\ i \in Taken /\ pass'[w].lease = now + Lease
<1>1. CASE v # w
    BY <1>1, ClaimTakes DEF Holds, InFlight
<1>2. CASE v = w
  <2>1. PICK d \in pass'[w].todo : d.id = i
      BY <1>2, ClaimTakes DEF Holds, InFlight
  <2>2. i \in Taken
      BY <2>1, ClaimTakes
  <2> QED
      BY <1>2, <2>2, ClaimTakes
<1> QED
    BY <1>1, <1>2

LEMMA ClaimBasics == ASSUME Basics, NEW w \in Workers, Claim(w) PROVE Basics'
<1>1. TypeOK
    BY DEF Basics
<1>2. UNCHANGED <<now, markers, sub, born, admin, net, log, spent>>
    BY DEF Claim
<1>3. TypeOK'
    BY <1>1, <1>2, ClaimTakes DEF TypeOK, net, log
<1>4. ASSUME NEW v \in Workers PROVE HoldsOnce(v)'
  <2>1. CASE v # w
      BY <1>1, <2>1, ClaimTakes DEF Basics, Founded, HoldsOnce, InFlight
  <2>2. CASE v = w
    <3>1. pass'[w].at = "idle" => Taken = {}
      BY <1>1 DEF Claim, Taken, Idle, TypeOK
    <3>2. pass'[w].todo = {[id |-> i, due |-> deliveries[i].due] : i \in Taken}
          /\ pass'[w].at \in {"idle", "send"}
      BY <1>1, ClaimTakes
    <3>3. \A d, e \in pass'[w].todo : d.id = e.id => d = e
      BY <3>2
    <3> QED
      BY <2>2, <3>1, <3>2, <3>3 DEF HoldsOnce, InFlight
  <2> QED
      BY <2>1, <2>2
<1>5. ASSUME NEW v \in Workers, NEW i \in Nat, Holds(v, i)' PROVE i \in Made'
    BY <1>1, <1>5, ClaimHolds, ClaimTakes DEF Basics, Founded
<1>6. Founded'
    BY <1>1, <1>2, <1>4, <1>5, ClaimTakes DEF Basics, Founded, net, log
<1>7. Unborn'
    BY <1>1, <1>2, ClaimTakes DEF Basics, Unborn, log
<1> QED
    BY <1>3, <1>6, <1>7 DEF Basics
\* What sending does: one more request on the wire, for one of what was claimed.
LEMMA SendDoes ==
    ASSUME TypeOK, NEW w \in Workers, Send(w)
    PROVE  \E d \in pass[w].todo :
             /\ d.id \in Ids /\ d.id \in Nat
             /\ pass' \in [Workers -> Pass]
             /\ \A v \in Workers : v # w => pass'[v] = pass[v]
             /\ pass'[w].at = "sending" /\ pass'[w].id = d.id /\ pass'[w].todo = pass[w].todo \ {d}
             /\ pass'[w].lease = pass[w].lease /\ pass'[w].nth = sent[d.id] + 1 /\ pass'[w].since = now
             /\ sent' \in [Ids -> Nat] /\ sent'[d.id] = sent[d.id] + 1
             /\ \A i \in Ids : i # d.id => sent'[i] = sent[i]
             /\ wire' = wire \cup {<<d.id, sent[d.id] + 1>>} /\ wire' \subseteq Ids \X Nat
             /\ UNCHANGED <<now, markers, sub, born, deliveries, admin, arrived, log, spent>>
<1>1. pass \in [Workers -> Pass]
    BY DEF TypeOK
<1>2. PICK d \in pass[w].todo :
        /\ pass' = [pass EXCEPT ![w] = [@ EXCEPT !.at = "sending", !.todo = pass[w].todo \ {d}, !.id = d.id,
                                                 !.nth = sent[d.id] + 1, !.since = now]]
        /\ sent' = [sent EXCEPT ![d.id] = @ + 1]
        /\ wire' = wire \cup {<<d.id, sent[d.id] + 1>>}
    BY DEF Send
<1>3. UNCHANGED <<now, markers, sub, born, deliveries, admin, arrived, log, spent>>
    BY DEF Send
<1>4. d \in Claimed /\ d.id \in Ids /\ d.id \in Nat /\ pass[w].todo \subseteq Claimed
    BY Workings, ReadyAreIds DEF Claimed
<1>5. sent[d.id] + 1 \in Nat /\ now \in Nat /\ sent \in [Ids -> Nat]
    BY <1>4 DEF TypeOK
<1> DEFINE p == [pass[w] EXCEPT !.at = "sending", !.todo = pass[w].todo \ {d}, !.id = d.id,
                                !.nth = sent[d.id] + 1, !.since = now]
<1>6. /\ p \in Pass /\ p.at = "sending" /\ p.id = d.id /\ p.todo = pass[w].todo \ {d}
      /\ p.lease = pass[w].lease /\ p.nth = sent[d.id] + 1 /\ p.since = now
    BY <1>1, <1>4, <1>5 DEF Pass
<1>7. pass' = [pass EXCEPT ![w] = p]
    BY <1>2
<1> HIDE DEF p
<1>8. pass' \in [Workers -> Pass] /\ pass'[w] = p /\ \A v \in Workers : v # w => pass'[v] = pass[v]
    BY <1>1, <1>6, <1>7
<1>9. sent' \in [Ids -> Nat] /\ wire' \subseteq Ids \X Nat
    BY <1>2, <1>4, <1>5 DEF TypeOK
<1>10. sent'[d.id] = sent[d.id] + 1 /\ \A i \in Ids : i # d.id => sent'[i] = sent[i]
    BY <1>2, <1>4, <1>5
<1> QED
    BY <1>2, <1>3, <1>4, <1>6, <1>8, <1>9, <1>10

LEMMA SendBasics == ASSUME Basics, NEW w \in Workers, Send(w) PROVE Basics'
<1>1. TypeOK
    BY DEF Basics
<1>2. PICK d \in pass[w].todo :
             /\ d.id \in Ids /\ d.id \in Nat
             /\ pass' \in [Workers -> Pass]
             /\ \A v \in Workers : v # w => pass'[v] = pass[v]
             /\ pass'[w].at = "sending" /\ pass'[w].id = d.id /\ pass'[w].todo = pass[w].todo \ {d}
             /\ sent' \in [Ids -> Nat]
             /\ wire' = wire \cup {<<d.id, sent[d.id] + 1>>} /\ wire' \subseteq Ids \X Nat
             /\ UNCHANGED <<now, markers, sub, born, deliveries, admin, arrived, log, spent>>
    BY <1>1, SendDoes
<1>3. TypeOK'
    BY <1>1, <1>2 DEF TypeOK, log, Made
<1>4. d.id \in Made
    BY <1>2 DEF Basics, Founded, Holds
<1>5. ASSUME NEW v \in Workers PROVE HoldsOnce(v)'
  <2>1. HoldsOnce(v)
      BY DEF Basics, Founded
  <2>2. CASE v # w
      BY <1>2, <2>1, <2>2 DEF HoldsOnce, InFlight
  <2>3. CASE v = w
      BY <1>2, <2>1, <2>3 DEF HoldsOnce, InFlight
  <2> QED
      BY <2>2, <2>3
<1>6. ASSUME NEW v \in Workers, NEW i \in Nat, Holds(v, i)' PROVE i \in Made'
  <2>1. CASE v # w
      BY <1>2, <1>6, <2>1 DEF Basics, Founded, Holds, InFlight, Made
  <2>2. CASE v = w
      BY <1>2, <1>4, <1>6, <2>2 DEF Basics, Founded, Holds, InFlight, Made
  <2> QED
      BY <2>1, <2>2
<1>7. \A r \in wire' : r[1] \in Made'
    BY <1>2, <1>4 DEF Basics, Founded, Made
<1>8. Founded'
    BY <1>2, <1>5, <1>6, <1>7 DEF Basics, Founded, log, Made
<1>9. Unborn'
    BY <1>2 DEF Basics, Unborn, log, Made
<1> QED
    BY <1>3, <1>8, <1>9 DEF Basics

\* What recording does, whatever the outcome.
LEMMA RecordedDoes ==
    ASSUME Basics, NEW w \in Workers, NEW status \in {"pending", "succeeded", "failed"}, NEW due \in Nat,
           Recorded(w, status, due)
    PROVE  /\ pass[w].at = "record" /\ pass[w].id \in Made /\ pass[w].id \in Ids /\ Made' = Made
           /\ deliveries[pass[w].id].due = pass[w].lease
           /\ deliveries[pass[w].id].status = "pending"
           /\ deliveries[pass[w].id].attempts = pass[w].attempts
           /\ deliveries' \in [Made -> Delivery]
           /\ deliveries'[pass[w].id] = [status |-> status, attempts |-> pass[w].attempts + 1, due |-> due]
           /\ \A i \in Made : i # pass[w].id => deliveries'[i] = deliveries[i]
           /\ recorded' \in [Ids -> Nat] /\ recorded'[pass[w].id] = recorded[pass[w].id] + 1
           /\ \A i \in Ids : i # pass[w].id => recorded'[i] = recorded[i]
           /\ pass' = [pass EXCEPT ![w] = Onward(w)]
           /\ UNCHANGED <<now, markers, born, admin, net, spent>>
<1>1. TypeOK /\ pass[w].id \in Nat /\ pass[w].attempts \in Nat
    BY Workings DEF Basics
<1>2. pass[w].at = "record" /\ pass[w].id \in Made
    BY <1>1 DEF Recorded, Basics, Founded, Holds, InFlight
<1>3. Made \subseteq Ids /\ deliveries \in [Made -> Delivery] /\ recorded \in [Ids -> Nat]
    BY <1>1 DEF TypeOK
<1>4. [status |-> status, attempts |-> pass[w].attempts + 1, due |-> due] \in Delivery
    BY <1>1 DEF Delivery
<1>5. recorded[pass[w].id] + 1 \in Nat
    BY <1>2, <1>3
<1>6. deliveries' = [deliveries EXCEPT ![pass[w].id] =
                       [status |-> status, attempts |-> pass[w].attempts + 1, due |-> due]]
      /\ recorded' = [recorded EXCEPT ![pass[w].id] = recorded[pass[w].id] + 1]
    BY DEF Recorded
<1>7. deliveries' \in [Made -> Delivery] /\ Made' = Made
    BY <1>3, <1>4, <1>6 DEF Made
<1>8. /\ deliveries'[pass[w].id] = [status |-> status, attempts |-> pass[w].attempts + 1, due |-> due]
      /\ \A i \in Made : i # pass[w].id => deliveries'[i] = deliveries[i]
    BY <1>2, <1>3, <1>6
<1>9. /\ recorded' \in [Ids -> Nat] /\ recorded'[pass[w].id] = recorded[pass[w].id] + 1
      /\ \A i \in Ids : i # pass[w].id => recorded'[i] = recorded[i]
    BY <1>2, <1>3, <1>5, <1>6
<1>10. pass' = [pass EXCEPT ![w] = Onward(w)]
    BY <1>1, OnwardIsAPass DEF Recorded
<1>11. StillMine(w) /\ UNCHANGED <<now, markers, born, admin, net, spent>>
    BY DEF Recorded
<1> QED
    BY <1>2, <1>3, <1>7, <1>8, <1>9, <1>10, <1>11 DEF StillMine

LEMMA RecordedBasics ==
    ASSUME Basics, NEW w \in Workers, NEW status \in {"pending", "succeeded", "failed"}, NEW due \in Nat,
           Recorded(w, status, due), sub' \in Subscription, sub'.active = sub.active, ended' \in Seq(End)
    PROVE  Basics'
<1>1. TypeOK
    BY DEF Basics
<1>2. pass' \in [Workers -> Pass] /\ pass'[w] = Onward(w) /\ \A v \in Workers : v # w => pass'[v] = pass[v]
  <2>1. pass \in [Workers -> Pass] /\ Onward(w) \in Pass
      BY <1>1, OnwardIsAPass DEF TypeOK
  <2>2. pass' = [pass EXCEPT ![w] = Onward(w)]
      BY RecordedDoes
  <2> QED
      BY <2>1, <2>2
<1>3. TypeOK'
  <2>1. /\ Made' = Made /\ deliveries' \in [Made -> Delivery] /\ recorded' \in [Ids -> Nat]
        /\ UNCHANGED <<now, markers, born, admin, net, spent>>
      BY RecordedDoes
  <2> QED
      BY <1>1, <1>2, <2>1 DEF TypeOK, net
<1>4. pass'[w].at = "send" /\ pass'[w].todo = pass[w].todo
    BY <1>1, <1>2, OnwardIsAPass
<1>5. ASSUME NEW v \in Workers PROVE HoldsOnce(v)'
  <2>1. HoldsOnce(v)
      BY DEF Basics, Founded
  <2> QED
      BY <1>2, <1>4, <2>1 DEF HoldsOnce, InFlight
<1>6. ASSUME NEW v \in Workers, NEW i \in Nat, Holds(v, i)' PROVE i \in Made'
  <2>1. Holds(v, i)
      BY <1>2, <1>4, <1>6 DEF Holds, InFlight
  <2> QED
      BY <2>1, RecordedDoes DEF Basics, Founded
<1>7. \A i \in Ids : i \notin Made' => recorded'[i] = 0
    BY RecordedDoes DEF Basics, Founded
<1>8. Founded'
    BY <1>5, <1>6, <1>7, RecordedDoes DEF Basics, Founded, net
<1>9. Unborn'
    BY RecordedDoes DEF Basics, Unborn
<1> QED
    BY <1>3, <1>8, <1>9 DEF Basics

\* The three outcomes, and what each leaves of the count and of the ends.
LEMMA Outcomes ==
    ASSUME Basics, NEW w \in Workers, RecordSuccess(w) \/ RecordRetry(w) \/ RecordFailure(w)
    PROVE  \E status \in {"pending", "succeeded", "failed"}, due \in Nat :
             /\ Recorded(w, status, due)
             /\ sub' \in Subscription /\ sub'.active = sub.active /\ sub'.cursor = sub.cursor
             /\ ended' \in Seq(End)
             /\ status = "pending" => UNCHANGED <<sub, ended>>
             /\ status = "succeeded" => /\ pass[w].ok
                                        /\ sub'.failures \in {0, sub.failures} /\ sub'.paused = sub.paused
                                        /\ ended' = Append(ended, [id |-> pass[w].id, how |-> "succeeded"])
             /\ status = "failed" => /\ sub'.failures = sub.failures + 1
                                     /\ sub'.paused = (sub.paused \/ sub.failures + 1 >= PauseAfter)
                                     /\ ended' = Append(ended, [id |-> pass[w].id, how |-> "failed"])
<1>1. TypeOK /\ sub \in Subscription /\ ended \in Seq(End) /\ pass[w].since \in Nat /\ pass[w].id \in Nat
    BY Workings DEF Basics, TypeOK
<1>2. Never \in Nat
    BY TimesAssumption, LimitsAssumption DEF Never
<1>3. pass[w].at = "record" => pass[w].id \in Ids
    BY <1>1 DEF Basics, Founded, Holds, InFlight, TypeOK
<1>4. sub.failures \in Nat /\ sub.paused \in BOOLEAN
    BY <1>1 DEF Subscription
<1>5. CASE RecordSuccess(w)
  <2>1. Recorded(w, "succeeded", Never) /\ pass[w].ok
      BY <1>5 DEF RecordSuccess
  <2>2. [id |-> pass[w].id, how |-> "succeeded"] \in End
      BY <1>3, <2>1 DEF Recorded, End
  <2>3. ended' = Append(ended, [id |-> pass[w].id, how |-> "succeeded"]) /\ ended' \in Seq(End)
      BY <1>1, <1>5, <2>2 DEF RecordSuccess
  <2>4. PICK f \in {0, sub.failures} : sub' = [sub EXCEPT !.failures = f]
      BY <1>5 DEF RecordSuccess
  <2>5. /\ sub' \in Subscription /\ sub'.active = sub.active /\ sub'.cursor = sub.cursor
        /\ sub'.failures \in {0, sub.failures} /\ sub'.paused = sub.paused
      BY <1>1, <1>4, <2>4 DEF Subscription
  <2> QED
      BY <1>2, <2>1, <2>3, <2>5
<1>6. CASE RecordRetry(w)
  <2>1. PICK wait \in Waits : Recorded(w, "pending", pass[w].since + wait)
      BY <1>6 DEF RecordRetry
  <2>2. pass[w].since + wait \in Nat
      BY <1>1, TimesAssumption
  <2>3. UNCHANGED <<sub, ended>>
      BY <1>6 DEF RecordRetry
  <2> QED
      BY <1>1, <2>1, <2>2, <2>3
<1>7. CASE RecordFailure(w)
  <2>1. Recorded(w, "failed", Never)
      BY <1>7 DEF RecordFailure
  <2>2. [id |-> pass[w].id, how |-> "failed"] \in End
      BY <1>3, <2>1 DEF Recorded, End
  <2>3. ended' = Append(ended, [id |-> pass[w].id, how |-> "failed"]) /\ ended' \in Seq(End)
      BY <1>1, <1>7, <2>2 DEF RecordFailure
  <2> DEFINE p == sub.paused \/ sub.failures + 1 >= PauseAfter
  <2>4. sub' = [sub EXCEPT !.failures = sub.failures + 1, !.paused = p]
      BY <1>7 DEF RecordFailure
  <2>5. p \in BOOLEAN /\ sub.failures + 1 \in Nat
      BY <1>4
  <2> HIDE DEF p
  <2>6. /\ sub' \in Subscription /\ sub'.active = sub.active /\ sub'.cursor = sub.cursor
        /\ sub'.failures = sub.failures + 1 /\ sub'.paused = p
      BY <1>1, <2>4, <2>5 DEF Subscription
  <2> QED
      BY <1>2, <2>1, <2>3, <2>6 DEF p
<1> QED
    BY <1>5, <1>6, <1>7

LEMMA OutcomeBasics ==
    ASSUME Basics, NEW w \in Workers, RecordSuccess(w) \/ RecordRetry(w) \/ RecordFailure(w)
    PROVE  Basics'
BY Outcomes, RecordedBasics
LEMMA InsertBasics == ASSUME Basics, NEW row \in Rows, NEW kind \in Kinds, Insert(row, kind) PROVE Basics'
<1>1. TypeOK
    BY DEF Basics
<1>2. UNCHANGED <<now, sub, born, deliveries, pass, admin, net, log, spent>>
    BY DEF Insert
<1> DEFINE new == [row |-> row, kind |-> kind, at |-> now, state |-> "open"]
<1>3. new \in Marker /\ markers' = Append(markers, new) /\ Len(markers) < MaxMarkers /\ MaxMarkers \in Nat
    BY <1>1, LimitsAssumption DEF Marker, TypeOK, Insert
<1> HIDE DEF new
<1>4. markers \in Seq(Marker)
    BY <1>1 DEF TypeOK
<1>5. markers' \in Seq(Marker) /\ Len(markers') <= MaxMarkers
    BY <1>3, <1>4
<1>6. TypeOK'
    BY <1>1, <1>2, <1>5 DEF TypeOK, net, log, Made
<1>7. Founded' /\ Unborn'
    BY <1>2 DEF Basics, Founded, Unborn, HoldsOnce, Holds, InFlight, net, log, Made
<1> QED
    BY <1>6, <1>7 DEF Basics

LEMMA SettleBasics ==
    ASSUME Basics, NEW i \in DOMAIN markers, NEW state \in {"committed", "gone"}, Settle(i, state)
    PROVE  Basics'
<1>1. TypeOK
    BY DEF Basics
<1>2. UNCHANGED <<now, sub, born, deliveries, pass, admin, net, log, spent>>
    BY DEF Settle
<1>3. markers \in Seq(Marker) /\ markers[i] \in Marker
    BY <1>1 DEF TypeOK
<1>4. [markers[i] EXCEPT !.state = state] \in Marker
    BY <1>3 DEF Marker
<1>5. markers' = [markers EXCEPT ![i] = [markers[i] EXCEPT !.state = state]]
    BY DEF Settle
<1>6. markers' \in Seq(Marker) /\ Len(markers') = Len(markers)
    BY <1>3, <1>4, <1>5
<1>7. TypeOK'
    BY <1>1, <1>2, <1>6 DEF TypeOK, net, log, Made
<1>8. Founded' /\ Unborn'
    BY <1>2 DEF Basics, Founded, Unborn, HoldsOnce, Holds, InFlight, net, log, Made
<1> QED
    BY <1>7, <1>8 DEF Basics

LEMMA ArriveBasics == ASSUME Basics, NEW request \in wire, Arrive(request) PROVE Basics'
<1>1. TypeOK
    BY DEF Basics
<1>2. UNCHANGED <<now, markers, sub, born, deliveries, pass, admin, sent, log, spent>> /\ wire' \subseteq wire
    BY DEF Arrive
<1>3. request[1] \in Ids /\ request[1] \in Made /\ arrived \in Seq(Ids)
    BY <1>1 DEF TypeOK, Basics, Founded
<1>4. arrived' = arrived \/ arrived' = Append(arrived, request[1])
    BY DEF Arrive
<1>5. arrived' \in Seq(Ids) /\ \A n \in DOMAIN arrived' : arrived'[n] \in Made
    BY <1>3, <1>4 DEF Basics, Founded
<1>6. TypeOK'
    BY <1>1, <1>2, <1>5 DEF TypeOK, log, Made
<1>7. Founded' /\ Unborn'
    BY <1>2, <1>5 DEF Basics, Founded, Unborn, HoldsOnce, Holds, InFlight, log, Made
<1> QED
    BY <1>6, <1>7 DEF Basics

LEMMA NewestExists ==
    ASSUME TypeOK, NEW active \in BOOLEAN, Create(active)
    PROVE  \E newest \in 0..Len(markers) :
             /\ \A j \in Committed : j <= newest
             /\ sub' = [active |-> active, paused |-> FALSE, failures |-> 0, cursor |-> newest]
             /\ born' = [yet |-> TRUE, first |-> newest]
<1> DEFINE S == Committed \cup {0}
<1> DEFINE newest == CHOOSE i \in Committed \cup {0} : \A j \in Committed : j <= i
<1>1. S \in SUBSET (0..Len(markers)) /\ S # {} /\ Len(markers) \in Nat
    BY DEF Committed, TypeOK
<1>2. \E m \in S : \A j \in S : j <= m
    BY <1>1, LargestExists
<1>3. newest \in S /\ \A j \in Committed : j <= newest
    BY <1>2
<1>4. /\ sub' = [active |-> active, paused |-> FALSE, failures |-> 0, cursor |-> newest]
      /\ born' = [yet |-> TRUE, first |-> newest]
    BY DEF Create
<1> QED
    BY <1>1, <1>3, <1>4

LEMMA CreateBasics == ASSUME Basics, NEW active \in BOOLEAN, Create(active) PROVE Basics'
<1>1. TypeOK
    BY DEF Basics
<1>2. UNCHANGED <<now, markers, deliveries, pass, admin, net, log, spent>>
    BY DEF Create
<1>3. PICK newest \in 0..Len(markers) :
        /\ sub' = [active |-> active, paused |-> FALSE, failures |-> 0, cursor |-> newest]
        /\ born' = [yet |-> TRUE, first |-> newest]
    BY <1>1, NewestExists
<1>4. newest \in Nat
    BY <1>1 DEF TypeOK
<1>5. sub' \in Subscription /\ born' \in [yet : BOOLEAN, first : Nat] /\ born'.yet
    BY <1>3, <1>4 DEF Subscription
<1>6. TypeOK'
    BY <1>1, <1>2, <1>5 DEF TypeOK, net, log, Made
<1>7. Founded' /\ Unborn'
    BY <1>2, <1>5 DEF Basics, Founded, Unborn, HoldsOnce, Holds, InFlight, net, log, Made
<1> QED
    BY <1>6, <1>7 DEF Basics

LEMMA RedeliverReadBasics == ASSUME Basics, NEW i \in Made, RedeliverRead(i) PROVE Basics'
<1>1. TypeOK
    BY DEF Basics
<1>2. UNCHANGED <<now, markers, sub, born, deliveries, pass, net, log>>
    BY DEF RedeliverRead
<1>3. admin' = [op |-> "redeliver", id |-> i, row |-> deliveries[i], at |-> now]
    BY DEF RedeliverRead
<1>4. admin' \in Request
    BY <1>1, <1>3 DEF Request, TypeOK
<1>5. spent' = [spent EXCEPT !.redeliveries = spent.redeliveries + 1] /\ spent.redeliveries + 1 \in Nat
    BY <1>1 DEF RedeliverRead, TypeOK
<1>6. /\ spent' \in [redeliveries : Nat, switches : Nat, crashes : Nat]
      /\ spent'.redeliveries > 0
  <2>1. spent \in [redeliveries : Nat, switches : Nat, crashes : Nat]
      BY <1>1 DEF TypeOK
  <2>2. /\ spent' \in [redeliveries : Nat, switches : Nat, crashes : Nat]
        /\ spent'.redeliveries = spent.redeliveries + 1
      BY <1>5, <2>1
  <2>3. spent.redeliveries \in Nat
      BY <2>1
  <2> QED
      BY <2>2, <2>3
<1>7. TypeOK'
    BY <1>1, <1>2, <1>4, <1>6 DEF TypeOK, net, log, Made
<1>8. Founded'
    BY <1>2, <1>3, <1>6 DEF Basics, Founded, HoldsOnce, Holds, InFlight, net, log, Made
<1>9. Unborn'
    BY <1>2 DEF Basics, Unborn, log, Made
<1> QED
    BY <1>7, <1>8, <1>9 DEF Basics

LEMMA RedeliverWriteBasics == ASSUME Basics, RedeliverWrite PROVE Basics'
<1>1. TypeOK
    BY DEF Basics
<1>2. UNCHANGED <<now, markers, sub, born, pass, net, log, spent>> /\ admin' = NoAdmin
    BY DEF RedeliverWrite
<1>3. admin.id \in Made /\ admin \in Request /\ admin.op = "redeliver"
    BY <1>1 DEF Basics, Founded, TypeOK, RedeliverWrite, NoAdmin
<1>4. admin.row \in Delivery /\ admin.at \in Nat
    BY <1>3 DEF Request
<1>5. deliveries[admin.id] \in Delivery /\ deliveries \in [Made -> Delivery]
    BY <1>1, <1>3 DEF TypeOK
<1> DEFINE d == [status   |-> IF admin.row.status = "pending" THEN deliveries[admin.id].status ELSE "pending",
                 attempts |-> IF admin.row.attempts = 0 THEN deliveries[admin.id].attempts ELSE 0,
                 due      |-> admin.at]
<1>6. d \in Delivery
    BY <1>4, <1>5 DEF Delivery
<1>7. deliveries' = [deliveries EXCEPT ![admin.id] = d]
    BY DEF RedeliverWrite
<1> HIDE DEF d
<1>8. Made' = Made /\ deliveries' \in [Made -> Delivery]
    BY <1>5, <1>6, <1>7 DEF Made
<1>9. TypeOK'
    BY <1>1, <1>2, <1>8 DEF TypeOK, net, log
<1>10. Founded' /\ Unborn'
    BY <1>2, <1>8 DEF Basics, Founded, Unborn, HoldsOnce, Holds, InFlight, net, log, NoAdmin
<1> QED
    BY <1>9, <1>10 DEF Basics

LEMMA SubscriptionReadBasics ==
    ASSUME Basics, NEW op \in {"resume", "switch"}, SubscriptionRead(op) PROVE Basics'
<1>1. TypeOK
    BY DEF Basics
<1>2. UNCHANGED <<now, markers, sub, born, deliveries, pass, net, log>> /\ born.yet
    BY DEF SubscriptionRead
<1>3. admin' = [op |-> op, row |-> sub]
    BY DEF SubscriptionRead
<1>4. admin' \in Request
    BY <1>1, <1>3 DEF Request, TypeOK
<1>5. spent' = [spent EXCEPT !.switches = spent.switches + 1] /\ spent.switches + 1 \in Nat
    BY <1>1 DEF SubscriptionRead, TypeOK
<1>6. /\ spent' \in [redeliveries : Nat, switches : Nat, crashes : Nat]
      /\ spent'.switches > 0
  <2>1. spent \in [redeliveries : Nat, switches : Nat, crashes : Nat]
      BY <1>1 DEF TypeOK
  <2>2. /\ spent' \in [redeliveries : Nat, switches : Nat, crashes : Nat]
        /\ spent'.switches = spent.switches + 1
      BY <1>5, <2>1
  <2>3. spent.switches \in Nat
      BY <2>1
  <2> QED
      BY <2>2, <2>3
<1>7. TypeOK'
    BY <1>1, <1>2, <1>4, <1>6 DEF TypeOK, net, log, Made
<1>8. Founded'
    BY <1>2, <1>3, <1>6 DEF Basics, Founded, HoldsOnce, Holds, InFlight, net, log, Made
<1>9. Unborn'
    BY <1>2 DEF Basics, Unborn, log, Made
<1> QED
    BY <1>7, <1>8, <1>9 DEF Basics

LEMMA SubscriptionWriteBasics == ASSUME Basics, ResumeWrite \/ SwitchWrite PROVE Basics'
<1>1. TypeOK
    BY DEF Basics
<1>2. UNCHANGED <<now, markers, born, deliveries, pass, net, log, spent>> /\ admin' = NoAdmin
    BY DEF ResumeWrite, SwitchWrite
<1>3. admin \in Request /\ admin.op \in {"resume", "switch"}
    BY <1>1 DEF TypeOK, ResumeWrite, SwitchWrite, NoAdmin
<1>4. admin.row \in Subscription /\ sub \in Subscription
    BY <1>1, <1>3 DEF Request, TypeOK
<1>5. sub' \in Subscription
  <2>1. CASE ResumeWrite
    <3> DEFINE p == IF admin.row.paused THEN FALSE ELSE sub.paused
    <3> DEFINE f == IF admin.row.failures # 0 THEN 0 ELSE sub.failures
    <3>1. p \in BOOLEAN /\ f \in Nat
        BY <1>4 DEF Subscription
    <3>2. sub' = [sub EXCEPT !.paused = p, !.failures = f]
        BY <1>4, <2>1 DEF ResumeWrite, Subscription
    <3> HIDE DEF p, f
    <3> QED
        BY <1>4, <3>1, <3>2 DEF Subscription
  <2>2. CASE SwitchWrite
    <3>1. (~admin.row.active) \in BOOLEAN /\ sub' = [sub EXCEPT !.active = ~admin.row.active]
        BY <1>4, <2>2 DEF SwitchWrite, Subscription
    <3> QED
        BY <1>4, <3>1 DEF Subscription
  <2> QED
      BY <2>1, <2>2
<1>6. TypeOK'
    BY <1>1, <1>2, <1>5 DEF TypeOK, net, log, Made
<1>7. Founded'
    BY <1>2 DEF Basics, Founded, HoldsOnce, Holds, InFlight, net, log, Made, NoAdmin
<1>8. Unborn'
    BY <1>2, <1>3 DEF Basics, Unborn, log, Made, NoAdmin
<1> QED
    BY <1>6, <1>7, <1>8 DEF Basics

LEMMA TickBasics == ASSUME Basics, Tick PROVE Basics'
<1>1. TypeOK
    BY DEF Basics
<1>2. UNCHANGED <<markers, sub, born, deliveries, pass, admin, net, log, spent>> /\ now' = now + 1
    BY DEF Tick
<1>3. TypeOK'
    BY <1>1, <1>2 DEF TypeOK, net, log, Made
<1>4. Founded' /\ Unborn'
    BY <1>2 DEF Basics, Founded, Unborn, HoldsOnce, Holds, InFlight, net, log, Made
<1> QED
    BY <1>3, <1>4 DEF Basics

LEMMA StutterBasics == ASSUME Basics, UNCHANGED vars PROVE Basics'
<1>1. UNCHANGED <<now, markers, sub, born, deliveries, pass, admin, net, log, spent>>
    BY DEF vars
<1>2. TypeOK'
    BY <1>1 DEF Basics, TypeOK, net, log, Made
<1>3. Founded' /\ Unborn'
    BY <1>1 DEF Basics, Founded, Unborn, HoldsOnce, Holds, InFlight, net, log, Made
<1> QED
    BY <1>2, <1>3 DEF Basics

LEMMA NextBasics == Basics /\ [Next]_vars => Basics'
<1> SUFFICES ASSUME Basics, [Next]_vars PROVE Basics'
    OBVIOUS
<1>1. ASSUME NEW w \in Workers, Work(w) PROVE Basics'
    BY <1>1, FanOutBasics, ClaimBasics, PassOverBasics, SendBasics, AnswerBasics, RecordReadBasics,
       RecordDroppedBasics, OutcomeBasics, CrashBasics DEF Work
<1>2. ASSUME Administer PROVE Basics'
    BY <1>2, CreateBasics, RedeliverReadBasics, RedeliverWriteBasics, SubscriptionReadBasics,
       SubscriptionWriteBasics DEF Administer
<1> QED
    BY <1>1, <1>2, InsertBasics, SettleBasics, ArriveBasics, TickBasics, StutterBasics DEF Next
-----------------------------------------------------------------------------
(* What a step does to one worker, and to one delivery. *)

\* A worker holds no more than it did, under the same lease.
Sheds(v) ==
    /\ pass'[v].todo \subseteq pass[v].todo
    /\ InFlight(v)' => InFlight(v) /\ pass'[v].id = pass[v].id
    /\ pass'[v].lease = pass[v].lease \/ (pass'[v].todo = {} /\ ~InFlight(v)')

LEMMA WorkMoves ==
    ASSUME Basics, NEW w \in Workers, Work(w)
    PROVE  /\ \A v \in Workers : v # w => pass'[v] = pass[v]
           /\ Claim(w) \/ Send(w) \/ Sheds(w)
<1>1. TypeOK /\ pass \in [Workers -> Pass] /\ pass[w] \in Pass
    BY DEF Basics, TypeOK
<1>2. ASSUME NEW p, pass' = [pass EXCEPT ![w] = p],
             p.todo \subseteq pass[w].todo,
             p.at \in {"sending", "answered", "record"} => InFlight(w) /\ p.id = pass[w].id,
             p.lease = pass[w].lease \/ (p.todo = {} /\ p.at \notin {"sending", "answered", "record"})
      PROVE  (\A v \in Workers : v # w => pass'[v] = pass[v]) /\ Sheds(w)
    BY <1>1, <1>2 DEF Sheds, InFlight
<1>3. CASE FanOut(w)
  <2> DEFINE p == [pass[w] EXCEPT !.at = "claim"]
  <2>1. pass' = [pass EXCEPT ![w] = p]
      BY <1>1, <1>3 DEF FanOut
  <2>2. p.at = "claim" /\ p.todo = pass[w].todo /\ p.lease = pass[w].lease
      BY <1>1 DEF Pass
  <2> QED
      BY <1>2, <2>1, <2>2
<1>4. CASE PassOver(w) \/ Crash(w)
  <2>1. pass' = [pass EXCEPT ![w] = Idle]
      BY <1>4 DEF PassOver, Crash
  <2>2. Idle.todo = {} /\ Idle.at = "idle"
      BY DEF Idle
  <2> QED
      BY <1>2, <2>1, <2>2
<1>5. ASSUME NEW ok \in BOOLEAN, Answer(w, ok)
      PROVE  (\A v \in Workers : v # w => pass'[v] = pass[v]) /\ Sheds(w)
  <2> DEFINE p == [pass[w] EXCEPT !.at = "answered", !.ok = ok]
  <2>1. pass' = [pass EXCEPT ![w] = p] /\ InFlight(w)
      BY <1>5 DEF Answer, InFlight
  <2>2. p.todo = pass[w].todo /\ p.lease = pass[w].lease /\ p.id = pass[w].id
      BY <1>1 DEF Pass
  <2> QED
      BY <1>2, <2>1, <2>2
<1>6. CASE RecordRead(w)
  <2> DEFINE p == [pass[w] EXCEPT !.at = "record", !.attempts = deliveries[pass[w].id].attempts,
                                  !.failures = sub.failures, !.since = now]
  <2>1. pass' = [pass EXCEPT ![w] = p] /\ InFlight(w)
      BY <1>6 DEF RecordRead, InFlight
  <2>2. p.todo = pass[w].todo /\ p.lease = pass[w].lease /\ p.id = pass[w].id
      BY <1>1 DEF Pass
  <2> QED
      BY <1>2, <2>1, <2>2
<1>7. CASE RecordDropped(w) \/ RecordSuccess(w) \/ RecordRetry(w) \/ RecordFailure(w)
  <2>1. GoOn(w)
      BY <1>7 DEF RecordDropped, RecordSuccess, RecordRetry, RecordFailure, Recorded
  <2>2. pass' = [pass EXCEPT ![w] = Onward(w)]
      BY <1>1, <2>1, OnwardIsAPass
  <2>3. Onward(w).at = "send" /\ Onward(w).todo = pass[w].todo /\ Onward(w).lease = pass[w].lease
      BY <1>1, OnwardIsAPass
  <2> QED
      BY <1>2, <2>2, <2>3
<1>8. CASE Claim(w)
    BY <1>1, <1>8, ClaimTakes
<1>9. CASE Send(w)
    BY <1>1, <1>9, SendDoes
<1> QED
    BY <1>3, <1>4, <1>5, <1>6, <1>7, <1>8, <1>9 DEF Work

LEMMA OthersMoveNoPass == ASSUME [Next]_vars, ~\E w \in Workers : Work(w) PROVE UNCHANGED pass
BY DEF Next, vars, Insert, Settle, Arrive, Administer, Create, RedeliverRead, RedeliverWrite,
   SubscriptionRead, ResumeWrite, SwitchWrite, Tick

\* Whatever is held after a step was held before it, or has just been claimed.
LEMMA HoldsKept ==
    ASSUME Basics, [Next]_vars, NEW v \in Workers, NEW i, Holds(v, i)'
    PROVE  \/ Holds(v, i) /\ pass'[v].lease = pass[v].lease
           \/ Claim(v) /\ i \in Taken /\ pass'[v].lease = now + Lease
<1>1. TypeOK
    BY DEF Basics
<1>2. CASE pass'[v] = pass[v]
    BY <1>2 DEF Holds, InFlight
<1>3. CASE Work(v)
  <2>1. CASE Sheds(v)
      BY <2>1 DEF Sheds, Holds, InFlight
  <2>2. CASE Claim(v)
      BY <1>1, <2>2, ClaimHolds
  <2>3. CASE Send(v)
      BY <1>1, <2>3, SendDoes DEF Holds, InFlight
  <2> QED
      BY <1>3, <2>1, <2>2, <2>3, WorkMoves
<1> QED
    BY <1>2, <1>3, WorkMoves, OthersMoveNoPass

\* An attempt is in flight after a step only if it was before it, or was sent.
LEMMA FlightsKept ==
    ASSUME Basics, [Next]_vars, NEW v \in Workers, InFlight(v)'
    PROVE  Send(v) \/ (InFlight(v) /\ pass'[v].id = pass[v].id)
<1>1. TypeOK
    BY DEF Basics
<1>2. CASE pass'[v] = pass[v]
    BY <1>2 DEF InFlight
<1>3. CASE Work(v)
    BY <1>1, <1>3, WorkMoves, ClaimTakes DEF Sheds, InFlight
<1> QED
    BY <1>2, <1>3, WorkMoves, OthersMoveNoPass
Outcome(w) == RecordSuccess(w) \/ RecordRetry(w) \/ RecordFailure(w)

\* Who may change a delivery.
LEMMA DeliveryKept ==
    ASSUME Basics, [Next]_vars, NEW i \in Made
    PROVE  /\ i \in Made'
           /\ \/ deliveries'[i] = deliveries[i]
              \/ \E w \in Workers : Claim(w) /\ i \in Taken
              \/ \E w \in Workers : Outcome(w) /\ pass[w].id = i
              \/ RedeliverWrite /\ admin.id = i
<1>1. TypeOK
    BY DEF Basics
<1>2. CASE UNCHANGED deliveries
    BY <1>2 DEF Made
<1>3. ASSUME NEW w \in Workers, FanOut(w), Live, Ready # {} PROVE i \in Made' /\ deliveries'[i] = deliveries[i]
    BY <1>1, <1>3, FanOutMakes
<1>4. ASSUME NEW w \in Workers, Claim(w)
      PROVE  i \in Made' /\ (deliveries'[i] = deliveries[i] \/ i \in Taken)
    BY <1>1, <1>4, ClaimTakes
<1>5. ASSUME NEW w \in Workers, Outcome(w)
      PROVE  i \in Made' /\ (deliveries'[i] = deliveries[i] \/ pass[w].id = i)
  <2>1. PICK status \in {"pending", "succeeded", "failed"}, due \in Nat : Recorded(w, status, due)
      BY <1>5, Outcomes DEF Outcome
  <2> QED
      BY <2>1, RecordedDoes
<1>6. ASSUME RedeliverWrite PROVE i \in Made' /\ (deliveries'[i] = deliveries[i] \/ admin.id = i)
    BY <1>1, <1>6 DEF RedeliverWrite, Made, TypeOK
<1>7. ASSUME NEW w \in Workers, Work(w)
      PROVE  UNCHANGED deliveries \/ (FanOut(w) /\ Live /\ Ready # {}) \/ Claim(w) \/ Outcome(w)
    BY <1>7 DEF Work, FanOut, PassOver, Send, Answer, RecordRead, RecordDropped, Crash, Outcome
<1>8. (\E w \in Workers : Work(w)) \/ UNCHANGED deliveries \/ RedeliverWrite
    BY DEF Next, vars, Insert, Settle, Arrive, Administer, Create, RedeliverRead,
       SubscriptionRead, ResumeWrite, SwitchWrite, Tick
<1> QED
    BY <1>2, <1>3, <1>4, <1>5, <1>6, <1>7, <1>8

\* Who may make one.
LEMMA DeliveryMade ==
    ASSUME Basics, [Next]_vars, NEW i \in Made', i \notin Made
    PROVE  /\ \E w \in Workers : FanOut(w) /\ Live /\ Ready # {}
           /\ i \in Ready /\ markers[i].kind \in Wanted
           /\ deliveries'[i] = [status |-> "pending", attempts |-> 0, due |-> now]
<1>1. TypeOK
    BY DEF Basics
<1>2. ~UNCHANGED deliveries
    BY DEF Made
<1>3. ASSUME NEW w \in Workers, Claim(w) PROVE FALSE
    BY <1>1, <1>3, ClaimTakes
<1>4. ASSUME NEW w \in Workers, Outcome(w) PROVE FALSE
  <2>1. PICK status \in {"pending", "succeeded", "failed"}, due \in Nat : Recorded(w, status, due)
      BY <1>4, Outcomes DEF Outcome
  <2> QED
      BY <2>1, RecordedDoes
<1>5. ~RedeliverWrite
    BY <1>1 DEF RedeliverWrite, Made, TypeOK
<1>6. ASSUME NEW w \in Workers, Work(w)
      PROVE  UNCHANGED deliveries \/ (FanOut(w) /\ Live /\ Ready # {}) \/ Claim(w) \/ Outcome(w)
    BY <1>6 DEF Work, FanOut, PassOver, Send, Answer, RecordRead, RecordDropped, Crash, Outcome
<1>7. (\E w \in Workers : Work(w)) \/ UNCHANGED deliveries \/ RedeliverWrite
    BY DEF Next, vars, Insert, Settle, Arrive, Administer, Create, RedeliverRead,
       SubscriptionRead, ResumeWrite, SwitchWrite, Tick
<1>8. PICK w \in Workers : FanOut(w) /\ Live /\ Ready # {}
    BY <1>2, <1>3, <1>4, <1>5, <1>6, <1>7
<1> QED
    BY <1>1, <1>8, FanOutMakes

LEMMA TalliesKept ==
    ASSUME [Next]_vars
    PROVE  /\ UNCHANGED recorded \/ \E w \in Workers : Outcome(w)
           /\ UNCHANGED sent \/ \E w \in Workers : Send(w)
           /\ UNCHANGED ended \/ \E w \in Workers : Outcome(w)
<1>1. ASSUME NEW w \in Workers, Work(w)
      PROVE  (UNCHANGED <<recorded, ended>> \/ Outcome(w)) /\ (UNCHANGED sent \/ Send(w))
    BY <1>1 DEF Work, FanOut, Claim, PassOver, Answer, RecordRead, RecordDropped, Crash, Outcome, Send,
       RecordSuccess, RecordRetry, RecordFailure, Recorded, net, log
<1>2. (\E w \in Workers : Work(w)) \/ UNCHANGED <<recorded, ended, sent>>
    BY DEF Next, vars, Insert, Settle, Arrive, Administer, Create, RedeliverRead,
       RedeliverWrite, SubscriptionRead, ResumeWrite, SwitchWrite, Tick, net, log
<1> QED
    BY <1>1, <1>2

LEMMA SpentGrows ==
    ASSUME Basics, [Next]_vars
    PROVE  /\ spent'.redeliveries = 0 => spent.redeliveries = 0
           /\ spent'.switches = 0 => spent.switches = 0
<1>1. spent \in [redeliveries : Nat, switches : Nat, crashes : Nat]
    BY DEF Basics, TypeOK
<1>2. \/ UNCHANGED spent
      \/ spent' = [spent EXCEPT !.crashes = spent.crashes + 1]
      \/ spent' = [spent EXCEPT !.redeliveries = spent.redeliveries + 1]
      \/ spent' = [spent EXCEPT !.switches = spent.switches + 1]
  <2>1. ASSUME NEW w \in Workers, Work(w)
        PROVE  UNCHANGED spent \/ spent' = [spent EXCEPT !.crashes = spent.crashes + 1]
      BY <2>1 DEF Work, FanOut, Claim, PassOver, Answer, RecordRead, RecordDropped, Crash, Send,
         RecordSuccess, RecordRetry, RecordFailure, Recorded
  <2> QED
      BY <2>1 DEF Next, vars, Insert, Settle, Arrive, Administer, Create, RedeliverRead,
       RedeliverWrite, SubscriptionRead, ResumeWrite, SwitchWrite, Tick
<1>3. /\ spent'.redeliveries \in {spent.redeliveries, spent.redeliveries + 1}
      /\ spent'.switches \in {spent.switches, spent.switches + 1}
    BY <1>1, <1>2
<1> QED
    BY <1>1, <1>3
-----------------------------------------------------------------------------
(* Attempts are counted once. *)

LEMMA SendersAreFew ==
    ASSUME NEW i PROVE IsFiniteSet(Senders(i)) /\ Cardinality(Senders(i)) \in Nat
<1>1. Senders(i) \subseteq Workers /\ IsFiniteSet(Workers)
    BY LimitsAssumption DEF Senders
<1> QED
    BY <1>1, FS_Subset, FS_CardinalityType

LEMMA RequestsStep == ASSUME Basics, EachHasItsRequest, [Next]_vars PROVE EachHasItsRequest'
<1> SUFFICES ASSUME NEW i \in Made' PROVE recorded'[i] + Cardinality(Senders(i)') <= sent'[i]
    BY DEF EachHasItsRequest
<1>1. TypeOK /\ Basics' /\ i \in Ids /\ i \in Nat
    BY NextBasics, ReadyAreIds DEF Basics, TypeOK
<1>2. recorded[i] \in Nat /\ sent[i] \in Nat /\ Cardinality(Senders(i)) \in Nat /\ IsFiniteSet(Senders(i))
    BY <1>1, SendersAreFew DEF TypeOK
<1>3. recorded[i] + Cardinality(Senders(i)) <= sent[i]
  <2>1. CASE i \in Made
      BY <2>1 DEF EachHasItsRequest
  <2>2. CASE i \notin Made
    <3>1. recorded[i] = 0
        BY <1>1, <2>2 DEF Basics, Founded
    <3>2. Senders(i) = {}
        BY <1>1, <2>2 DEF Senders, Basics, Founded, Holds
    <3> QED
        BY <1>2, <3>1, <3>2, FS_EmptySet
  <2> QED
      BY <2>1, <2>2
<1>4. CASE \E w \in Workers : Send(w)
  <2>1. PICK w \in Workers : Send(w)
      BY <1>4
  <2>2. PICK d \in pass[w].todo :
             /\ d.id \in Ids
             /\ \A v \in Workers : v # w => pass'[v] = pass[v]
             /\ pass'[w].at = "sending" /\ pass'[w].id = d.id
             /\ sent'[d.id] = sent[d.id] + 1
             /\ \A k \in Ids : k # d.id => sent'[k] = sent[k]
             /\ UNCHANGED log
      BY <1>1, <2>1, SendDoes
  <2>3. recorded' = recorded /\ pass[w].at = "send"
      BY <2>1, <2>2 DEF log, Send
  <2>4. CASE i = d.id
    <3>1. Senders(i)' = Senders(i) \cup {w} /\ w \notin Senders(i)
        BY <2>2, <2>3, <2>4 DEF Senders, InFlight
    <3>2. Cardinality(Senders(i)') = Cardinality(Senders(i)) + 1
        BY <1>2, <3>1, FS_AddElement
    <3> QED
        BY <1>2, <1>3, <2>2, <2>3, <2>4, <3>2
  <2>5. CASE i # d.id
    <3>1. Senders(i)' = Senders(i)
        BY <2>2, <2>3, <2>5 DEF Senders, InFlight
    <3> QED
        BY <1>1, <1>3, <2>2, <2>3, <2>5, <3>1
  <2> QED
      BY <2>4, <2>5
<1>5. CASE ~\E w \in Workers : Send(w)
  <2>1. sent' = sent
      BY <1>5, TalliesKept
  <2>2. Senders(i)' \subseteq Senders(i)
      BY <1>5, FlightsKept DEF Senders
  <2>3. CASE \E w \in Workers : Outcome(w) /\ pass[w].id = i
    <3>1. PICK w \in Workers : Outcome(w) /\ pass[w].id = i
        BY <2>3
    <3>2. PICK status \in {"pending", "succeeded", "failed"}, due \in Nat : Recorded(w, status, due)
        BY <3>1, Outcomes DEF Outcome
    <3>3. recorded'[i] = recorded[i] + 1 /\ pass[w].at = "record" /\ pass' = [pass EXCEPT ![w] = Onward(w)]
        BY <3>1, <3>2, RecordedDoes
    <3>4. pass'[w].at = "send"
        BY <1>1, <3>3, OnwardIsAPass DEF TypeOK
    <3>5. w \in Senders(i) /\ w \notin Senders(i)'
        BY <3>1, <3>3, <3>4 DEF Senders, InFlight
    <3>6. Senders(i)' \subseteq Senders(i) \ {w}
        BY <2>2, <3>5
    <3>7. /\ IsFiniteSet(Senders(i) \ {w})
          /\ Cardinality(Senders(i) \ {w}) = Cardinality(Senders(i)) - 1
        BY <1>2, <3>5, FS_RemoveElement
    <3>8. /\ Cardinality(Senders(i)') <= Cardinality(Senders(i) \ {w})
          /\ Cardinality(Senders(i)') \in Nat
        BY <3>6, <3>7, FS_Subset, FS_CardinalityType
    <3> QED
        BY <1>2, <1>3, <2>1, <3>3, <3>7, <3>8
  <2>4. CASE ~\E w \in Workers : Outcome(w) /\ pass[w].id = i
    <3>1. recorded'[i] = recorded[i]
      <4>1. ASSUME NEW w \in Workers, Outcome(w) PROVE recorded'[i] = recorded[i]
        <5>1. PICK status \in {"pending", "succeeded", "failed"}, due \in Nat : Recorded(w, status, due)
            BY <4>1, Outcomes DEF Outcome
        <5> QED
            BY <1>1, <2>4, <4>1, <5>1, RecordedDoes
      <4> QED
          BY <4>1, TalliesKept
    <3>2. /\ Cardinality(Senders(i)') <= Cardinality(Senders(i))
          /\ Cardinality(Senders(i)') \in Nat
        BY <1>2, <2>2, FS_Subset, FS_CardinalityType
    <3> QED
        BY <1>2, <1>3, <2>1, <3>1, <3>2
  <2> QED
      BY <2>3, <2>4
<1> QED
    BY <1>4, <1>5

LEMMA CountedStep == ASSUME Basics, Counted, [Next]_vars PROVE Counted'
<1> SUFFICES ASSUME NEW i \in Made', spent'.redeliveries = 0 PROVE deliveries'[i].attempts = recorded'[i]
    BY DEF Counted
<1>1. TypeOK /\ Basics' /\ i \in Ids /\ spent.redeliveries = 0
    BY NextBasics, SpentGrows DEF Basics, TypeOK
<1>2. CASE \E w \in Workers : Outcome(w)
  <2>1. PICK w \in Workers : Outcome(w)
      BY <1>2
  <2>2. PICK status \in {"pending", "succeeded", "failed"}, due \in Nat : Recorded(w, status, due)
      BY <2>1, Outcomes DEF Outcome
  <2>3. i \in Made /\ deliveries[i].attempts = recorded[i]
      BY <1>1, <2>2, RecordedDoes DEF Counted
  <2>4. CASE i = pass[w].id
    <3>1. /\ deliveries'[i] = [status |-> status, attempts |-> pass[w].attempts + 1, due |-> due]
          /\ deliveries[i].attempts = pass[w].attempts /\ recorded'[i] = recorded[i] + 1
        BY <2>2, <2>4, RecordedDoes
    <3>2. deliveries'[i].attempts = pass[w].attempts + 1
        BY <3>1
    <3> QED
        BY <2>3, <3>1, <3>2
  <2>5. CASE i # pass[w].id
      BY <1>1, <2>2, <2>3, <2>5, RecordedDoes
  <2> QED
      BY <2>4, <2>5
<1>3. CASE ~\E w \in Workers : Outcome(w)
  <2>1. recorded' = recorded
      BY <1>3, TalliesKept
  <2>2. CASE i \notin Made
      BY <1>1, <2>1, <2>2, DeliveryMade DEF Basics, Founded
  <2>3. CASE i \in Made
    <3>1. deliveries[i].attempts = recorded[i]
        BY <1>1, <2>3 DEF Counted
    <3>2. ~RedeliverWrite
        BY <1>1 DEF Basics, Founded, RedeliverWrite
    <3>3. deliveries'[i].attempts = deliveries[i].attempts
        BY <1>1, <1>3, <2>3, <3>2, DeliveryKept, ClaimTakes
    <3> QED
        BY <2>1, <3>1, <3>3
  <2> QED
      BY <2>2, <2>3
<1> QED
    BY <1>2, <1>3
-----------------------------------------------------------------------------
(* One sender at a time. *)

LEMMA TimePasses == ASSUME Basics, [Next]_vars PROVE (now' = now \/ Tick) /\ now <= now' /\ now' \in Nat
<1>1. now \in Nat
    BY DEF Basics, TypeOK
<1>2. ASSUME NEW w \in Workers, Work(w) PROVE now' = now
    BY <1>2 DEF Work, FanOut, Claim, PassOver, Answer, RecordRead, RecordDropped, Crash, Send,
       RecordSuccess, RecordRetry, RecordFailure, Recorded
<1>3. now' = now \/ Tick
    BY <1>2 DEF Next, vars, Insert, Settle, Arrive, Administer, Create, RedeliverRead,
       RedeliverWrite, SubscriptionRead, ResumeWrite, SwitchWrite
<1>4. now' = now \/ now' = now + 1
    BY <1>3 DEF Tick
<1> QED
    BY <1>1, <1>3, <1>4

LEMMA SendingIsSent == ASSUME TypeOK, NEW w \in Workers, Work(w), ~Send(w) PROVE pass'[w].at # "sending"
<1>1. pass \in [Workers -> Pass] /\ pass[w] \in Pass
    BY DEF TypeOK
<1>2. CASE FanOut(w)
    BY <1>1, <1>2 DEF FanOut, Pass
<1>3. CASE Claim(w)
    BY <1>3, ClaimTakes
<1>4. CASE PassOver(w) \/ Crash(w)
    BY <1>1, <1>4 DEF PassOver, Crash, Idle
<1>5. CASE \E ok \in BOOLEAN : Answer(w, ok)
    BY <1>1, <1>5 DEF Answer, Pass
<1>6. CASE RecordRead(w)
    BY <1>1, <1>6 DEF RecordRead, Pass
<1>7. CASE RecordDropped(w) \/ RecordSuccess(w) \/ RecordRetry(w) \/ RecordFailure(w)
  <2>1. pass' = [pass EXCEPT ![w] = Onward(w)]
      BY <1>7, OnwardIsAPass DEF RecordDropped, RecordSuccess, RecordRetry, RecordFailure, Recorded
  <2> QED
      BY <1>1, <2>1, OnwardIsAPass
<1> QED
    BY <1>2, <1>3, <1>4, <1>5, <1>6, <1>7 DEF Work

LEMMA EndsInTimeStep == ASSUME Basics, EndsInTime, [Next]_vars PROVE EndsInTime'
<1> SUFFICES ASSUME NEW w \in Workers, pass'[w].at = "sending"
             PROVE  /\ now' <= pass'[w].since + Deadline
                    /\ pass'[w].since + Margin + Deadline <= pass'[w].lease
    BY DEF EndsInTime
<1>1. TypeOK /\ pass[w].since \in Nat /\ now \in Nat /\ Deadline \in Nat /\ Margin \in Nat
    BY Workings, TimesAssumption DEF Basics, TypeOK
<1>2. CASE pass'[w] = pass[w]
  <2>1. now <= pass[w].since + Deadline /\ pass[w].since + Margin + Deadline <= pass[w].lease
      BY <1>2 DEF EndsInTime
  <2>2. CASE Tick
    <3>1. now < pass[w].since + Deadline /\ now' = now + 1
        BY <1>2, <2>2 DEF Tick
    <3> QED
        BY <1>1, <1>2, <2>1, <3>1
  <2> QED
      BY <1>2, <2>1, <2>2, TimePasses
<1>3. CASE Send(w)
  <2>1. pass'[w].since = now /\ now' = now /\ pass'[w].lease = pass[w].lease
      BY <1>1, <1>3, SendDoes
  <2>2. now + Margin + Deadline <= pass[w].lease
      BY <1>3 DEF Send, InTime
  <2> QED
      BY <1>1, <2>1, <2>2
<1>4. CASE Work(w) /\ ~Send(w)
    BY <1>1, <1>4, SendingIsSent
<1> QED
    BY <1>2, <1>3, <1>4, WorkMoves, OthersMoveNoPass

LEMMA LeasedStep == ASSUME Basics, Leased, [Next]_vars PROVE Leased'
<1> SUFFICES ASSUME spent'.redeliveries = 0
             PROVE  /\ \A w \in Workers, i \in Made' :
                         Holds(w, i)' => \/ deliveries'[i].status = "pending" /\ deliveries'[i].due = pass'[w].lease
                                         \/ pass'[w].lease <= now'
                    /\ \A v, w \in Workers, i \in Made' :
                         v # w /\ Holds(v, i)' /\ Holds(w, i)' => pass'[v].lease # pass'[w].lease
    BY DEF Leased
<1>1. TypeOK /\ spent.redeliveries = 0 /\ ~RedeliverWrite /\ Made' \subseteq Nat
  <2>1. TypeOK /\ TypeOK' /\ spent.redeliveries = 0
      BY NextBasics, SpentGrows DEF Basics
  <2>2. ~RedeliverWrite
      BY <2>1 DEF Basics, Founded, RedeliverWrite
  <2>3. Made' \subseteq Nat
      BY <2>1, ReadyAreIds DEF TypeOK
  <2> QED
      BY <2>1, <2>2, <2>3
<1>2. now \in Nat /\ Lease \in Nat /\ Lease > 0 /\ now <= now' /\ now' \in Nat
    BY <1>1, TimesAssumption, TimePasses DEF TypeOK
<1>3. ASSUME NEW w \in Workers, NEW i \in Nat, Holds(w, i)
      PROVE  /\ i \in Made
             /\ \/ deliveries[i].status = "pending" /\ deliveries[i].due = pass[w].lease
                \/ pass[w].lease <= now
    BY <1>1, <1>3 DEF Basics, Founded, Leased
<1>4. ASSUME NEW v \in Workers, NEW w \in Workers, NEW i \in Nat, v # w, Holds(v, i), Holds(w, i)
      PROVE  pass[v].lease # pass[w].lease
    BY <1>1, <1>3, <1>4 DEF Leased
<1>5. ASSUME NEW w \in Workers, NEW i \in Nat, Holds(w, i)' ,
             ~(deliveries'[i].status = "pending" /\ deliveries'[i].due = pass'[w].lease)
      PROVE  pass'[w].lease <= now'
  <2>1. CASE Claim(w)
    <3>1. i \in Taken /\ pass'[w].lease = now + Lease
        BY <1>1, <1>5, <2>1, ClaimHolds
    <3> QED
        BY <1>1, <1>5, <2>1, <3>1, ClaimTakes
  <2>2. CASE ~Claim(w)
    <3>1. Holds(w, i) /\ pass'[w].lease = pass[w].lease /\ pass[w].lease \in Nat
        BY <1>1, <1>5, <2>2, HoldsKept, Workings
    <3>2. i \in Made
        BY <1>3, <3>1
    <3>3. SUFFICES ASSUME ~(pass[w].lease <= now) PROVE FALSE
        BY <1>2, <3>1
    <3>4. deliveries[i].status = "pending" /\ deliveries[i].due = pass[w].lease
        BY <1>3, <3>1, <3>3
    <3>5. deliveries'[i] # deliveries[i]
        BY <1>5, <3>1, <3>4
    <3>6. CASE \E v \in Workers : Claim(v) /\ i \in Taken
      <4>1. deliveries[i].due <= now
          BY <1>1, <3>6, ClaimTakes
      <4> QED
          BY <3>3, <3>4, <4>1
    <3>7. ASSUME NEW v \in Workers, Outcome(v), pass[v].id = i PROVE FALSE
      <4>1. PICK status \in {"pending", "succeeded", "failed"}, due \in Nat : Recorded(v, status, due)
          BY <3>7, Outcomes DEF Outcome
      <4>2. pass[v].at = "record" /\ deliveries[i].due = pass[v].lease /\ pass' = [pass EXCEPT ![v] = Onward(v)]
          BY <3>7, <4>1, RecordedDoes
      <4>3. Holds(v, i)
          BY <3>7, <4>2 DEF Holds, InFlight
      <4>4. v = w
          BY <1>4, <3>1, <3>4, <4>2, <4>3
      <4>5. pass'[w].at = "send" /\ pass'[w].todo = pass[w].todo
          BY <1>1, <4>2, <4>4, OnwardIsAPass DEF TypeOK
      <4>6. PICK d \in pass[w].todo : d.id = i
          BY <1>5, <4>5 DEF Holds, InFlight
      <4> QED
          BY <3>7, <4>2, <4>4, <4>6 DEF Basics, Founded, HoldsOnce, InFlight
    <3> QED
        BY <1>1, <3>2, <3>5, <3>6, <3>7, DeliveryKept
  <2> QED
      BY <2>1, <2>2
<1>6. ASSUME NEW v \in Workers, NEW w \in Workers, NEW i \in Nat, v # w, Holds(v, i)', Holds(w, i)', Claim(v)
      PROVE  pass'[v].lease # pass'[w].lease
  <2>1. i \in Taken /\ pass'[v].lease = now + Lease
      BY <1>1, <1>6, ClaimHolds
  <2>2. Holds(w, i) /\ pass'[w].lease = pass[w].lease /\ pass[w].lease \in Nat
      BY <1>1, <1>6, ClaimHolds, Workings
  <2>3. deliveries[i].due <= now
      BY <1>1, <1>6, <2>1, ClaimTakes
  <2>4. pass[w].lease <= now
      BY <1>3, <2>2, <2>3
  <2> QED
      BY <1>2, <2>1, <2>2, <2>4
<1>7. ASSUME NEW v \in Workers, NEW w \in Workers, NEW i \in Nat, v # w, Holds(v, i)', Holds(w, i)'
      PROVE  pass'[v].lease # pass'[w].lease
  <2>1. CASE Claim(v)
      BY <1>6, <1>7, <2>1
  <2>2. CASE Claim(w)
      BY <1>6, <1>7, <2>2
  <2>3. CASE ~Claim(v) /\ ~Claim(w)
      BY <1>4, <1>7, <2>3, HoldsKept
  <2> QED
      BY <2>1, <2>2, <2>3
<1> QED
    BY <1>1, <1>5, <1>7

LEMMA NobodySendsTwice == Basics /\ Leased /\ EndsInTime => OneSenderAtATime
<1> SUFFICES ASSUME Basics, Leased, EndsInTime, NEW v \in Workers, NEW w \in Workers, v # w,
                    pass[v].at = "sending", pass[w].at = "sending", pass[v].id = pass[w].id,
                    ~(spent.redeliveries > 0)
             PROVE  FALSE
    BY DEF OneSenderAtATime
<1>1. TypeOK /\ spent.redeliveries = 0 /\ now \in Nat
    BY DEF Basics, TypeOK
<1> DEFINE i == pass[v].id
<1>2. Holds(v, i) /\ Holds(w, i) /\ i \in Made
    BY <1>1, Workings DEF Holds, InFlight, Basics, Founded
<1>3. ASSUME NEW u \in Workers, pass[u].at = "sending" PROVE ~(pass[u].lease <= now)
  <2>1. now <= pass[u].since + Deadline /\ pass[u].since + Margin + Deadline <= pass[u].lease
      BY <1>3 DEF EndsInTime
  <2>2. pass[u].since \in Nat /\ pass[u].lease \in Nat /\ Deadline \in Nat /\ Margin \in Nat /\ Margin # 0
      BY <1>1, Workings, TimesAssumption
  <2> QED
      BY <1>1, <2>1, <2>2
<1>4. deliveries[i].due = pass[v].lease /\ deliveries[i].due = pass[w].lease
    BY <1>1, <1>2, <1>3 DEF Leased
<1>5. pass[v].lease # pass[w].lease
    BY <1>1, <1>2 DEF Leased
<1> QED
    BY <1>4, <1>5
-----------------------------------------------------------------------------
(* The count of failures. *)

LEMMA SubscriptionKept ==
    ASSUME Basics, [Next]_vars
    PROVE  \/ /\ sub'.failures = sub.failures /\ sub'.paused = sub.paused
           \/ \E w \in Workers : Outcome(w)
           \/ \E active \in BOOLEAN : Create(active)
           \/ ResumeWrite \/ SwitchWrite
<1>1. TypeOK
    BY DEF Basics
<1>2. CASE UNCHANGED sub
    BY <1>2
<1>3. ASSUME NEW w \in Workers, FanOut(w), Live, Ready # {}
      PROVE  sub'.failures = sub.failures /\ sub'.paused = sub.paused
  <2>1. PICK m \in Ready : sub' = [sub EXCEPT !.cursor = m]
      BY <1>1, <1>3, CursorMoves
  <2>2. sub \in Subscription
      BY <1>1 DEF TypeOK
  <2> QED
      BY <2>1, <2>2 DEF Subscription
<1>4. ASSUME NEW w \in Workers, Work(w)
      PROVE  UNCHANGED sub \/ (FanOut(w) /\ Live /\ Ready # {}) \/ Outcome(w)
    BY <1>4 DEF Work, FanOut, Claim, PassOver, Answer, RecordRead, RecordDropped, Crash, Outcome, Send
<1>5. \/ \E w \in Workers : Work(w)
      \/ UNCHANGED sub
      \/ \E active \in BOOLEAN : Create(active)
      \/ ResumeWrite \/ SwitchWrite
    BY DEF Next, vars, Insert, Settle, Arrive, Administer, RedeliverRead, RedeliverWrite,
       SubscriptionRead, Tick
<1> QED
    BY <1>2, <1>3, <1>4, <1>5

LEMMA TalliedStep == ASSUME Basics, Tallied, [Next]_vars PROVE Tallied'
<1> SUFFICES ASSUME spent'.switches = 0
             PROVE  /\ \A n \in 0..Len(ended') : LastFailed(n)' => n <= sub'.failures
                    /\ sub'.failures >= PauseAfter => sub'.paused
    BY DEF Tallied
<1>1. TypeOK /\ spent.switches = 0 /\ ended \in Seq(End) /\ Len(ended) \in Nat
    BY SpentGrows DEF Basics, TypeOK
<1>2. /\ \A n \in 0..Len(ended) : LastFailed(n) => n <= sub.failures
      /\ sub.failures >= PauseAfter => sub.paused
    BY <1>1 DEF Tallied
<1>3. sub.failures \in Nat /\ sub.paused \in BOOLEAN /\ PauseAfter \in Nat \ {0}
    BY <1>1, LimitsAssumption DEF TypeOK, Subscription
<1>4. ~ResumeWrite /\ ~SwitchWrite
    BY <1>1 DEF Basics, Founded, ResumeWrite, SwitchWrite
<1>5. CASE \E w \in Workers : Outcome(w)
  <2>1. PICK w \in Workers : Outcome(w)
      BY <1>5
  <2>2. \/ UNCHANGED <<sub, ended>>
        \/ /\ sub'.failures \in {0, sub.failures} /\ sub'.paused = sub.paused
           /\ ended' = Append(ended, [id |-> pass[w].id, how |-> "succeeded"])
        \/ /\ sub'.failures = sub.failures + 1
           /\ sub'.paused = (sub.paused \/ sub.failures + 1 >= PauseAfter)
           /\ ended' = Append(ended, [id |-> pass[w].id, how |-> "failed"])
      BY <2>1, Outcomes DEF Outcome
  <2>3. CASE UNCHANGED <<sub, ended>>
      BY <1>2, <2>3 DEF LastFailed
  <2>4. CASE /\ sub'.failures \in {0, sub.failures} /\ sub'.paused = sub.paused
             /\ ended' = Append(ended, [id |-> pass[w].id, how |-> "succeeded"])
    <3>1. Len(ended') = Len(ended) + 1 /\ DOMAIN ended' = 1..(Len(ended) + 1)
          /\ ended'[Len(ended) + 1].how = "succeeded"
        BY <1>1, <2>4
    <3>2. ASSUME NEW n \in 0..Len(ended'), LastFailed(n)' PROVE n = 0
        BY <1>1, <3>1, <3>2 DEF LastFailed
    <3>3. sub'.failures \in Nat
        BY <1>3, <2>4
    <3>4. sub'.failures >= PauseAfter => sub'.paused
        BY <1>2, <1>3, <2>4
    <3> QED
        BY <3>2, <3>3, <3>4
  <2>5. CASE /\ sub'.failures = sub.failures + 1
             /\ sub'.paused = (sub.paused \/ sub.failures + 1 >= PauseAfter)
             /\ ended' = Append(ended, [id |-> pass[w].id, how |-> "failed"])
    <3>1. /\ Len(ended') = Len(ended) + 1 /\ DOMAIN ended' = 1..(Len(ended) + 1)
          /\ DOMAIN ended = 1..Len(ended)
          /\ \A m \in 1..Len(ended) : ended'[m] = ended[m]
        BY <1>1, <2>5
    <3>2. ASSUME NEW n \in 0..Len(ended'), LastFailed(n)' PROVE n <= sub'.failures
      <4>1. CASE n = 0
          BY <1>3, <2>5, <4>1
      <4>2. CASE n # 0
        <5>1. n - 1 \in 0..Len(ended)
            BY <1>1, <3>1, <4>2
        <5>2. ASSUME NEW m \in DOMAIN ended, m > Len(ended) - (n - 1) PROVE ended[m].how = "failed"
          <6>1. m \in DOMAIN ended' /\ m > Len(ended') - n /\ ended'[m] = ended[m]
              BY <1>1, <3>1, <5>1, <5>2
          <6> QED
              BY <3>2, <6>1 DEF LastFailed
        <5>3. n - 1 <= sub.failures
            BY <1>2, <5>1, <5>2 DEF LastFailed
        <5> QED
            BY <1>3, <2>5, <5>1, <5>3
      <4> QED
          BY <4>1, <4>2
    <3>3. sub'.failures >= PauseAfter => sub'.paused
        BY <1>3, <2>5
    <3> QED
        BY <3>2, <3>3
  <2> QED
      BY <2>2, <2>3, <2>4, <2>5
<1>6. CASE ~\E w \in Workers : Outcome(w)
  <2>1. ended' = ended
      BY <1>6, TalliesKept
  <2>2. CASE sub'.failures = sub.failures /\ sub'.paused = sub.paused
      BY <1>2, <2>1, <2>2 DEF LastFailed
  <2>3. ASSUME NEW active \in BOOLEAN, Create(active)
        PROVE  /\ \A n \in 0..Len(ended') : LastFailed(n)' => n <= sub'.failures
               /\ sub'.failures >= PauseAfter => sub'.paused
    <3>1. ended = <<>>
        BY <2>3 DEF Create, Basics, Unborn
    <3>2. sub'.failures = 0
        BY <2>3 DEF Create
    <3>3. Len(ended') = 0
        BY <2>1, <3>1
    <3> QED
        BY <1>3, <3>2, <3>3
  <2> QED
      BY <1>4, <1>6, <2>2, <2>3, SubscriptionKept
<1> QED
    BY <1>5, <1>6

LEMMA TheGoneArePaused == Basics /\ Tallied => GoneIsPaused
<1> SUFFICES ASSUME Basics, Tallied, spent.switches = 0, InARow(Len(ended)) PROVE sub.paused
    BY DEF GoneIsPaused
<1>1. ended \in Seq(End) /\ Len(ended) \in Nat /\ sub.failures \in Nat /\ DOMAIN ended = 1..Len(ended)
    BY DEF Basics, TypeOK, Subscription
<1>2. PauseAfter \in Nat /\ PauseAfter \in 0..Len(ended)
    BY <1>1, LimitsAssumption DEF InARow
<1>3. ASSUME NEW m \in DOMAIN ended, m > Len(ended) - PauseAfter PROVE ended[m].how = "failed"
  <2>1. m \in (Len(ended) - PauseAfter + 1)..Len(ended)
      BY <1>1, <1>2, <1>3
  <2> QED
      BY <2>1 DEF InARow
<1>4. PauseAfter <= sub.failures
    BY <1>2, <1>3 DEF Tallied, LastFailed
<1> QED
    BY <1>1, <1>2, <1>4 DEF Tallied
-----------------------------------------------------------------------------
(* The theorems that hold whatever the grace. *)

\* The inductive invariant: what is claimed, sent, received and recorded hangs
\* together, every attempt is counted once, every claim has its lease, and no
\* failure is missed by the count.
THEOREM Invariance == Spec => []Inv
<1>1. Init => Inv
  <2> SUFFICES ASSUME Init PROVE Inv
      OBVIOUS
  <2>1. Basics
      BY InitBasics
  <2>2. Made = {} /\ ended = <<>> /\ sub.failures = 0 /\ \A w \in Workers : pass[w] = Idle
      BY DEF Init, Made
  <2>3. EachHasItsRequest /\ Counted
      BY <2>2 DEF EachHasItsRequest, Counted
  <2>4. Leased /\ EndsInTime
      BY <2>2 DEF Leased, EndsInTime, Idle
  <2>5. Len(ended) = 0 /\ PauseAfter \in Nat \ {0}
      BY <2>2, LimitsAssumption
  <2>6. Tallied
      BY <2>2, <2>5 DEF Tallied
  <2> QED
      BY <2>1, <2>3, <2>4, <2>6 DEF Inv
<1>2. Inv /\ [Next]_vars => Inv'
    BY NextBasics, RequestsStep, CountedStep, LeasedStep, EndsInTimeStep, TalliedStep DEF Inv
<1> QED
    BY <1>1, <1>2, PTL DEF Spec

\* record charges every attempt once: no row of webhook_attempts is without its
\* request, and without redeliveries attempt_count is their number.
THEOREM AttemptsAreCounted == Spec => []CountedOnce
<1>1. Inv => CountedOnce
  <2> SUFFICES ASSUME Inv, NEW i \in Made PROVE recorded[i] <= sent[i]
      BY DEF Inv, CountedOnce, Counted
  <2>1. recorded[i] + Cardinality(Senders(i)) <= sent[i]
      BY DEF Inv, EachHasItsRequest
  <2>2. recorded[i] \in Nat /\ sent[i] \in Nat /\ Cardinality(Senders(i)) \in Nat
      BY SendersAreFew DEF Inv, Basics, TypeOK
  <2> QED
      BY <2>1, <2>2
<1> QED
    BY <1>1, Invariance, PTL

\* The lease of claim_due and the check of run_pass keep two workers out of one
\* delivery, for any number of workers, until somebody redelivers it.
THEOREM OneSender == Spec => []OneSenderAtATime
<1>1. Inv => OneSenderAtATime
    BY NobodySendsTwice DEF Inv
<1> QED
    BY <1>1, Invariance, PTL

\* The increment of record, made in the database, pauses a subscription whose
\* last PauseAfter deliveries failed, whoever recorded them.
THEOREM DeadSubscriptionsPause == Spec => []GoneIsPaused
<1>1. Inv => GoneIsPaused
    BY TheGoneArePaused DEF Inv
<1> QED
    BY <1>1, Invariance, PTL
-----------------------------------------------------------------------------
(* What a step does to the markers, the cursor, the wire and the receiver. *)

\* A marker keeps what it says and settles once; a new one is open, and later
\* than all.
LEMMA MarkersKept ==
    ASSUME Basics, [Next]_vars
    PROVE  /\ Len(markers) <= Len(markers') /\ DOMAIN markers = 1..Len(markers) /\ Len(markers) \in Nat
           /\ DOMAIN markers' = 1..Len(markers') /\ Len(markers') \in Nat
           /\ \A i \in DOMAIN markers :
                /\ i \in DOMAIN markers' /\ markers'[i].row = markers[i].row
                /\ markers'[i].kind = markers[i].kind /\ markers'[i].at = markers[i].at
                /\ markers'[i].state = markers[i].state \/ markers[i].state = "open"
           /\ \A i \in DOMAIN markers' : i \notin DOMAIN markers =>
                Len(markers) < i /\ markers'[i].state = "open" /\ markers'[i].at = now
           /\ markers' # markers => UNCHANGED <<now, sub, born, deliveries, pass, net, log>>
<1>1. TypeOK /\ TypeOK' /\ markers \in Seq(Marker) /\ markers' \in Seq(Marker)
    BY NextBasics DEF Basics, TypeOK
<1>2. /\ DOMAIN markers = 1..Len(markers) /\ Len(markers) \in Nat
      /\ DOMAIN markers' = 1..Len(markers') /\ Len(markers') \in Nat
    BY <1>1
<1>3. CASE UNCHANGED markers
    BY <1>2, <1>3
<1>4. ASSUME NEW row \in Rows, NEW kind \in Kinds, Insert(row, kind)
      PROVE  /\ Len(markers') = Len(markers) + 1
             /\ \A i \in DOMAIN markers : i \in DOMAIN markers' /\ markers'[i] = markers[i]
             /\ markers'[Len(markers) + 1].state = "open" /\ markers'[Len(markers) + 1].at = now
             /\ UNCHANGED <<now, sub, born, deliveries, pass, net, log>>
  <2> DEFINE new == [row |-> row, kind |-> kind, at |-> now, state |-> "open"]
  <2>1. markers' = Append(markers, new) /\ UNCHANGED <<now, sub, born, deliveries, pass, net, log>>
      BY <1>4 DEF Insert
  <2>2. new.state = "open" /\ new.at = now
      OBVIOUS
  <2> HIDE DEF new
  <2>3. /\ Len(markers') = Len(markers) + 1 /\ markers'[Len(markers) + 1] = new
        /\ \A i \in 1..Len(markers) : markers'[i] = markers[i]
      BY <1>1, <2>1
  <2> QED
      BY <1>2, <2>1, <2>2, <2>3
<1>5. ASSUME NEW k \in DOMAIN markers, NEW state \in {"committed", "gone"}, Settle(k, state)
      PROVE  /\ Len(markers') = Len(markers)
             /\ \A i \in DOMAIN markers : i # k => markers'[i] = markers[i]
             /\ markers[k].state = "open" /\ markers'[k].row = markers[k].row
             /\ markers'[k].kind = markers[k].kind /\ markers'[k].at = markers[k].at
             /\ UNCHANGED <<now, sub, born, deliveries, pass, net, log>>
  <2> DEFINE new == [markers[k] EXCEPT !.state = state]
  <2>1. /\ markers' = [markers EXCEPT ![k] = new] /\ markers[k].state = "open"
        /\ UNCHANGED <<now, sub, born, deliveries, pass, net, log>>
      BY <1>5 DEF Settle
  <2>2. new.row = markers[k].row /\ new.kind = markers[k].kind /\ new.at = markers[k].at
      BY <1>1 DEF Marker
  <2> HIDE DEF new
  <2>3. Len(markers') = Len(markers) /\ markers'[k] = new /\ \A i \in DOMAIN markers : i # k => markers'[i] = markers[i]
      BY <1>1, <2>1
  <2> QED
      BY <2>1, <2>2, <2>3
<1>6. CASE \E row \in Rows, kind \in Kinds : Insert(row, kind)
  <2>1. /\ Len(markers') = Len(markers) + 1
        /\ \A i \in DOMAIN markers : i \in DOMAIN markers' /\ markers'[i] = markers[i]
        /\ markers'[Len(markers) + 1].state = "open" /\ markers'[Len(markers) + 1].at = now
        /\ UNCHANGED <<now, sub, born, deliveries, pass, net, log>>
      BY <1>4, <1>6
  <2>2. \A i \in DOMAIN markers' : i \notin DOMAIN markers => i = Len(markers) + 1
      BY <1>2, <2>1
  <2> QED
      BY <1>2, <2>1, <2>2
<1>7. CASE \E k \in DOMAIN markers, state \in {"committed", "gone"} : Settle(k, state)
  <2>1. PICK k \in DOMAIN markers, state \in {"committed", "gone"} : Settle(k, state)
      BY <1>7
  <2>2. /\ Len(markers') = Len(markers)
        /\ \A i \in DOMAIN markers : i # k => markers'[i] = markers[i]
        /\ markers[k].state = "open" /\ markers'[k].row = markers[k].row
        /\ markers'[k].kind = markers[k].kind /\ markers'[k].at = markers[k].at
        /\ UNCHANGED <<now, sub, born, deliveries, pass, net, log>>
      BY <1>5, <2>1
  <2>3. DOMAIN markers' = DOMAIN markers /\ Len(markers) <= Len(markers')
      BY <1>2, <2>2
  <2>4. \A i \in DOMAIN markers :
          /\ i \in DOMAIN markers' /\ markers'[i].row = markers[i].row
          /\ markers'[i].kind = markers[i].kind /\ markers'[i].at = markers[i].at
          /\ markers'[i].state = markers[i].state \/ markers[i].state = "open"
      BY <2>2, <2>3
  <2> QED
      BY <1>2, <2>2, <2>3, <2>4
<1>8. ASSUME NEW w \in Workers, Work(w) PROVE UNCHANGED markers
    BY <1>8 DEF Work, FanOut, Claim, PassOver, Answer, RecordRead, RecordDropped, Crash, Send,
       RecordSuccess, RecordRetry, RecordFailure, Recorded
<1> QED
    BY <1>3, <1>6, <1>7, <1>8 DEF Next, vars, Arrive, Administer, Create, RedeliverRead, RedeliverWrite,
       SubscriptionRead, ResumeWrite, SwitchWrite, Tick

\* The cursor moves when markers are fanned out, and when the subscription is
\* created, before anything is made.
LEMMA CursorKept ==
    ASSUME Basics, [Next]_vars
    PROVE  \/ sub'.cursor = sub.cursor /\ UNCHANGED born /\ Made' = Made
           \/ /\ UNCHANGED <<now, markers, born>>
              /\ Made' = Made \cup {j \in Ready : markers[j].kind \in Wanted}
              /\ sub'.cursor \in Ready /\ \A j \in Ready : j <= sub'.cursor
           \/ /\ UNCHANGED markers /\ Made = {} /\ Made' = {} /\ sub'.cursor = born'.first
              /\ sub'.cursor \in 0..Len(markers)
<1>1. TypeOK /\ sub \in Subscription
    BY DEF Basics, TypeOK
<1>2. ASSUME NEW w \in Workers, FanOut(w), Live, Ready # {}
      PROVE  /\ UNCHANGED <<now, markers, born>>
             /\ Made' = Made \cup {j \in Ready : markers[j].kind \in Wanted}
             /\ sub'.cursor \in Ready /\ \A j \in Ready : j <= sub'.cursor
  <2>1. PICK m \in Ready : sub' = [sub EXCEPT !.cursor = m] /\ \A j \in Ready : j <= m
      BY <1>1, <1>2, CursorMoves
  <2>2. sub'.cursor = m
      BY <1>1, <2>1 DEF Subscription
  <2>3. UNCHANGED <<now, markers, born>>
      BY <1>2 DEF FanOut
  <2> QED
      BY <1>1, <1>2, <2>1, <2>2, <2>3, FanOutMakes
<1>3. ASSUME NEW active \in BOOLEAN, Create(active)
      PROVE  /\ UNCHANGED markers /\ Made = {} /\ Made' = {} /\ sub'.cursor = born'.first
             /\ sub'.cursor \in 0..Len(markers)
  <2>1. Made = {} /\ UNCHANGED <<markers, deliveries>>
      BY <1>3 DEF Create, Basics, Unborn
  <2>2. PICK newest \in 0..Len(markers) :
          /\ sub' = [active |-> active, paused |-> FALSE, failures |-> 0, cursor |-> newest]
          /\ born' = [yet |-> TRUE, first |-> newest]
      BY <1>1, <1>3, NewestExists
  <2>3. Made' = {}
      BY <2>1 DEF Made
  <2>4. sub'.cursor = newest /\ born'.first = newest
      BY <2>2
  <2> QED
      BY <2>1, <2>3, <2>4
<1>4. ASSUME ~\E w \in Workers : FanOut(w) /\ Live /\ Ready # {}
      PROVE  Made' = Made
    BY <1>4, DeliveryKept, DeliveryMade
<1>5. ASSUME NEW w \in Workers, Work(w), ~(FanOut(w) /\ Live /\ Ready # {})
      PROVE  sub'.cursor = sub.cursor /\ UNCHANGED born
  <2>1. CASE Outcome(w)
    <3>1. PICK status \in {"pending", "succeeded", "failed"}, due \in Nat :
            Recorded(w, status, due) /\ sub'.cursor = sub.cursor
        BY <2>1, Outcomes DEF Outcome
    <3> QED
        BY <3>1 DEF Recorded
  <2>2. CASE ~Outcome(w)
      BY <1>5, <2>2 DEF Work, FanOut, Claim, PassOver, Answer, RecordRead, RecordDropped, Crash, Outcome, Send
  <2> QED
      BY <2>1, <2>2
<1>6. CASE ResumeWrite \/ SwitchWrite
    BY <1>1, <1>6 DEF ResumeWrite, SwitchWrite, Subscription, Made
<1>7. CASE UNCHANGED <<sub, born, deliveries>>
    BY <1>7 DEF Made
<1>8. \/ \E w \in Workers : Work(w)
      \/ UNCHANGED <<sub, born, deliveries>>
      \/ UNCHANGED <<sub, born>> /\ RedeliverWrite
      \/ \E active \in BOOLEAN : Create(active)
      \/ ResumeWrite \/ SwitchWrite
    BY DEF Next, vars, Insert, Settle, Arrive, Administer, RedeliverRead, RedeliverWrite,
       SubscriptionRead, Tick
<1>9. CASE UNCHANGED <<sub, born>> /\ RedeliverWrite
    BY <1>1, <1>9 DEF RedeliverWrite, Made, TypeOK
<1> QED
    BY <1>2, <1>3, <1>4, <1>5, <1>6, <1>7, <1>8, <1>9

\* What has been received, or has failed for good, stays so.
LEMMA SettledStays ==
    ASSUME Basics, [Next]_vars, NEW i
    PROVE  (Received(i) => Received(i)') /\ (Lost(i) => Lost(i)')
<1>1. arrived \in Seq(Ids) /\ ended \in Seq(End)
    BY DEF Basics, TypeOK
<1>2. UNCHANGED arrived \/ \E r \in wire : arrived' = Append(arrived, r[1])
  <2>1. ASSUME NEW w \in Workers, Work(w) PROVE UNCHANGED arrived
      BY <2>1 DEF Work, FanOut, Claim, PassOver, Answer, RecordRead, RecordDropped, Crash, Send,
         RecordSuccess, RecordRetry, RecordFailure, Recorded, net
  <2> QED
      BY <2>1 DEF Next, vars, Insert, Settle, Arrive, Administer, Create, RedeliverRead, RedeliverWrite,
       SubscriptionRead, ResumeWrite, SwitchWrite, Tick, net
<1>3. Received(i) => Received(i)'
  <2>1. ASSUME NEW x, arrived' = Append(arrived, x), Received(i) PROVE Received(i)'
      BY <1>1, <2>1 DEF Received
  <2> QED
      BY <1>2, <2>1 DEF Received
<1>4. UNCHANGED ended \/ \E e : ended' = Append(ended, e)
    BY TalliesKept, Outcomes DEF Outcome
<1>5. Lost(i) => Lost(i)'
  <2>1. ASSUME NEW x, ended' = Append(ended, x), Lost(i) PROVE Lost(i)'
      BY <1>1, <2>1 DEF Lost
  <2> QED
      BY <1>4, <2>1 DEF Lost
<1> QED
    BY <1>3, <1>5

LEMMA WireKept ==
    ASSUME Basics, [Next]_vars
    PROVE  \/ UNCHANGED <<wire, arrived>>
           \/ \E w \in Workers : Send(w)
           \/ \E r \in wire : Arrive(r)
<1>1. ASSUME NEW w \in Workers, Work(w) PROVE UNCHANGED <<wire, arrived>> \/ Send(w)
    BY <1>1 DEF Work, FanOut, Claim, PassOver, Answer, RecordRead, RecordDropped, Crash,
       RecordSuccess, RecordRetry, RecordFailure, Recorded, net
<1> QED
    BY <1>1 DEF Next, vars, Insert, Settle, Administer, Create, RedeliverRead, RedeliverWrite,
     SubscriptionRead, ResumeWrite, SwitchWrite, Tick, net

LEMMA ArriveReceives == ASSUME Basics, NEW r \in wire, Arrive(r) PROVE Received(r[1])'
<1>1. arrived \in Seq(Ids)
    BY DEF Basics, TypeOK
<1>2. CASE Received(r[1])
    BY <1>2 DEF Arrive, Received
<1>3. CASE ~Received(r[1])
  <2>1. arrived' = Append(arrived, r[1])
      BY <1>3 DEF Arrive, Received
  <2>2. Len(arrived) + 1 \in DOMAIN arrived' /\ arrived'[Len(arrived) + 1] = r[1]
      BY <1>1, <2>1
  <2> QED
      BY <2>2 DEF Received
<1> QED
    BY <1>2, <1>3
-----------------------------------------------------------------------------
(* Nothing is skipped. *)

LEMMA MarkersSayWhen == ASSUME markers \in Seq(Marker), NEW i \in DOMAIN markers PROVE markers[i].at \in Nat
<1>1. markers[i] \in Marker
    OBVIOUS
<1> QED
    BY <1>1 DEF Marker

LEMMA TimelyStep == ASSUME Basics, Timely, [Next]_vars PROVE Timely'
<1>1. now \in Nat /\ CommitWithin \in Nat /\ markers \in Seq(Marker) /\ markers' \in Seq(Marker)
    BY NextBasics, TimesAssumption DEF Basics, TypeOK
<1>2. \A i \in DOMAIN markers : markers[i].at \in Nat
    BY <1>1, MarkersSayWhen
<1>3. now <= now' /\ now' \in Nat
    BY TimePasses
<1>4. markers' # markers => now' = now
    BY MarkersKept
<1>5. ASSUME NEW i \in DOMAIN markers' PROVE markers'[i].at <= now'
    BY <1>1, <1>2, <1>3, <1>5, MarkersKept DEF Timely
<1>6. ASSUME NEW i \in DOMAIN markers', markers'[i].state = "open"
      PROVE  now' <= markers'[i].at + CommitWithin
  <2>1. CASE i \notin DOMAIN markers
    <3>1. markers'[i].at = now /\ now' = now
        BY <1>4, <1>6, <2>1, MarkersKept
    <3> QED
        BY <1>1, <3>1
  <2>2. CASE i \in DOMAIN markers
    <3>1. markers[i].state = "open" /\ markers'[i].at = markers[i].at
        BY <1>6, <2>2, MarkersKept
    <3>2. now <= markers[i].at + CommitWithin
        BY <2>2, <3>1 DEF Timely
    <3>3. CASE Tick
      <4>1. now < markers[i].at + CommitWithin /\ now' = now + 1
          BY <2>2, <3>1, <3>3 DEF Tick
      <4> QED
          BY <1>1, <1>2, <2>2, <3>1, <4>1
    <3> QED
        BY <3>1, <3>2, <3>3, TimePasses
  <2> QED
      BY <2>1, <2>2
<1>7. ASSUME NEW i \in DOMAIN markers', NEW j \in DOMAIN markers', i <= j
      PROVE  markers'[i].at <= markers'[j].at
  <2>1. CASE j \in DOMAIN markers
    <3>1. i \in DOMAIN markers
        BY <1>7, <2>1, MarkersKept
    <3> QED
        BY <1>7, <2>1, <3>1, MarkersKept DEF Timely
  <2>2. CASE j \notin DOMAIN markers
    <3>1. markers'[j].at = now /\ now' = now
        BY <1>4, <2>2, MarkersKept
    <3> QED
        BY <1>5, <3>1
  <2> QED
      BY <2>1, <2>2
<1> QED
    BY <1>5, <1>6, <1>7 DEF Timely

\* A marker no later than one that is ready is old enough to have settled.
LEMMA ReadyHaveSettled ==
    ASSUME Basics, Timely, CommitWithin < Grace, NEW m \in Ready, NEW i \in DOMAIN markers, i <= m
    PROVE  markers[i].state # "open"
<1>1. m \in DOMAIN markers /\ markers[m].at + Grace <= now /\ now \in Nat /\ markers \in Seq(Marker)
  <2>1. TypeOK /\ Ready \subseteq DOMAIN markers /\ Ready \subseteq Nat
      BY ReadyAreIds DEF Basics
  <2>2. m <= m
      BY <2>1
  <2> QED
      BY <2>1, <2>2 DEF Ready, TypeOK
<1>2. markers[m].at \in Nat /\ markers[i].at \in Nat /\ Grace \in Nat /\ CommitWithin \in Nat
    BY <1>1, TimesAssumption, MarkersSayWhen
<1>3. markers[i].at <= markers[m].at
    BY <1>1 DEF Timely
<1>4. markers[i].state = "open" => now <= markers[i].at + CommitWithin
    BY DEF Timely
<1> QED
    BY <1>1, <1>2, <1>3, <1>4

LEMMA PassedStep == ASSUME Basics, Timely, Passed, CommitWithin < Grace, [Next]_vars PROVE Passed'
<1>1. TypeOK /\ TypeOK' /\ Made \subseteq Nat /\ Ready \subseteq Nat /\ Ready \subseteq DOMAIN markers
    BY NextBasics, ReadyAreIds DEF Basics, TypeOK
<1>2. sub.cursor \in Nat /\ born.first \in Nat
    BY <1>1 DEF TypeOK, Subscription
<1>3. CASE sub'.cursor = sub.cursor /\ UNCHANGED born /\ Made' = Made
  <2>1. born'.first <= sub'.cursor /\ sub'.cursor <= Len(markers')
      BY <1>2, <1>3, MarkersKept DEF Passed
  <2>2. \A i \in Made' : born'.first < i /\ i <= sub'.cursor
      BY <1>3 DEF Passed
  <2>3. ASSUME NEW i \in DOMAIN markers', markers'[i].state = "open", born'.first < i PROVE sub'.cursor < i
    <3>1. CASE i \in DOMAIN markers
        BY <1>3, <2>3, <3>1, MarkersKept DEF Passed
    <3>2. CASE i \notin DOMAIN markers
        BY <1>2, <1>3, <2>3, <3>2, MarkersKept DEF Passed
    <3> QED
        BY <3>1, <3>2
  <2> QED
      BY <2>1, <2>2, <2>3 DEF Passed
<1>4. CASE /\ UNCHANGED <<now, markers, born>>
           /\ Made' = Made \cup {j \in Ready : markers[j].kind \in Wanted}
           /\ sub'.cursor \in Ready /\ \A j \in Ready : j <= sub'.cursor
  <2>1. \A j \in Ready : sub.cursor < j
      BY <1>1, <1>2 DEF Ready, Ahead
  <2>2. sub'.cursor \in Nat /\ sub'.cursor \in DOMAIN markers /\ sub.cursor < sub'.cursor
      BY <1>1, <1>4, <2>1
  <2>3. born'.first <= sub'.cursor /\ sub'.cursor <= Len(markers')
      BY <1>2, <1>4, <2>2, MarkersKept DEF Passed
  <2>4. ASSUME NEW i \in Made' PROVE born'.first < i /\ i <= sub'.cursor
    <3>1. CASE i \in Made
      <4>1. born.first < i /\ i <= sub.cursor /\ i \in Nat
          BY <1>1, <3>1 DEF Passed
      <4> QED
          BY <1>2, <1>4, <2>2, <4>1
    <3>2. CASE i \in Ready
      <4>1. i \in Nat /\ sub.cursor < i /\ born.first <= sub.cursor
          BY <1>1, <2>1, <3>2 DEF Passed
      <4> QED
          BY <1>2, <1>4, <3>2, <4>1
    <3> QED
        BY <1>4, <2>4, <3>1, <3>2
  <2>5. ASSUME NEW i \in DOMAIN markers', markers'[i].state = "open" PROVE sub'.cursor < i
    <3>1. i \in DOMAIN markers /\ markers[i].state = "open" /\ i \in Nat
        BY <1>4, <2>5, MarkersKept
    <3>2. ~(i <= sub'.cursor)
        BY <1>4, <3>1, ReadyHaveSettled
    <3> QED
        BY <2>2, <3>1, <3>2
  <2> QED
      BY <2>3, <2>4, <2>5 DEF Passed
<1>5. CASE /\ UNCHANGED markers /\ Made = {} /\ Made' = {} /\ sub'.cursor = born'.first
           /\ sub'.cursor \in 0..Len(markers)
    BY <1>1, <1>5, MarkersKept DEF Passed
<1> QED
    BY <1>3, <1>4, <1>5, CursorKept

LEMMA NothingSkippedStep ==
    ASSUME Basics, Timely, Passed, NothingSkipped, CommitWithin < Grace, [Next]_vars
    PROVE  NothingSkipped'
<1> SUFFICES ASSUME NEW i \in Committed', born'.first < i, i <= sub'.cursor, markers'[i].kind \in Wanted
             PROVE  i \in Made'
    BY DEF NothingSkipped
<1>1. TypeOK /\ Ready \subseteq Nat /\ Ready \subseteq DOMAIN markers
    BY ReadyAreIds DEF Basics
<1>2. sub.cursor \in Nat /\ born.first \in Nat
    BY <1>1 DEF TypeOK, Subscription
<1>3. i \in DOMAIN markers' /\ markers'[i].state = "committed" /\ i \in Nat
    BY MarkersKept DEF Committed
<1>4. i \in DOMAIN markers /\ markers[i].kind \in Wanted
    BY <1>3, MarkersKept
<1>5. CASE i \in Committed /\ i <= sub.cursor /\ born.first < i
    BY <1>4, <1>5, DeliveryKept DEF NothingSkipped
<1>6. CASE sub'.cursor = sub.cursor /\ UNCHANGED born /\ Made' = Made
  <2>1. markers[i].state # "open"
      BY <1>2, <1>3, <1>4, <1>6 DEF Passed
  <2>2. i \in Committed
      BY <1>3, <1>4, <2>1, MarkersKept DEF Committed
  <2> QED
      BY <1>5, <1>6, <2>2
<1>7. CASE /\ UNCHANGED <<now, markers, born>>
           /\ Made' = Made \cup {j \in Ready : markers[j].kind \in Wanted}
           /\ sub'.cursor \in Ready /\ \A j \in Ready : j <= sub'.cursor
  <2> DEFINE m == sub'.cursor
  <2> DEFINE seen == {k \in Committed : k > sub.cursor}
  <2>1. i \in Committed /\ born.first < i
      BY <1>3, <1>7 DEF Committed
  <2>2. CASE i <= sub.cursor
      BY <1>5, <2>1, <2>2
  <2>3. CASE ~(i <= sub.cursor)
    <3>1. i \in seen /\ m \in Ahead /\ m \in Nat
        BY <1>1, <1>2, <1>3, <1>7, <2>1, <2>3 DEF Ready
    <3>2. IsFiniteSet(seen) /\ seen \subseteq DOMAIN markers /\ DOMAIN markers \subseteq Nat
      <4>1. seen \subseteq DOMAIN markers /\ DOMAIN markers = 1..Len(markers) /\ Len(markers) \in Nat
          BY MarkersKept DEF Committed
      <4>2. IsFiniteSet(1..Len(markers))
          BY <4>1, FS_Interval
      <4> QED
          BY <4>1, <4>2, FS_Subset
    <3>3. {k \in seen : k < i} \subseteq {k \in seen : k < m} /\ IsFiniteSet({k \in seen : k < m})
      <4>1. {k \in seen : k < i} \subseteq {k \in seen : k < m}
          BY <1>3, <3>1, <3>2
      <4>2. IsFiniteSet({k \in seen : k < m})
          BY <3>2, FS_Subset
      <4> QED
          BY <4>1, <4>2
    <3>4. /\ Cardinality({k \in seen : k < i}) <= Cardinality({k \in seen : k < m})
          /\ Cardinality({k \in seen : k < i}) \in Nat /\ Cardinality({k \in seen : k < m}) \in Nat
        BY <3>3, FS_Subset, FS_CardinalityType
    <3>5. Cardinality({k \in seen : k < m}) < FanOutBatch
        BY <3>1 DEF Ahead
    <3>6. FanOutBatch \in Nat
        BY LimitsAssumption
    <3>7. Cardinality({k \in seen : k < i}) < FanOutBatch
        BY <3>4, <3>5, <3>6
    <3>8. i \in Ahead
        BY <3>1, <3>7 DEF Ahead
    <3>9. ASSUME NEW j \in Ahead, j <= i PROVE markers[j].at + Grace <= now
      <4>1. j \in Nat /\ j <= m
          BY <1>3, <3>1, <3>9, MarkersKept DEF Ahead, Committed
      <4> QED
          BY <1>7, <4>1 DEF Ready
    <3>10. i \in Ready
        BY <3>8, <3>9 DEF Ready
    <3> QED
        BY <1>4, <1>7, <3>10
  <2> QED
      BY <2>2, <2>3
<1>8. CASE /\ UNCHANGED markers /\ Made = {} /\ Made' = {} /\ sub'.cursor = born'.first
           /\ sub'.cursor \in 0..Len(markers)
    BY <1>3, <1>8
<1> QED
    BY <1>6, <1>7, <1>8, CursorKept
-----------------------------------------------------------------------------
(* Elders first. *)

LEMMA WorkTells ==
    ASSUME Basics, Truthful, NEW w \in Workers, Work(w), ~Send(w),
           pass'[w].at \in {"answered", "record"}, pass'[w].ok
    PROVE  Received(pass'[w].id)
<1>1. TypeOK /\ pass \in [Workers -> Pass] /\ pass[w] \in Pass
    BY DEF Basics, TypeOK
<1>2. ASSUME NEW ok \in BOOLEAN, Answer(w, ok) PROVE Received(pass'[w].id)
  <2>1. pass'[w] = [pass[w] EXCEPT !.at = "answered", !.ok = ok]
      BY <1>1, <1>2 DEF Answer
  <2>2. pass'[w].ok = ok /\ pass'[w].id = pass[w].id
      BY <1>1, <2>1 DEF Pass
  <2>3. pass[w].at = "sending" /\ <<pass[w].id, pass[w].nth>> \notin wire
      BY <1>2, <2>2 DEF Answer
  <2> QED
      BY <2>2, <2>3 DEF Truthful
<1>3. CASE RecordRead(w)
  <2> DEFINE p == [pass[w] EXCEPT !.at = "record", !.attempts = deliveries[pass[w].id].attempts,
                                  !.failures = sub.failures, !.since = now]
  <2>1. pass'[w] = p /\ pass[w].at = "answered"
      BY <1>1, <1>3 DEF RecordRead
  <2>2. p.ok = pass[w].ok /\ p.id = pass[w].id
      BY <1>1 DEF Pass
  <2> QED
      BY <2>1, <2>2 DEF Truthful
<1>4. CASE FanOut(w)
    BY <1>1, <1>4 DEF FanOut, Pass
<1>5. CASE Claim(w)
    BY <1>1, <1>5, ClaimTakes
<1>6. CASE PassOver(w) \/ Crash(w)
    BY <1>1, <1>6 DEF PassOver, Crash, Idle
<1>7. CASE RecordDropped(w) \/ RecordSuccess(w) \/ RecordRetry(w) \/ RecordFailure(w)
  <2>1. pass' = [pass EXCEPT ![w] = Onward(w)]
      BY <1>1, <1>7, OnwardIsAPass DEF RecordDropped, RecordSuccess, RecordRetry, RecordFailure, Recorded
  <2> QED
      BY <1>1, <2>1, OnwardIsAPass
<1> QED
    BY <1>2, <1>3, <1>4, <1>5, <1>6, <1>7 DEF Work

LEMMA TruthfulStep == ASSUME Basics, Truthful, [Next]_vars PROVE Truthful'
<1>1. TypeOK
    BY DEF Basics
<1>2. ASSUME NEW i \in Made', deliveries'[i].status # "pending" PROVE Received(i)' \/ Lost(i)'
  <2>1. CASE i \notin Made
      BY <1>2, <2>1, DeliveryMade
  <2>2. CASE i \in Made /\ deliveries[i].status # "pending"
      BY <2>2, SettledStays DEF Truthful
  <2>3. CASE i \in Made /\ deliveries[i].status = "pending"
    <3>1. ASSUME NEW w \in Workers, Outcome(w), pass[w].id = i PROVE Received(i)' \/ Lost(i)'
      <4>1. PICK status \in {"pending", "succeeded", "failed"}, due \in Nat :
              /\ Recorded(w, status, due)
              /\ status = "succeeded" => pass[w].ok
              /\ status = "failed" => ended' = Append(ended, [id |-> pass[w].id, how |-> "failed"])
          BY <3>1, Outcomes DEF Outcome
      <4>2. pass[w].at = "record" /\ deliveries'[i].status = status
        <5>1. /\ pass[w].at = "record"
              /\ deliveries'[i] = [status |-> status, attempts |-> pass[w].attempts + 1, due |-> due]
            BY <3>1, <4>1, RecordedDoes
        <5> QED
            BY <5>1
      <4>3. CASE status = "succeeded"
        <5>1. Received(i)
            BY <3>1, <4>1, <4>2, <4>3 DEF Truthful
        <5> QED
            BY <5>1, SettledStays
      <4>4. CASE status = "failed"
        <5>1. ended \in Seq(End)
            BY <1>1 DEF TypeOK
        <5>2. Len(ended) + 1 \in DOMAIN ended' /\ ended'[Len(ended) + 1] = [id |-> i, how |-> "failed"]
            BY <3>1, <4>1, <4>4, <5>1
        <5> QED
            BY <5>2 DEF Lost
      <4> QED
          BY <1>2, <4>2, <4>3, <4>4
    <3>2. ~(\E w \in Workers : Claim(w) /\ i \in Taken)
        BY <1>1, <1>2, <2>3, ClaimTakes
    <3>3. ~(RedeliverWrite /\ admin.id = i)
      <4>1. SUFFICES ASSUME RedeliverWrite, admin.id = i PROVE deliveries'[i].status = "pending"
          BY <1>2
      <4>2. deliveries'[i].status = IF admin.row.status = "pending" THEN deliveries[i].status ELSE "pending"
          BY <1>1, <2>3, <4>1 DEF RedeliverWrite, TypeOK
      <4> QED
          BY <2>3, <4>2
    <3> QED
        BY <1>2, <2>3, <3>1, <3>2, <3>3, DeliveryKept
  <2> QED
      BY <2>1, <2>2, <2>3
<1>3. ASSUME NEW w \in Workers, pass'[w].at = "sending", NEW i, i = pass'[w].id, NEW n, n = pass'[w].nth
      PROVE  Received(i)' \/ <<i, n>> \in wire'
  <2>1. CASE Send(w)
      BY <1>1, <1>3, <2>1, SendDoes
  <2>2. CASE ~Send(w)
    <3>1. pass'[w] = pass[w]
        BY <1>1, <1>3, <2>2, WorkMoves, OthersMoveNoPass, SendingIsSent
    <3>2. Received(i) \/ <<i, n>> \in wire
        BY <1>3, <3>1 DEF Truthful
    <3>3. CASE Received(i)
        BY <3>3, SettledStays
    <3>4. CASE <<i, n>> \in wire
      <4>1. ASSUME NEW v \in Workers, Send(v) PROVE wire \subseteq wire'
          BY <1>1, <4>1, SendDoes
      <4>2. ASSUME NEW r \in wire, Arrive(r) PROVE Received(i)' \/ <<i, n>> \in wire'
        <5>1. CASE r = <<i, n>>
          <6>1. r[1] = i
              BY <5>1
          <6>2. Received(r[1])'
              BY <4>2, ArriveReceives
          <6> QED
              BY <6>1, <6>2 DEF Received
        <5>2. CASE r # <<i, n>>
            BY <3>4, <4>2, <5>2 DEF Arrive
        <5> QED
            BY <5>1, <5>2
      <4> QED
          BY <3>4, <4>1, <4>2, WireKept
    <3> QED
        BY <3>2, <3>3, <3>4
  <2> QED
      BY <2>1, <2>2
<1>4. ASSUME NEW w \in Workers, pass'[w].at \in {"answered", "record"}, pass'[w].ok, NEW i, i = pass'[w].id
      PROVE  Received(i)'
  <2>1. ~Send(w)
      BY <1>1, <1>4, SendDoes
  <2>2. Received(i)
    <3>1. CASE Work(w)
        BY <1>4, <2>1, <3>1, WorkTells
    <3>2. CASE pass'[w] = pass[w]
        BY <1>4, <3>2 DEF Truthful
    <3> QED
        BY <3>1, <3>2, WorkMoves, OthersMoveNoPass
  <2> QED
      BY <2>2, SettledStays
<1> QED
    BY <1>2, <1>3, <1>4 DEF Truthful, Received

\* A delivery gets no new elders: what is before the cursor has settled.
LEMMA ElderKept ==
    ASSUME Basics, Passed, [Next]_vars, NEW i \in Made, NEW j \in Nat, Elder(j, i)'
    PROVE  Elder(j, i)
<1>1. TypeOK /\ i \in Nat
    BY ReadyAreIds DEF Basics, TypeOK
<1>2. sub.cursor \in Nat /\ born.first \in Nat
    BY <1>1 DEF TypeOK, Subscription
<1>3. born' = born
    BY CursorKept
<1>4. j \in DOMAIN markers' /\ markers'[j].state = "committed" /\ born.first < j /\ j < i
      /\ markers'[j].row = markers'[i].row /\ markers'[j].kind \in Wanted
    BY <1>3 DEF Elder, Committed
<1>5. born.first < i /\ i <= sub.cursor /\ sub.cursor <= Len(markers)
    BY DEF Passed
<1>6. i \in DOMAIN markers /\ j \in DOMAIN markers
    BY <1>1, <1>2, <1>4, <1>5, MarkersKept
<1>7. markers[j].state # "open"
  <2>1. ~(sub.cursor < j)
      BY <1>1, <1>2, <1>4, <1>5
  <2> QED
      BY <1>4, <1>6, <2>1 DEF Passed
<1>8. markers[j].state = "committed" /\ markers[j].row = markers[i].row /\ markers[j].kind \in Wanted
    BY <1>4, <1>6, <1>7, MarkersKept
<1> QED
    BY <1>4, <1>6, <1>8 DEF Elder, Committed

LEMMA OrderlyStep ==
    ASSUME Basics, Passed, NothingSkipped, Truthful, Orderly, [Next]_vars
    PROVE  Orderly'
<1>1. TypeOK /\ Basics' /\ Made \subseteq Nat /\ Made' \subseteq Nat
    BY NextBasics, ReadyAreIds DEF Basics, TypeOK
<1>2. ASSUME NEW w \in Workers, NEW i \in Nat, Holds(w, i), NEW j \in Nat, Elder(j, i)' PROVE Received(j)' \/ Lost(j)'
  <2>1. i \in Made
      BY <1>2 DEF Basics, Founded
  <2>2. Elder(j, i)
      BY <1>2, <2>1, ElderKept
  <2> QED
      BY <1>2, <2>1, <2>2, SettledStays DEF Orderly
<1>3. ASSUME NEW w \in Workers, NEW i \in Made', Holds(w, i)', NEW j \in Nat, Elder(j, i)'
      PROVE  Received(j)' \/ Lost(j)'
  <2>1. CASE Holds(w, i)
      BY <1>1, <1>2, <1>3, <2>1
  <2>2. CASE Claim(w) /\ i \in Taken
    <3>1. i \in Made /\ ~HeldUp(i) /\ i \in Nat
        BY <1>1, <2>2, ClaimTakes
    <3>2. Elder(j, i)
        BY <1>3, <3>1, ElderKept
    <3>3. i <= sub.cursor /\ sub.cursor \in Nat
        BY <1>1, <3>1 DEF Passed, TypeOK, Subscription
    <3>4. j \in Made
        BY <3>1, <3>2, <3>3 DEF Elder, NothingSkipped
    <3>5. deliveries[j].status # "pending"
        BY <3>1, <3>2, <3>4 DEF HeldUp, Elder
    <3> QED
        BY <3>4, <3>5, SettledStays DEF Truthful
  <2> QED
      BY <1>3, <2>1, <2>2, HoldsKept
<1>4. ASSUME NEW r \in wire', NEW j \in Nat, Elder(j, r[1])' PROVE Received(j)' \/ Lost(j)'
  <2>1. CASE r \in wire
    <3>1. r[1] \in Made
        BY <2>1 DEF Basics, Founded
    <3>2. Elder(j, r[1])
        BY <1>4, <3>1, ElderKept
    <3> QED
        BY <2>1, <3>2, SettledStays DEF Orderly
  <2>2. CASE r \notin wire
    <3>1. PICK w \in Workers : Send(w)
        BY <2>2, WireKept DEF Arrive
    <3>2. PICK d \in pass[w].todo : d.id \in Nat /\ wire' = wire \cup {<<d.id, sent[d.id] + 1>>}
        BY <1>1, <3>1, SendDoes
    <3>3. r[1] = d.id
        BY <2>2, <3>2
    <3>4. Holds(w, d.id)
        BY DEF Holds
    <3> QED
        BY <1>2, <1>4, <3>2, <3>3, <3>4
  <2> QED
      BY <2>1, <2>2
<1> QED
    BY <1>3, <1>4 DEF Orderly

LEMMA EldersFirstStep ==
    ASSUME Basics, Passed, Orderly, EldersFirst, [Next]_vars
    PROVE  EldersFirst'
<1> SUFFICES ASSUME NEW n \in DOMAIN arrived', NEW j \in Committed',
                    born'.first < j, j < arrived'[n],
                    markers'[j].row = markers'[arrived'[n]].row, markers'[j].kind \in Wanted
             PROVE  \/ \E m \in 1..(n - 1) : arrived'[m] = j
                    \/ Lost(j)'
    BY DEF EldersFirst, Lost
<1>1. TypeOK /\ arrived \in Seq(Ids) /\ DOMAIN arrived = 1..Len(arrived) /\ Len(arrived) \in Nat
    BY DEF Basics, TypeOK
<1>2. j \in Nat
    BY MarkersKept DEF Committed
<1>3. PICK i : i = arrived'[n]
    OBVIOUS
<1>4. Elder(j, i)'
    BY <1>3 DEF Elder
<1>5. CASE UNCHANGED arrived
  <2>1. i = arrived[n] /\ n \in DOMAIN arrived /\ i \in Made
      BY <1>3, <1>5 DEF Basics, Founded
  <2>2. Elder(j, i)
      BY <1>2, <1>4, <2>1, ElderKept
  <2>3. (\E m \in 1..(n - 1) : arrived[m] = j) \/ Lost(j)
      BY <2>1, <2>2 DEF Elder, EldersFirst, Lost
  <2> QED
      BY <1>5, <2>3, SettledStays
<1>6. ASSUME NEW r \in wire, Arrive(r), arrived' = Append(arrived, r[1])
      PROVE  (\E m \in 1..(n - 1) : arrived'[m] = j) \/ Lost(j)'
  <2>1. /\ DOMAIN arrived' = 1..(Len(arrived) + 1) /\ arrived'[Len(arrived) + 1] = r[1]
        /\ \A m \in 1..Len(arrived) : arrived'[m] = arrived[m]
      BY <1>1, <1>6
  <2>2. CASE n \in DOMAIN arrived
    <3>1. i = arrived[n] /\ i \in Made
        BY <1>1, <1>3, <2>1, <2>2 DEF Basics, Founded
    <3>2. Elder(j, i)
        BY <1>2, <1>4, <3>1, ElderKept
    <3>3. (\E m \in 1..(n - 1) : arrived[m] = j) \/ Lost(j)
        BY <2>2, <3>1, <3>2 DEF Elder, EldersFirst, Lost
    <3>4. \A m \in 1..(n - 1) : arrived'[m] = arrived[m]
        BY <1>1, <2>1, <2>2
    <3> QED
        BY <3>3, <3>4, SettledStays
  <2>3. CASE n \notin DOMAIN arrived
    <3>1. n = Len(arrived) + 1 /\ i = r[1] /\ i \in Made
        BY <1>1, <1>3, <2>1, <2>3 DEF Basics, Founded
    <3>2. Elder(j, i)
        BY <1>2, <1>4, <3>1, ElderKept
    <3>3. Received(j) \/ Lost(j)
        BY <1>2, <3>1, <3>2 DEF Orderly
    <3>4. CASE Received(j)
      <4>1. PICK m \in DOMAIN arrived : arrived[m] = j
          BY <3>4 DEF Received
      <4>2. m \in 1..(n - 1) /\ arrived'[m] = j
          BY <1>1, <2>1, <3>1, <4>1
      <4> QED
          BY <4>2
    <3> QED
        BY <3>3, <3>4, SettledStays
  <2> QED
      BY <2>2, <2>3
<1>7. ASSUME NEW w \in Workers, Send(w) PROVE UNCHANGED arrived
    BY <1>7 DEF Send
<1> QED
    BY <1>5, <1>6, <1>7, WireKept DEF Arrive
-----------------------------------------------------------------------------
(* The theorems that hold where the grace is longer than any transaction. *)

\* The inductive invariant of the feed.
THEOREM FeedInvariance == ASSUME CommitWithin < Grace PROVE Spec => []FeedInv
<1>1. Init => Timely /\ Passed /\ NothingSkipped /\ Truthful /\ Orderly /\ EldersFirst
  <2> SUFFICES ASSUME Init PROVE Timely /\ Passed /\ NothingSkipped /\ Truthful /\ Orderly /\ EldersFirst
      OBVIOUS
  <2>1. /\ Made = {} /\ markers = <<>> /\ arrived = <<>> /\ wire = {} /\ born.first = 0 /\ sub.cursor = 0
        /\ \A w \in Workers : pass[w] = Idle
      BY DEF Init, Made
  <2>2. DOMAIN markers = {} /\ DOMAIN arrived = {} /\ Len(markers) = 0
      BY <2>1
  <2>3. Timely /\ Passed /\ NothingSkipped
      BY <2>1, <2>2 DEF Timely, Passed, NothingSkipped, Committed
  <2>4. Truthful
      BY <2>1 DEF Truthful, Idle
  <2>5. Orderly /\ EldersFirst
      BY <2>1, <2>2 DEF Orderly, EldersFirst
  <2> QED
      BY <2>3, <2>4, <2>5
<1>2. Inv /\ (Timely /\ Passed /\ NothingSkipped /\ Truthful /\ Orderly /\ EldersFirst) /\ [Next]_vars
      => (Timely /\ Passed /\ NothingSkipped /\ Truthful /\ Orderly /\ EldersFirst)'
    BY TimelyStep, PassedStep, NothingSkippedStep, TruthfulStep, OrderlyStep, EldersFirstStep DEF Inv
<1> QED
    BY <1>1, <1>2, Invariance, PTL DEF Spec, FeedInv

\* fan_out's waiting for a marker to be POSTGRES_COMMIT_GRACE old is enough, if
\* every transaction that inserts one is over by then: no committed change is
\* passed over, for any number of workers and any batch.
THEOREM FanOutSkipsNothing == ASSUME CommitWithin < Grace PROVE Spec => []NothingSkipped
BY FeedInvariance, PTL DEF FeedInv

\* claim_due's holding up a row behind its pending deliveries is enough, under
\* the same condition: nothing first arrives before its elders have, or have
\* failed, however late requests arrive and whoever redelivers what.
THEOREM OrderOfArrival == ASSUME CommitWithin < Grace PROVE Spec => []EldersFirst
BY FeedInvariance, PTL DEF FeedInv
=============================================================================
