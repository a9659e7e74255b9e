------------------------------ MODULE Webhooks ------------------------------
(***************************************************************************)
(* Outgoing webhooks: services/webhooks.py and the routes of               *)
(* api/v1/endpoints/webhooks.py that change a subscription or a delivery.  *)
(*                                                                         *)
(* Several workers (one per process) run passes over one database: fan the *)
(* change markers out into deliveries, claim what is due under a lease,    *)
(* send it, record the outcome.  Requests insert markers and commit them   *)
(* later.  A request on the wire may arrive late, or never, and its answer *)
(* may be lost.                                                            *)
(*                                                                         *)
(* One subscription: two share nothing but the size of a batch.  Fanning   *)
(* out and claiming lock the rows they write (FOR UPDATE SKIP LOCKED) from *)
(* the read to the commit, so each is one step.  The other writers read a  *)
(* row and later write the columns that differ from what they read, as the *)
(* ORM does: two steps.  Time is a number; what takes time is what Tick    *)
(* lets pass.  Bodies, signatures, addresses and secrets are left out, and *)
(* so is deleting a subscription.                                          *)
(***************************************************************************)
EXTENDS Naturals, Sequences, FiniteSets

CONSTANTS
    Workers,         \* the processes that run passes
    Rows,            \* the resources and reservations that change
    Kinds,           \* what a marker says of its row: created, updated
    Wanted,          \* the kinds the subscription wants
    Grace,           \* POSTGRES_COMMIT_GRACE; 0 where the code does not wait
    CommitWithin,    \* the longest a marker stays uncommitted
    Lease,           \* CLAIM_LEASE
    Margin,          \* LEASE_MARGIN
    Deadline,        \* ATTEMPT_DEADLINE
    Waits,           \* what backoff may draw
    MaxAttempts,     \* MAX_ATTEMPTS
    PauseAfter,      \* PAUSE_AFTER_FAILED_DELIVERIES
    FanOutBatch,     \* FAN_OUT_BATCH
    SendBatch,       \* SEND_BATCH
    MaxMarkers,      \* bound: how many markers are inserted
    MaxRedeliveries, \* bound: how often an administrator redelivers
    MaxSwitches,     \* bound: how often an administrator switches or resumes
    MaxCrashes,      \* bound: how many passes die
    MaxNow           \* bound: how long it goes on

ASSUME TimesAssumption ==
    /\ {Grace, CommitWithin, Lease, Margin, Deadline} \subseteq Nat /\ Waits \subseteq Nat
    /\ Margin # 0 /\ Margin + Deadline < Lease
ASSUME LimitsAssumption ==
    /\ IsFiniteSet(Workers)
    /\ MaxAttempts \in Nat \ {0} /\ PauseAfter \in Nat \ {0}
    /\ FanOutBatch \in Nat \ {0} /\ SendBatch \in Nat \ {0} /\ Wanted \subseteq Kinds
    /\ {MaxMarkers, MaxRedeliveries, MaxSwitches, MaxCrashes, MaxNow} \subseteq Nat

VARIABLES
    now,         \* clock.now
    markers,     \* change_markers by id, with what has become of their transactions
    sub,         \* the subscription: active, paused_at, consecutive_failures, cursor
    born,        \* whether it was created yet, and its first cursor
    deliveries,  \* webhook_deliveries by marker id
    pass,        \* what each worker is doing
    admin,       \* an administrator's request between its read and its commit
    wire,        \* the requests that may still reach the receiver
    sent,        \* how many requests were made for each delivery
    arrived,     \* what reached the receiver, in the order it first did
    recorded,    \* webhook_attempts: how many rows each delivery has
    ended,       \* the deliveries that ended, in order, and how
    spent        \* how often the bounded steps were taken

net == <<wire, sent, arrived>>
log == <<recorded, ended>>
vars == <<now, markers, sub, born, deliveries, pass, admin, net, log, spent>>

Ids == 1..MaxMarkers

Never == MaxNow + Lease + 1    \* next_attempt_at is null

Idle == [at |-> "idle", lease |-> 0, todo |-> {}, id |-> 0, nth |-> 0,
         since |-> 0, ok |-> FALSE, attempts |-> 0, failures |-> 0]

NoAdmin == [op |-> "none"]

Init ==
    /\ now = 0 /\ markers = <<>>
    /\ sub = [active |-> FALSE, paused |-> FALSE, failures |-> 0, cursor |-> 0]
    /\ born = [yet |-> FALSE, first |-> 0]
    /\ deliveries = <<>>
    /\ pass = [w \in Workers |-> Idle]
    /\ admin = NoAdmin
    /\ wire = {} /\ sent = [i \in Ids |-> 0] /\ arrived = <<>>
    /\ recorded = [i \in Ids |-> 0] /\ ended = <<>>
    /\ spent = [redeliveries |-> 0, switches |-> 0, crashes |-> 0]

Made == DOMAIN deliveries

Committed == {i \in DOMAIN markers : markers[i].state = "committed"}

Live == sub.active /\ ~sub.paused
-----------------------------------------------------------------------------
(* Requests that change a row: change_feed.record, then the commit. *)

\* The id is handed out at the insert.
Insert(row, kind) ==
    /\ Len(markers) < MaxMarkers
    /\ markers' = Append(markers, [row |-> row, kind |-> kind, at |-> now, state |-> "open"])
    /\ UNCHANGED <<now, sub, born, deliveries, pass, admin, net, log, spent>>

Settle(i, state) ==
    /\ markers[i].state = "open"
    /\ markers' = [markers EXCEPT ![i].state = state]
    /\ UNCHANGED <<now, sub, born, deliveries, pass, admin, net, log, spent>>
-----------------------------------------------------------------------------
(* fan_out *)

\* The markers past the cursor, the first FanOutBatch.
Ahead ==
    LET seen == {i \in Committed : i > sub.cursor}
    IN  {i \in seen : Cardinality({j \in seen : j < i}) < FanOutBatch}

\* Mutant: young markers are trusted.
ReadyAtOnce == Ahead

\* Those before the first one too young to trust.
Ready == {i \in Ahead : \A j \in Ahead : j <= i => markers[j].at + Grace <= now}

FanOut(w) ==
    /\ pass[w].at = "idle"
    /\ IF Live /\ Ready # {}
       THEN /\ deliveries' = [i \in Made \cup {j \in Ready : markers[j].kind \in Wanted} |->
                                IF i \in Made THEN deliveries[i]
                                ELSE [status |-> "pending", attempts |-> 0, due |-> now]]
            /\ sub' = [sub EXCEPT !.cursor = CHOOSE i \in Ready : \A j \in Ready : j <= i]
       ELSE UNCHANGED <<deliveries, sub>>
    /\ pass' = [pass EXCEPT ![w].at = "claim"]
    /\ UNCHANGED <<now, markers, born, admin, net, log, spent>>
-----------------------------------------------------------------------------
(* claim_due *)

\* Mutant: an earlier delivery about the same row does not hold a later one up.
HeldUpNever(i) == i \notin Made

\* An earlier delivery about the same row is still pending.
HeldUp(i) ==
    \E j \in Made : j < i /\ markers[j].row = markers[i].row /\ deliveries[j].status = "pending"

Due == {i \in Made : deliveries[i].status = "pending" /\ deliveries[i].due <= now /\ ~HeldUp(i)}

\* Ordered by next_attempt_at, then by id.
Sooner(i, j) ==
    deliveries[i].due < deliveries[j].due \/ (deliveries[i].due = deliveries[j].due /\ i < j)

Claim(w) ==
    /\ pass[w].at = "claim"
    /\ LET taken == IF Live THEN {i \in Due : Cardinality({j \in Due : Sooner(j, i)}) < SendBatch}
                    ELSE {}
       IN  /\ deliveries' = [i \in Made |-> IF i \in taken THEN [deliveries[i] EXCEPT !.due = now + Lease]
                                            ELSE deliveries[i]]
           /\ pass' = [pass EXCEPT ![w] =
                          IF taken = {} THEN Idle
                          ELSE [Idle EXCEPT !.at = "send", !.lease = now + Lease,
                                  !.todo = {[id |-> i, due |-> deliveries[i].due] : i \in taken}]]
    /\ UNCHANGED <<now, markers, sub, born, admin, net, log, spent>>
-----------------------------------------------------------------------------
(* run_pass and send *)

\* Mutant: an attempt starts whenever the lease has not run out.
InTimeOfLease(w) == now <= pass[w].lease

\* Enough of the lease is left for a whole attempt.
InTime(w) == now + Margin + Deadline <= pass[w].lease

\* On to the next of what was claimed.
GoOn(w) == pass' = [pass EXCEPT ![w] = [Idle EXCEPT !.at = "send", !.lease = pass[w].lease, !.todo = pass[w].todo]]

PassOver(w) ==
    /\ pass[w].at = "send" /\ (pass[w].todo = {} \/ ~InTime(w))
    /\ pass' = [pass EXCEPT ![w] = Idle]
    /\ UNCHANGED <<now, markers, sub, born, deliveries, admin, net, log, spent>>

\* The next in the claim's order.  A request that never leaves (an address
\* refused, no connection) is one that never arrives.
Send(w) ==
    /\ pass[w].at = "send" /\ InTime(w)
    /\ \E d \in pass[w].todo :
         /\ \A e \in pass[w].todo : d.due < e.due \/ (d.due = e.due /\ d.id <= e.id)
         /\ pass' = [pass EXCEPT ![w] = [@ EXCEPT !.at = "sending", !.todo = pass[w].todo \ {d}, !.id = d.id,
                                                  !.nth = sent[d.id] + 1, !.since = now]]
         /\ sent' = [sent EXCEPT ![d.id] = @ + 1]
         /\ wire' = wire \cup {<<d.id, sent[d.id] + 1>>}
    /\ UNCHANGED <<now, markers, sub, born, deliveries, admin, arrived, log, spent>>

\* A request reaches the receiver, perhaps after its sender gave up or died.
Arrive(request) ==
    /\ wire' = wire \ {request}
    /\ arrived' = IF \E n \in DOMAIN arrived : arrived[n] = request[1] THEN arrived
                  ELSE Append(arrived, request[1])
    /\ UNCHANGED <<now, markers, sub, born, deliveries, pass, admin, sent, log, spent>>

\* A 2xx answer comes back, or anything else: another status, an error, an
\* answer lost, the deadline.
Answer(w, ok) ==
    /\ pass[w].at = "sending" /\ (ok => <<pass[w].id, pass[w].nth>> \notin wire)
    /\ pass' = [pass EXCEPT ![w] = [@ EXCEPT !.at = "answered", !.ok = ok]]
    /\ UNCHANGED <<now, markers, sub, born, deliveries, admin, net, log, spent>>
-----------------------------------------------------------------------------
(* record *)

RecordRead(w) ==
    /\ pass[w].at = "answered"
    /\ pass' = [pass EXCEPT ![w] = [@ EXCEPT !.at = "record", !.attempts = deliveries[pass[w].id].attempts,
                                             !.failures = sub.failures, !.since = now]]
    /\ UNCHANGED <<now, markers, sub, born, deliveries, admin, net, log, spent>>

\* Mutant: any pending delivery is written, whoever holds its lease.
StillMinePending(w) == deliveries[pass[w].id].status = "pending"

\* The row still carries this pass's lease, as the update itself asks.
StillMine(w) ==
    LET d == deliveries[pass[w].id]
    IN  d.status = "pending" /\ d.due = pass[w].lease /\ d.attempts = pass[w].attempts

RecordDropped(w) ==
    /\ pass[w].at = "record" /\ ~StillMine(w)
    /\ GoOn(w)
    /\ UNCHANGED <<now, markers, sub, born, deliveries, admin, net, log, spent>>

\* What every recorded attempt does: the delivery's new status and time, and
\* the row of webhook_attempts.
Recorded(w, status, due) ==
    /\ pass[w].at = "record" /\ StillMine(w)
    /\ deliveries' = [deliveries EXCEPT ![pass[w].id] =
                        [status |-> status, attempts |-> pass[w].attempts + 1, due |-> due]]
    /\ recorded' = [recorded EXCEPT ![pass[w].id] = @ + 1]
    /\ GoOn(w)
    /\ UNCHANGED <<now, markers, born, admin, net, spent>>

\* The count is set to zero, which the ORM leaves out when it read zero.
RecordSuccess(w) ==
    /\ pass[w].ok
    /\ Recorded(w, "succeeded", Never)
    /\ sub' = [sub EXCEPT !.failures = IF pass[w].failures = 0 THEN @ ELSE 0]
    /\ ended' = Append(ended, [id |-> pass[w].id, how |-> "succeeded"])

LastTry(w) == pass[w].attempts + 1 >= MaxAttempts

RecordRetry(w) ==
    /\ ~pass[w].ok /\ ~LastTry(w)
    /\ \E wait \in Waits : Recorded(w, "pending", pass[w].since + wait)
    /\ UNCHANGED <<sub, ended>>

\* Mutant: the count as it was read is written back.
RecordFailureAsRead(w) ==
    /\ ~pass[w].ok /\ LastTry(w)
    /\ Recorded(w, "failed", Never)
    /\ sub' = [sub EXCEPT !.failures = pass[w].failures + 1,
                          !.paused = @ \/ pass[w].failures + 1 >= PauseAfter]
    /\ ended' = Append(ended, [id |-> pass[w].id, how |-> "failed"])

\* The count is the database's own.
RecordFailure(w) ==
    /\ ~pass[w].ok /\ LastTry(w)
    /\ Recorded(w, "failed", Never)
    /\ sub' = [sub EXCEPT !.failures = @ + 1, !.paused = @ \/ sub.failures + 1 >= PauseAfter]
    /\ ended' = Append(ended, [id |-> pass[w].id, how |-> "failed"])
-----------------------------------------------------------------------------
(* Administrators, one request at a time. *)

Create(active) ==
    /\ ~born.yet
    /\ LET newest == CHOOSE i \in Committed \cup {0} : \A j \in Committed : j <= i
       IN  /\ sub' = [active |-> active, paused |-> FALSE, failures |-> 0, cursor |-> newest]
           /\ born' = [yet |-> TRUE, first |-> newest]
    /\ UNCHANGED <<now, markers, deliveries, pass, admin, net, log, spent>>

RedeliverRead(i) ==
    /\ admin = NoAdmin /\ spent.redeliveries < MaxRedeliveries
    /\ admin' = [op |-> "redeliver", id |-> i, row |-> deliveries[i], at |-> now]
    /\ spent' = [spent EXCEPT !.redeliveries = @ + 1]
    /\ UNCHANGED <<now, markers, sub, born, deliveries, pass, net, log>>

RedeliverWrite ==
    /\ admin.op = "redeliver"
    /\ deliveries' = [deliveries EXCEPT ![admin.id] =
                        [status   |-> IF admin.row.status = "pending" THEN @.status ELSE "pending",
                         attempts |-> IF admin.row.attempts = 0 THEN @.attempts ELSE 0,
                         due      |-> admin.at]]
    /\ admin' = NoAdmin
    /\ UNCHANGED <<now, markers, sub, born, pass, net, log, spent>>

\* resume_webhook, and the active switch of update_webhook.
SubscriptionRead(op) ==
    /\ born.yet /\ admin = NoAdmin /\ spent.switches < MaxSwitches
    /\ admin' = [op |-> op, row |-> sub]
    /\ spent' = [spent EXCEPT !.switches = @ + 1]
    /\ UNCHANGED <<now, markers, sub, born, deliveries, pass, net, log>>

ResumeWrite ==
    /\ admin.op = "resume"
    /\ sub' = [sub EXCEPT !.paused = IF admin.row.paused THEN FALSE ELSE @,
                          !.failures = IF admin.row.failures # 0 THEN 0 ELSE @]
    /\ admin' = NoAdmin
    /\ UNCHANGED <<now, markers, born, deliveries, pass, net, log, spent>>

SwitchWrite ==
    /\ admin.op = "switch"
    /\ sub' = [sub EXCEPT !.active = ~admin.row.active]
    /\ admin' = NoAdmin
    /\ UNCHANGED <<now, markers, born, deliveries, pass, net, log, spent>>
-----------------------------------------------------------------------------
(* Processes that die, and the clock. *)

Crash(w) ==
    /\ pass[w].at # "idle" /\ spent.crashes < MaxCrashes
    /\ pass' = [pass EXCEPT ![w] = Idle]
    /\ spent' = [spent EXCEPT !.crashes = @ + 1]
    /\ UNCHANGED <<now, markers, sub, born, deliveries, admin, net, log>>

\* Time passes, but an attempt is given up at its deadline, and a transaction
\* ends within CommitWithin.
Tick ==
    /\ now < MaxNow
    /\ \A i \in DOMAIN markers : markers[i].state = "open" => now < markers[i].at + CommitWithin
    /\ \A w \in Workers : pass[w].at = "sending" => now < pass[w].since + Deadline
    /\ now' = now + 1
    /\ UNCHANGED <<markers, sub, born, deliveries, pass, admin, net, log, spent>>

Work(w) ==
    \/ FanOut(w) \/ Claim(w) \/ PassOver(w) \/ Send(w)
    \/ (\E ok \in BOOLEAN : Answer(w, ok))
    \/ RecordRead(w) \/ RecordDropped(w) \/ RecordSuccess(w) \/ RecordRetry(w) \/ RecordFailure(w)
    \/ Crash(w)

Administer ==
    \/ \E active \in BOOLEAN : Create(active)
    \/ \E i \in Made : RedeliverRead(i)
    \/ \E op \in {"resume", "switch"} : SubscriptionRead(op)
    \/ RedeliverWrite \/ ResumeWrite \/ SwitchWrite

Next ==
    \/ \E w \in Workers : Work(w)
    \/ \E row \in Rows, kind \in Kinds : Insert(row, kind)
    \/ \E i \in DOMAIN markers, state \in {"committed", "gone"} : Settle(i, state)
    \/ \E request \in wire : Arrive(request)
    \/ Administer \/ Tick

Spec == Init /\ [][Next]_vars
-----------------------------------------------------------------------------
(* Properties. *)

\* fan_out passes over nothing: every wanted change committed between the
\* first cursor and the cursor has its delivery, although ids are handed out
\* before commits, two workers fan out, and the subscription was switched off
\* or paused in between.
NothingSkipped ==
    \A i \in Committed :
        born.first < i /\ i <= sub.cursor /\ markers[i].kind \in Wanted => i \in Made

\* A receiver never hears of a later change of a row before an earlier one:
\* when something arrives for the first time, every earlier committed change of
\* its row has arrived, or has failed for good.
EldersFirst ==
    \A n \in DOMAIN arrived, j \in Committed :
        /\ born.first < j /\ j < arrived[n]
        /\ markers[j].row = markers[arrived[n]].row /\ markers[j].kind \in Wanted
        => \/ \E m \in 1..(n - 1) : arrived[m] = j
           \/ \E m \in DOMAIN ended : ended[m] = [id |-> j, how |-> "failed"]

\* An attempt is charged once, to the delivery that made it: as long as nobody
\* redelivers, attempt_count is the number of rows in webhook_attempts, and no
\* row is without its request, however late a pass records.
CountedOnce ==
    \A i \in Made : /\ recorded[i] <= sent[i]
                     /\ spent.redeliveries = 0 => deliveries[i].attempts = recorded[i]

\* Two workers are never in the middle of the same delivery, unless an
\* administrator asked for it again: an attempt starts early enough to be over
\* before its lease is.
OneSenderAtATime ==
    \A v, w \in Workers :
        v # w /\ pass[v].at = "sending" /\ pass[w].at = "sending" /\ pass[v].id = pass[w].id
        => spent.redeliveries > 0

InARow(n) == n >= PauseAfter /\ \A m \in (n - PauseAfter + 1)..n : ended[m].how = "failed"

\* A subscription whose last PauseAfter deliveries all failed for good is
\* paused, whichever workers recorded them, until somebody resumes it.
GoneIsPaused == spent.switches = 0 /\ InARow(Len(ended)) => sub.paused

=============================================================================
