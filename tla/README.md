# Chronos Ledger: models, checks and proofs

Chronos Ledger is a scheduling engine: a FastAPI application over PostgreSQL
(or one SQLite file) that keeps resources, bookings, a weekly timetable, the
dated days made from it, attendance, visitors and the accounts behind them,
and tells other systems what changed. This directory models the parts of it
that run concurrently, checks them with TLC on small instances, and proves
with TLAPS what matters most for instances of any size. Line references are to
`src/backend/app/` unless they say otherwise; `PROJECT.json` maps every
definition to the lines it stands for.

## The system

### How it runs

Every HTTP request is handled on a worker thread with a database session of
its own, several per process and several processes per deployment. A request
is one transaction, sometimes two. On PostgreSQL transactions run at READ
COMMITTED: every statement sees what is committed when it starts, and what its
own transaction wrote. `with_for_update` takes a row lock that is kept to the
end of the transaction. On SQLite `BEGIN IMMEDIATE` lets one transaction run
at a time (`core/database.py`). The session does not flush by itself
(`autoflush=False`), so writes reach the database at an explicit flush or at
the commit. Background jobs (`cron/scheduled.py`) run on the process's
scheduler; sockets belong to its event loop, where any `await` lets something
else run.

### Inventory

| part | state | operations | what is hard | what makes it right | module |
|---|---|---|---|---|---|
| reservations (`endpoints/resources.py`) | `reservations`, `resources`, change markers | book, cancel, re-reference, change mode and capacity | bookings, retries and mode changes interleave; unique constraints decide late; crash before commit | no double booking, pools within capacity, one booking per key, mode copies agree | `Reservations`, `BookingLedger` |
| requirement walk (`services/requirements.py`) | the children of a booking, row locks | lock named targets, hold them, fill kinds, recurse | several locks kept to the end, nested, in several orders; one gap of many | all or nothing, what was checked stays true, an answer in the end | `Reservations` |
| requirement graph (`add_requirement`) | `resource_requirements` | add, delete | cycle and duplicate checks without a lock or a constraint | no loop, no duplicate | not modelled |
| windows and availability (`core/time.py`, `services/availability.py`) | none | spans, overlap, pool sums, padding; what a class sits on; what is busy | midnight, equal times, holds that touch, narrowed date ranges | agreement with the constraint and with counting over every date | `Windows`, `Calendar` |
| timetable (`endpoints/schedule.py`, `services/master_slot.py`) | slots, cycles, activities | create, move, delete, retire, open, close | checks against bookings and days without a lock | records kept, plans follow the class, nothing left of what is retired | `DailyLedger` |
| ledger generator (`cron/ledger_generator.py`) | `daily_ledger` | nightly horizon, catch-up, import | two instances, batches and savepoints, stale reads of leave and slots | one day per slot and date, no two days on one room, leave respected | `DailyLedger` |
| absences (`services/reverse_rsvp.py`) | `reverse_rsvp_log`, days' states | submit, approve, deny | overlapping requests, the generator meanwhile | a day is on leave while an approval covers it | `DailyLedger` |
| attendance (`endpoints/attendance.py`) | `verification_ledger` | mark, note | a mark makes a plan a record | records are kept | `DailyLedger` (in part) |
| guest visits (`endpoints/guest.py`, `cron/guest_*`) | visits | check in, decide, extend, announce, purge | the notice awaits between read and stamp; every replica announces | every overrun is announced | `GuestVisits` |
| change feed (`core/change_feed.py`, `endpoints/changes.py`) | markers | record, list | ids before commits | a change and its marker commit together | `Reservations`, `Webhooks` |
| webhooks (`services/webhooks.py`) | subscriptions, deliveries, attempts | fan out, claim, send, record, redeliver, pause | leases, lost answers, two workers | in order per row, nothing skipped, attempts counted once | `Webhooks` |
| idempotency keys (`core/idempotency.py`) | claims and stored answers | claim, answer, settle, purge | claim and answer are two transactions; expiry | an effect is not repeated, an answer is its own request's | `Idempotency` |
| sessions and API keys (`endpoints/auth.py`, `api_keys.py`, `users.py`) | refresh token families, keys, accounts | sign in, refresh, log out, change and reset a password, deactivate, issue, revoke | rotation against logout, revocation and itself | one live token per family, what is revoked stays revoked, circles of waiters only over two password changes | `Sessions` |
| accounts and federated identity (`endpoints/users.py`, `federation.py`, `core/host_identity.py`, `services/federated_identity.py`) | accounts, issuers, keys, links, role map, used notes | create, change, assert, link, exchange a note | unique indexes decide late; a note may come twice | one account per address, one use per note while it lives, only links admit | `Directory` |
| sockets (`core/websocket_manager.py`) | a dict per instance | register, send, close, relay | awaits inside sends, lost Redis | a reconnect is kept, an event is heard once, a deactivated account is closed everywhere | `Sockets` |
| rate limits (`core/rate_limit.py`) | counters | guard, spend | three round trips, death between them | bounded overshoot, counters lapse | `RateLimit` |
| scheduled jobs and clock (`cron/scheduled.py`) | last run, host clock | advance, run due jobs | hops over several dates, zones | each moment once | `Calendar` (`DueJobs`) |
| conflict report (`services/conflicts.py`) | none | sweep | touching and nested entries | every clash once | `Calendar` |
| location resolver (`services/location_resolver.py`) | none | where somebody is | written days against the timetable, leave, midnight | writing a day moves nobody | `Calendar` |
| import, calendar feed, portability, audit, tenancy, concurrency gate | rows | parse, read, format, append | little that interleaves | | not modelled |
| front end, CLI, SDKs, deployment | | | the offline queue and token refresh reach the server as retries | | not modelled |

How they meet: a booking reads the timetable and locks resources; creating a
class reads bookings; the generator turns classes into days; absences change
days; every booking and resource write leaves a change marker in its own
transaction; markers feed the change feed and the webhooks; a keyed write is
wrapped by the idempotency middleware; sockets carry notices of absences and
visits.

## Modules

| module | models |
|---|---|
| `Windows` | the arithmetic of windows: `window_span`, the exclusion constraint's own span, overlap, pool levels, peak and stretches, `_padded` |
| `Calendar` | the calculations over dates: `held_against_slot`, `days_against_slot`, `slots_against_slot`, `occupied` and `window_conflicts`, the conflict report, the location resolver, `due_jobs` |
| `WindowsCheck`, `CalendarCheck`, `MCCalendar` | enumerate cases and compare `Windows` and `Calendar` with definitions that look at every date and instant |
| `Reservations` | bookings, cancellations, references, mode changes, the requirement walk and two timetable writes, as transactions statement by statement |
| `BookingLedger` | the abstract promise: a table that changes in whole, fitting steps |
| `MCReservations` | the two instances of `Reservations` that TLC runs |
| `BookingProofs` | the proofs about `Reservations`: I. types and no double booking, II. what a booking's rows have to do with their request, its key and what they require, III. the refinement of `BookingLedger` and the bound of pools |
| `SessionsProofs`, `DirectoryProofs`, `WebhooksProofs`, `DailyLedgerProofs` | the inductive invariant of each of these modules, and the properties it gives |
| `SmallPartsProofs` | the same for `RateLimit`, `Idempotency` and `Sockets` |
| `WindowsProofs` | facts about the operators of `Windows` that `CalendarProofs` and `BookingProofs` rest on: dates and instants, spans, the sum of a pool and its peak |
| `CalendarProofs` | what the sums, sweeps and narrowed readings of `Windows` and `Calendar` find, for every window, rule and set of holds |
| `Webhooks`, `MCWebhooks` | outgoing webhooks: markers, fan-out, claims and leases, sends, records, redelivery, pauses |
| `DailyLedger`, `MCDailyLedger` | the timetable, the days made of it, marks, notes and leave |
| `Sessions`, `MCSessions` | refresh tokens, API keys and what revokes them |
| `Directory`, `MCDirectory` | accounts, outside issuers and the exchange of their notes |
| `Sockets`, `Idempotency` | sockets, sends and the relay between instances; the keys of retried requests: two parts that share no state, run together by `MCSockets` |
| `RateLimit`, `GuestVisits` | budgets of requests; visits at the door: two more, run together by `MCSmallParts` |

### Reservations

One transaction `t` of `Txns` is one request; `Ask[t]` are the requests it may
turn out to be, and a retry is a second transaction with the same key. The
tables (`res`, `reservations`, `slots`, `feed`) hold what is committed;
`pend[t]` holds the rows `t` has inserted and not committed; `lock` is who has
each resource's row lock; `pc`, `run` and `answer` are where the request
stands, its requirement walk and what it was told.

An action is a stretch of code that nothing can come between: from one
statement that may wait, or that reads what others may change, to the next.
`create_reservation` is `BookRefused`/`BookAdmitted` (the row lock and the
checks under it), `FlushTaken`/`FlushLost`/`Lost` (the insert, which waits for
a rival under the same key or reference, and what the loser does), the walk,
and `Commit`/`LeftOver`. The walk keeps an agenda where the code has a call
stack: a `lock` item (sorted named targets, one lock per step), `row` items
and a `kind` item with its candidates. `cancel_reservation` is three steps
(read the row, read the children, write both), `update_reservation` two or
three, `update_resource` one (all of it under the lock), `create_master_slot`
two (check, insert). `DeadlockVictim` is PostgreSQL ending one member of a
circle of waiters, answered with a 503; `Crash` is a connection or process
dying anywhere inside a transaction.

A hold's window is not empty and shorter than a day (`Spans`), as
`ck_reservations_window` and the schema see to; a class may have any (`ClassSpans`).

Abstractions: a class is one window rather than a weekly rule; no time passes,
so every hold is "still to come"; purposes, labels and coordinates are left
out, and with them the part of the fingerprint they make up; `cancelled_at` is
which transaction stamped it; one organization; scope checks by unit are left
out; the idempotency middleware around the route is not composed (the route
answers its own retries, and is checked without that help). The exclusion
constraint is left out on purpose: it would make `NoDoubleBooking` true by
itself, and on SQLite it does not exist.

### BookingLedger

Bookings appear with all their children or not at all and only where they
fit, cancellations take the children along, references stay unique, a mode or
capacity changes only to one the standing bookings fit. `KeepsTheLedger` says
that `Reservations`, seen through its committed tables, does only that.

### Webhooks

One subscription, several workers. `markers` is the sequence of change markers
with the state of the transactions that wrote them: an id is handed out at
`Insert`, the row becomes visible at `Settle`. `pass[w]` is where worker `w`
stands in `run_pass`: `FanOut` and `Claim` are one step each, because the rows
they write are locked from the read to the commit; then, for each claimed
delivery, `Send`, `Answer`, and the two halves of `record`: `RecordRead`, and
the conditional update with what follows from it (`RecordDropped`,
`RecordSuccess`, `RecordRetry`, `RecordFailure`). `wire` holds requests that may
still reach the receiver, after their sender gave up or died as well. An
administrator's redelivery, resumption or switch is a read and a later write of
the columns that differ from what was read, which is what the ORM sends.
`sent`, `arrived`, `recorded`, `ended` and `born` are histories for the
properties.

Time is a number. `Tick` may let any amount pass between any two steps, with
two limits the code sets or relies on: an attempt is over by
`ATTEMPT_DEADLINE`, and a transaction that wrote a marker ends within
`CommitWithin`, which the runs take smaller than `POSTGRES_COMMIT_GRACE`. The
second is not guaranteed by the code; `docs/webhooks.md` says that a slower
transaction may be passed over. Clocks of two machines agree. The real-time
counter of `run_pass` and the clock are one. Markers carry a row and a kind;
bodies, signatures, addresses and secrets are left out.

### DailyLedger

One cycle, one activity, a few slots. `slots` and `days` are the two tables,
`laid` tells a row from a later one of the same slot and date, `absence` is
`reverse_rsvp_log`. A change of the timetable and a pass of the generator are
two steps each: the reading, with every check the route makes (`Reads` keeps
what will be written and which rows were there), and the commit, in which only
the constraints are asked again (`Accepted`, `Insertable`). In between another
request may commit. Marks, notes, an admin's change of a day and the decision
on an absence are one step: each is one statement, or one on rows no other
route removes the columns of. `excused` and `handed` are histories that name
the exceptions of the properties: a row written or changed by a request that
had read an older timetable, and a row whose state another absence or an admin
put back. Abstractions: a place is a room at an hour, so that overlap is
equality (the overlap itself is `Windows`); a rule is its set of dates; a pass
is one batch (a batch is 500 rows); the bookings a slot is also checked against
are in `Reservations`.

### Sessions

`tokens`, `keys` and `users` are the committed tables, `tx[r]` where request
`r` stands. `login` reads and later mints; `refresh` is the reading, the
conditional UPDATE that locks the token's row, the reading of the account, and
the insert of the successor with the commit. A revocation (`logout`, a reuse,
`change_password`, `reset_password`, `deactivate_user`) goes statement by
statement, in the order in which the session sends them: with
`autoflush=False` (`core/database.py:137`) the bulk DELETEs go out at their
lines, and everything the route assigned or added only at the flush inside the
commit. So `SweepStart` is where the DELETE of tokens begins and finds its
rows, `SweepEnd` where it has them all; a deactivation deletes its keys by
another statement (`KeySweepStart`, `KeySweepEnd`); a password change inserts
its new token (`FlushInsert`), what concerns an account writes the account
(`FlushUpdate`), and `Commit` makes it visible. Until then the account's row is
free: two revocations of one account may both be at their DELETEs.

`Blockers` is who a statement waits for: the holder of a token or key row
(`Holds`, `HoldsKey`), who has written the account (`Writes`), and, because
`calendar_feed_token` is in a unique index and is what a foreign key check may
depend on for PostgreSQL, an insert into `refresh_tokens` or `api_keys` waits
for who has rotated it (`Rotates`), and who would rotate it for an insert not
yet committed (`Shares`). `Victim` is PostgreSQL ending a member of a circle.

A DELETE does not see a row committed after it began: `late` marks such tokens
and keys, which outlive the revocation and are what the properties except. A
token is marked if it was being issued (`Overlaps`) or is committed while a
DELETE it is too young for is under way (`Sweeping`, `KeySweeping`); the token
that a password change hands out can be one, for a reset or a deactivation at
the same time. `feed` counts the rotations of `calendar_feed_token`, which each
revocation of an account makes, so that a token can be told to be older than
one.

Abstractions: the rows of a DELETE are locked together when all of them are
free, since all DELETEs meet them in the same order; the insert of a sign-in, a
refresh or a new key is one step with its commit, the deletion of an expired
token at a refresh one step with its reading. In a password change the flush
has an insert into one table and an update of another, and no `relationship()`
orders the two: `AfterSweep` allows either.

### Directory

Accounts and everything that makes or changes them: the routes of `users.py`,
the host's assertion, and the exchange of a note. `Check` is `verify_note` up to
the cap, `SpendJti` the SET NX of the jti that follows, in a call of its own to
Redis and after whatever time that takes; `IssueRead` and `IssueCommit` make an
account for a stranger and try once more when they lose a unique index.
Requests read, decide and commit what they decided; only the unique indexes are
asked at the commit. Administrators edit issuers,
keys, the role map and links meanwhile. A note is a member of a set, its
signature a flag; `spent` is the replay cache with its lifetime, in half
seconds because the cap is compared in whole ones. `Check` asks the key's
window, the cap and `exp` at one moment; the code reads its clock for the first
two just before the library reads it for `exp`, which refuses more and never
admits more. `accepted` counts the acceptances in the note's life: an exchange
that passed `exp` in time and reaches its SET NX after the note's end goes on
but is not counted. `shaken` is a history: what was under way while something was
deleted or renamed.

### Sockets

Each instance is an event loop; a stretch between two awaits is a step. A job
is a queue of sends taken from a snapshot of the dict (`Recipients`), or a
close, then a publish. `inbox` is what an instance's relay has still to hear;
`RelayDown` loses it. The other end of a socket may go at any time and is
noticed at the next send or ping. Instances do not die here: a process that
dies between a deactivation's commit and its background close
(`endpoints/users.py:411`) never sends it, which in the model is a close that is
still on its way (`Closing`), and nothing closes the sockets of the other
instances.

### RateLimit, GuestVisits, Idempotency

`RateLimit` is one counter in Redis: `Guard` reads, `Spend` is INCR and TTL in
one round trip, `Expire` another, each of which may be lost. `GuestVisits` has
desks that read a visit and later write the columns that differ, replicas that
read the overdue visits, tell of each and stamp them all, and the purge; an end
is how far off it is. `crossed` marks the rows in which two writers wrote past
each other, which `EveryOverrunIsTold` excepts: a pass that stamped over an
extension committed while it told, and a desk whose decision or extension
committed over a row that another desk or a pass had changed since it was read
(the columns that desk did not touch stay the other's), until a desk that read
the row as it is writes it. `Idempotency` has a claim written in the request's own
transaction (so it commits or goes with the effect) and an answer written in
another after the response: `Arrive`, `ClaimDelete`, `ClaimInsert`,
`ClaimRefind`, `Finish` with the four ways a handler may end, `SettleRead`,
`SettleStore`/`SettleInsert`/`SettleDrop`, a crash anywhere, expiry and purge.

### Calendar

Operators only, no state. Each is translated with the narrowing the code does
(three dates around a booking, the part of a rule that can touch another,
entries still open in a sweep, marks after the last run), and compared with a
definition that narrows nothing.

## Runs

| run | instance | shows |
|---|---|---|
| `calendar` | days of 4 instants, rules and cycles over 3 dates, three windows of which one runs past midnight; paddings up to a day, up to 3 holds of 1 or 2 units; up to 3 entries of a report; clocks over 11 instants in three zones | every calculation agrees with its reference on every case |
| `races_postgres` | 4 requests of 29 kinds on an exclusive, a pooled and a shared resource, one may crash | types, no double booking, mode copies, one booking per key; refinement of `BookingLedger`, which has the capacity of pools, the references and that a booking avoids the classes there are |
| `races_sqlite` | the same, one transaction at a time | the three promises that interleaving breaks hold (`OneWriterKeepsThem`) |
| `walks_postgres` | 3 requests on 5 resources with named, padded, pooled, kind and nested requirements, depth limit 2, one may crash | all or nothing, markers, the inductive invariant; refinement, by which families are cancelled together; every request is answered |
| `class_over_hold` | that of `races_postgres` | a violation, see below |
| `webhook_leases` | 2 workers, 2 changes of 1 or 2 rows, 2 attempts, pause after 2 failures, leases of 3, time to 4 | in order per row, one sender at a time, attempts charged once, failures recorded together all count |
| `webhook_admin` | 1 worker, 2 changes of wanted and unwanted kinds, commits up to 1 late under a grace of 2, a redelivery, two switches or resumptions, one crash | the cursor passes nothing |
| `daily_ledger` | 2 slots, 2 places, 2 leads, 3 dates, one absence, 4 operations, 2 in flight | records survive, plans follow the slot, nothing is left of what is retired, leave shows |
| `sessions` | one person and an administrator, 3 requests in flight (which may change places: symmetry), 3 tokens, one key, 2 revocations, a lifetime and a slack of 1, a grace of 0, time to 3 | one live token per family, revocations hold, a session lasts, circles of waiters only over two password changes |
| `directory` | 3 accounts and room for 2, 2 notes of one stranger, 2 requests in flight, 2 edits, time to 4 half seconds | one account per address, one use per note in its life, only links admit, one retry is enough |
| `sockets_and_keys` | 2 instances, 2 sockets of one person, 2 messages, Redis away and back; one key, 2 requests, 2 contents, 3 handlers, a retention of 1 | heard once, only a failed send evicts, a deactivated person hears nothing; effects not repeated, answers their own, claims attended |
| `small_parts` | a budget of 2 with 2 callers, one lost expiry and one slip; one visit, 2 desks, 2 replicas, one dead pass | bounded overshoot and refill; every overrun announced |

A property that names several promises of one part (`RevokedStaysRevoked`,
`SignInsReachTheirOwn`, `EventsFindTheSocket`, `PlansAreOfTheTimetable`,
`OneWriterKeepsThem`, and three of `CalendarCheck`) is the conjunction of
definitions that each state one.

Why the bounds are enough. Every race in the booking routes is between two or
three requests on one resource or one key; the instances give each request
several shapes, so that each pair of routes meets on each mode of resource. The
walks reach two levels (one more than the limit), a taken named target, a
taken kind, an assigned resource that is taken, wrong or left over, padding
past midnight and an advisory gap. A day of 4 to 6 instants has room for
windows that touch, overlap, nest and cross midnight, and three dates for the
date before, the date itself and the date after. For the webhooks: ordering,
leases and double sends are between two deliveries of one row and two workers,
and a lease of 3 with time to 4 lets a claim lapse and be taken over while the
first worker still has its answer to record (a worker that dies is also one
that takes no further step); lost counts need two workers and two rows;
skipping needs two markers. In `daily_ledger` two requests overlap while
others commit in one step, four operations are enough for create, fill, change
and a mark or a decision, in every order, and `MaxLaid` of 2 lets a day be
removed and written again. In `sessions` three requests are two revocations of one account and a sign-in,
a refresh or a new key between their statements, or two password changes with
another request behind them; three tokens are a family with a successor and a
rival, or two families; a lifetime, a slack and a grace that differ by one
reach both sides of each boundary. In `directory` the two notes
race each other or an administrator's edit, and the time passes the note's end
by the skew and the cap. In `sockets_and_keys` two connections are one and its
replacement on either instance, and two messages an event and a close. In
`small_parts` every race is between two.

`class_over_hold` is expected to be violated: a class checked before a booking
commits is inserted after it, although `create_reservation` says the pair is
held off by locking the resource row and classes are refused where a booking
stands.

Fairness. Of requests (`walks_postgres`): weak fairness of each
request's own steps; its thread runs, and the database wakes a waiter when the
lock is let go and breaks circles of waiters. In `small_parts`: Redis counts
a key's seconds down, a process that lives sends its EXPIRE, and the scheduler
starts a pass every five minutes (`cron/scheduled.py`) and goes through with
it. Crashes, lost calls and administrators are not fair; nothing depends on
them.

Deadlock is checked in every run of `Reservations`, which may rest only when
every request is answered, and in `sockets_and_keys` (for the keys an hour may
always pass). It is not in `calendar`, whose module only enumerates cases, nor in the runs that end at a bound on time or on
the number of operations.

## Disagreements

Besides `class_over_hold`, these show when the models are asked, and are stated
as exceptions of the properties or left out of them:

| where | what the code does | what the repository says |
|---|---|---|
| `services/requirements.py:125` | a window padded to a day or more is stored as a shorter one (`PaddedRow`) | `docs/api.md:1651`: held for the window widened by the padding |
| `services/requirements.py:268` | named targets are sorted per owner, so two bookings that reach a pair through different owners lock it in opposite orders, and the database ends one with a 503 | `services/requirements.py:266`: two bookings that need the same pair take them in the same order |
| `endpoints/resources.py:1006` | on PostgreSQL two cancellations at once both stamp and mark the row (`CancelledOnce` holds on SQLite only) | `docs/api.md:1574`: the same timestamp |
| `endpoints/resources.py:813` | on PostgreSQL the loser of a reference that was changed again before it looked is told that its fresh key was reused (`KeyReusedMeansKeyUsed` holds on SQLite only) | `docs/failure-modes.md` keeps that code for a key already used |
| `services/webhooks.py:602` | a success that read the failure count as zero writes nothing, so a failure counted meanwhile stays | `docs/webhooks.md:225`: one success in between resets the count |
| `services/webhooks.py:641` | a redelivery that read its delivery as pending, while a worker records the last failure, leaves it failed | `endpoints/webhooks.py:308`: sent again, on the next pass of the worker |
| `endpoints/webhooks.py:133` | a subscription created while a change with a lower marker id is uncommitted never hears of it | `docs/webhooks.md`: it hears what happens from then on |
| `core/idempotency.py:438` | a request with nothing to store drops the claim of an identical one that has committed and not yet recorded its answer; a third then runs again | `core/idempotency.py:5-8`: the first response instead of a second effect |
| `endpoints/users.py:300` | a reset or a deactivation whose DELETE of tokens began while the account's own password change was uncommitted waits for the rows that one deleted, and does not see the token it inserts: that session goes on | `endpoints/users.py:296-298`: whoever is already in it has to lose their sessions |
| `endpoints/users.py:408` | a key committed after the DELETE of keys began and before the flush of the same deactivation stays, as does one whose request read the account before | `endpoints/users.py:380`: API keys are deleted, not held |
| `endpoints/auth.py:411` | two password changes of one account at once may each have inserted a token, and with it share the account's row, before either updates it; the database ends one, whose password is not changed | nothing is said of it; `OnlyChangesMeetInACircle` shows there is no other such pair |
| `services/federated_identity.py:274` | a copy of a note that passes `exp` just before the note's end and reaches its SET NX after the record lapsed is accepted again | `services/federated_identity.py:199`: two copies of one note, exactly one of them gets to |
| `endpoints/users.py:395` | two organization admins who deactivate each other at once both succeed | `endpoints/users.py:392`: one organization admin is kept standing |
| `core/websocket_manager.py:249` | a failed send on a replaced socket evicts the replacement | the close of a stale connection must not (`terminate_session`) |
| `services/reverse_rsvp.py:73` | denying one of two overlapping absences puts a day of the other back to scheduled | `README.md:139`: approved absences cascade to every affected entry |
| `core/rate_limit.py:119` | after `Limit` lost expiries in a row the guard refuses everybody, nobody spends, and nothing sets the expiry | `core/rate_limit.py:145`: both want the same thing, an expiry |
| `cron/guest_overstay.py:56` | an extension that commits while a pass is telling is stamped as told | `cron/guest_overstay.py:10-12`: an extension makes a second overrun announce itself |
| `endpoints/users.py:252` | two changes of managers at once each see no loop and together make one | `endpoints/users.py:55`: a loop of any length is a reporting line with nobody at the top of it |

## Proofs

Every theorem holds for arbitrary constants: any set of transactions,
resources, workers, people, notes or keys, any requests, any lengths of time
that keep to the named assumptions. The bounds of the runs are constants too
(`MaxMarkers`, `MaxNow`, ...): they are arbitrary naturals, so no proof rests
on one. Each inductive invariant was first checked by TLC on the instance of
its run. A module of proofs has, per action, a lemma that says what the step
does, and, per part of the invariant, a lemma for each kind of step.

### Reservations

* `TypeCorrect`: `Spec => []TypeOK`, one lemma per action. It is what every
  later step needs to know that agendas are sequences of items and rows are
  rows.
* `ChecksHold`: `Spec => []ChecksHoldToTheEnd`, the inductive invariant.
  `NoDoubleBooking` is not inductive: a commit adds rows, and that they fit
  was found out much earlier. The strengthening says, for each transaction,
  `Guarding` (locks and pending rows exist only between the first lock and the
  end; a pending row's resource is locked by its transaction; every named
  target left in the agenda is locked or stands behind the item that locks it)
  and `StillFree` (what was found free is free still, and a transaction has one
  row per resource), and that holds carry their resource's mode. A step of
  another transaction cannot disturb `StillFree`, because committing a row on a
  resource needs its lock, and a cancellation only frees.
* `NeverDoubleBooked`, `ModesAgree` and `LocksKept` follow.
* `KeysMakeOneBooking` and `ChangesAreMarked` rest on `Records`, which relates
  every row to the request that makes it. `OneBookingPerKey` speaks of answers,
  so the invariant has to say what an answer rests on: a row, pending or
  committed, is `<<t, rid>>` with its request's caller and key (`Makes`); the
  row on the resource asked for is among them (`First`); who was told `created`
  has it in the table, and who was told `replayed` was given a row under the
  same key. Uniqueness is over committed and pending rows together
  (`RowsAreUnique`): the flush waits for pending rivals, so a commit can no
  longer collide.
* `NothingIsHalfHeld` rests on `Complete`: for every pending row, each enforced
  requirement is met by the pending rows or owed by an item of the agenda, and
  a search by kind has counted no more rows than there are (`Provides`). At the
  commit the agenda is empty, so everything is met, and the rows become a
  family (`Whole`). A family is only ever rewritten row by row, its resources
  and windows kept.
* `OneWriterIsEnough` has the hypothesis `Serial`. Its invariant `OneWriter`
  says that at most one transaction runs (`Alone`) and that what it read is so
  until it writes (`ReadsHold`): this is what PostgreSQL's interleavings break,
  and the run `class_over_hold` shows it.
* `NoPoolIsOverdrawn` and `RoutesKeepTheLedger`, the refinement, rest on
  `Ready`. That no pool has more out than it has is not inductive for the
  reason that no double booking is not: the peak was read before the insert.
  So `RoomKept` says that every uncommitted row, and a booking about to insert
  its first, still has its units free at every instant of its window and no
  class under it; the row lock keeps others from taking them, and a booking has
  one row per resource, so its own rows take none from each other. From counting
  instant by instant to the code's peak, and back, is `LedgerPeak`. A
  cancellation reads the children and writes later: `CancelKnows` says that
  what it did not read is not held when it writes, so the whole family goes in
  one step. Then `CommitBooks` maps the commit to the abstract `Book`, the
  cancellation's write to `Cancel`, the reference's to `Refer`, the change of
  a resource to `Change`, the two timetable writes to `Timetable`, and every
  other step of every transaction, a crash included, to a stutter
  (`LedgerStep`).

### Sessions

`Inv` adds to the properties: `Numbered` (numbers of tokens and keys are handed
out once), `SpendsLive` and `LocksApart` (what a refresh has spent is in the
table, unspent to everybody else, and no other request has spent or deleted
it), and what a revocation knows from the beginning of its DELETE to its
commit: `SeesAll` and `SeesAllKeys` (every row it is about is one it found, or
marked), `SeesNoOther` (it found nothing it is not about). `IssuedInTime` says
that who is issuing a token or a key read the account as it still is, or is
marked. No part of it says that revocations of one account exclude each other,
because they do not: two DELETEs may have found the same rows, and the second
removes what is left of them. `FamiliesNeverFork` and `RevocationsHold` follow;
`SessionsLast` is an action property: the refresh of an expired token and the
cleanup take no token that is unspent and in its lifetime, and a revocation
only what it is about (`SeesNoOther`).

`CirclesAreChanges` needs the types only. Nobody waits at the commit, so nobody
in a circle waits for an account that has been written or for a key that has
been deleted. If nobody in it has inserted a token either, nobody waits to
write the account or to delete keys, so nobody in it has locked a token's row,
and there is nothing left to wait for. If somebody has, that is a password
change waiting to write the account, and who it waits for has inserted a token
of the account and not written it, which is another.

### RateLimit and Idempotency

`OvershootIsBounded` needs the counter and the requests past the guard
together: their sum never passes `Limit - 1`, the number of callers and the
guards that found no Redis. It is the one proof about a cardinality, and why
`Callers` is assumed finite.

`KeyInv` says that a committed claim was made by a request whose hash it has
(`Genuine`), only claims past the retention go without a drop
(`OnlyTheStaleGo`), two requests that run under one key are not both inside
the retention (`RunsAlone`), an effect keeps its claim until it is stale or
dropped (`EffectsKeepTheirClaim`), and an open claim has the request that will
settle it (`Attended`).

### Directory

`Inv` says that an address is one account's, that every link leads to an
account that was linked or came with its issuer and subject (`LinksAreOwned`),
that a note about to be recorded is still within the cap, however much time has
passed since it was checked (`ChecksHold`), so that the record of a spent note
lapses no earlier than the note (`RecordsOutlive`, the arithmetic of whole and
half seconds), and that an
exchange in its second try finds the account it lost to
(`LosersFindTheWinner`), unless something was deleted or renamed meanwhile.
The `FirstAssumption` says that the directory there is at the start keeps to
the unique index on the address.

### Webhooks

`Inv` relates the histories to the tables: every record has its request
(`EachHasItsRequest`), a count of attempts is the number of records where
nobody redelivered (`Counted`), who is sending has the lease and will be done
before it ends (`Leased`, `EndsInTime`), and the failures counted are at least
those at the end of the history (`Tallied`). `AttemptsAreCounted`, `OneSender`
and `DeadSubscriptionsPause` need no more than that an attempt and the margin
are shorter than the lease and the margin is not zero (10 s in the code).

`FanOutSkipsNothing` and `OrderOfArrival` have the hypothesis `CommitWithin <
Grace`, which is what the code relies on and does not enforce. Their invariant
adds that a marker old enough to be trusted has no uncommitted marker before
it (`Timely`, `Passed`), that a delivery's state is what was recorded of it
(`Truthful`), and that a delivery is claimed only when its elders have ended
(`Orderly`).

### Sockets

`Basics` says that an entry of the dict is a registered connection of that
person on that instance, that a relay job has a message it took from its
inbox, and that an instance never has two copies of a message, on the way or
in hand. `Unheard` says that a connection that a copy is still to reach has
not heard it: with it "heard once" is inductive. `ClosedOrLate` says that
after a deactivation each entry of the person is about to be closed, on an
instance that has still to hear, or was being identified at the time.

### DailyLedger

The three properties speak of committed rows, but what breaks them is a
request that writes what it read earlier. So `LedgerInv` adds `RequestsOK`,
which says of every request in flight that what it will write is still right
for the rows it read: it removes and moves no row that was a record when it
read (`Spares`); an id it read is of the present row or of an earlier one of
the same slot and date (`ReadEarlier`); and each plan it read is dropped or
moved as the change of the class asks (`Changes`, `Followed`), or dropped when
the activity ends or the cycle closes (`Ends`). The rows it did not read are
`excused` or gone by another request's hand. `LeaveShows` is inductive beside
it, since the decision on an absence rewrites the rows it covers in its own
step. `RecordsSurvive` is an action property that needs the ids: a row laid
again after a removal is another row. That the generator writes only plans is
an induction over its fold (`FoldDefined`, `PlansKept`), and that it takes the
dates in order an induction over the number of earlier keys (`InOrderLists`).

### Windows and Calendar

The modules have no state, and their runs enumerate cases; the theorems say the
same of every case. `ReadAlike` and the lemmas before it are the arithmetic of
a window: read back from the stored times it is the one that was stored,
unless it is empty or a day long. `NarrowedRules`, `MeetingsFound` and
`ConflictsFound` rest on `SpanLies` (a window begins on its date and ends
before the second midnight after it), hence `FarDates`: two windows three
dates apart do not meet. `NobodyMoves` compares the location answered from the
timetable with the one answered from the row that the generator would write.

`PoolsAreCounted` is about a sum over a set that is taken hold by hold, and
about a sweep over the instants at which that sum changes. `SumIsFold` and
`UnitsTake` unfold the fold of the community modules on a finite set;
`OneByOne` is the induction, by a smallest counterexample: among the subsets
for which a statement fails there is one with the fewest elements, and taking
an element away contradicts that. `LastChange` and `OpenedBy` find the change
before an instant and the run of changes a stretch is made of, as least and
greatest elements of finite sets of instants.

### What the proofs rest on

The named assumptions of the modules, which TLC evaluates in every run: types
of the constants, `NULL` and `None` outside the sets they are added to, finite
sets where something is counted (`Callers`, `Workers`, `People`, `Slots`), a
day with at least one instant (two where windows are enumerated), tasks that are no instances, and the times of the webhooks.

Only model-checked:

* liveness and fairness (`EveryRequestIsAnswered`, `BudgetRefills`,
  `EveryOverrunIsTold`): out of the prover's reach;
* `EveryClashIsReportedOnce` and `AHopRunsWhatTwoRun`: the report and the
  clock sort and filter their lists with operators that take an operator
  (`SetToSortSeq`, `SelectSeq`), which the provers leave uninterpreted.

## Not modelled

Listed with reasons in `PROJECT.json`. The import of timetables is parsing
followed by the slot writes that `DailyLedger` has; archives and the calendar
feed are encoding and formatting; the audit appends a row per request;
tenancy is a filter on every query; the concurrency gate is one semaphore with
a timeout. Which member has which attendance mark, the presence counts of the
sockets, a person's own location override (one Redis key) and the deletion of
webhook subscriptions are left out of the modules around them. The geofence is
real-number geometry; hashing and signatures are taken to work; zones are
fixed offsets. The front end is pages and an offline queue whose retries the
server's models receive; the CLI is I/O and the SDKs are generated.

## Plan

1. `add_requirement` and `delete_requirement` as actions, against the walk.
2. Webhooks: deletion of a subscription, changes of its event types.
3. Attendance marks of members with the batch and the offline queue.
