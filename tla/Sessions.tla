------------------------------ MODULE Sessions ------------------------------
(***************************************************************************)
(* What an account may sign in and act with: refresh tokens and API keys,  *)
(* and the requests that issue, spend and revoke them                      *)
(* (endpoints/auth.py, users.py, api_keys.py; core/security.py;            *)
(* cron/refresh_token_cleanup.py).                                         *)
(*                                                                         *)
(* Requests run at once against Postgres at READ COMMITTED.  A request's   *)
(* statements are steps, in the order the code sends them: a bulk UPDATE   *)
(* or DELETE at its line, everything else at the flush inside the commit   *)
(* (core/database.py: autoflush=False).  What a request read may be stale  *)
(* when it writes, a row it has written is locked until the commit, and a  *)
(* DELETE removes the rows that were visible when it began, waiting for    *)
(* the locked ones.  What a request has written is seen by nobody before   *)
(* its commit.                                                             *)
(*                                                                         *)
(* A request that is refused without a write leaves no trace here.         *)
(* Passwords are right or the request is refused; tokens are numbered in   *)
(* the order they are minted, and a family has the number of its first.    *)
(***************************************************************************)
EXTENDS Integers, FiniteSets

CONSTANTS
    Users,        \* the accounts
    Role,         \* role_type of each, which no route changes
    Unit,         \* unit_code of each, or NULL
    Requests,     \* the requests in flight at once
    NULL,
    Ops,          \* bound: which routes are called
    Followed,     \* bound: whose credentials they are about
    Lifetime,     \* jwt_refresh_token_expire_days
    Grace,        \* REUSE_GRACE
    Slack,        \* SLACK of the cleanup
    MaxTokens,    \* bound: tokens minted
    MaxKeys,      \* bound: API keys issued
    MaxFeeds,     \* bound: revocations of one account
    MaxNow        \* bound: how long it goes on

AdminRoles == {"ORG_ADMIN", "UNIT_ADMIN"}
Roles == AdminRoles \cup {"STAFF", "MEMBER"}

ASSUME AccountsAssumption ==
    /\ Role \in [Users -> Roles] /\ NULL \notin Nat \cup Users \cup Requests
    /\ DOMAIN Unit = Users /\ Followed \subseteq Users
ASSUME BoundsAssumption ==
    {Lifetime, Grace, Slack, MaxTokens, MaxKeys, MaxFeeds, MaxNow} \subseteq Nat

VARIABLES
    now,     \* clock.now
    users,   \* deactivated_at set, initial_login_state, and calendar_feed_token, counted
    tokens,  \* refresh_tokens, the committed rows, by number
    minted,  \* how many tokens there have been
    keys,    \* api_keys, the committed rows, by number
    issued,  \* how many keys there have been
    tx,      \* what each request is doing
    ended    \* the families a logout or a reuse has ended

vars == <<now, users, tokens, minted, keys, issued, tx, ended>>

Tokens == DOMAIN tokens

\* No request.
Idle == [op |-> "none", at |-> "idle", user |-> NULL, tok |-> NULL, family |-> NULL,
         seen |-> {}, keysSeen |-> {}, feed |-> 0, first |-> FALSE, when |-> 0, late |-> FALSE]

Init ==
    /\ now = 0
    /\ users = [u \in Users |-> [out |-> FALSE, first |-> FALSE, feed |-> 0]]
    /\ tokens = <<>> /\ minted = 0
    /\ keys = <<>> /\ issued = 0
    /\ tx = [r \in Requests |-> Idle]
    /\ ended = {}

\* A request may arrive, with room below the bounds for what it will write.
Free(r, op) ==
    LET Busy(ops) == Cardinality({s \in Requests : tx[s].op \in ops})
    IN  /\ op \in Ops /\ tx[r].at = "idle"
        /\ minted + Busy(Ops \cup {"reuse"}) < MaxTokens
        /\ op = "key" => issued + Busy({"key"}) < MaxKeys

\* The routes that write calendar_feed_token.
Rotating == {"change", "reset", "deactivate"}

\* Room below the bound for another revocation of the account.
Revocable(u) ==
    users[u].feed + Cardinality({s \in Requests : tx[s].op \in Rotating /\ tx[s].user = u}) < MaxFeeds

Done(r) == [tx EXCEPT ![r] = Idle]
-----------------------------------------------------------------------------
(* core/security.py: who may ask. *)

\* first_login_blocks
FirstLoginBlocks(u) == users[u].first /\ Role[u] \in AdminRoles

\* get_current_user, off the two paths the first-login gate exempts.
Admitted(u) == ~users[u].out /\ ~FirstLoginBlocks(u)

\* in_unit_scope
InUnitScope(w, unit) == Role[w] # "UNIT_ADMIN" \/ (Unit[w] # NULL /\ Unit[w] = unit)

\* require_roles, then the checks of _managed_account.
MayManage(w, u) ==
    /\ Admitted(w) /\ Role[w] \in AdminRoles
    /\ Role[u] \in AdminRoles => Role[w] = "ORG_ADMIN"
    /\ InUnitScope(w, Unit[u])
-----------------------------------------------------------------------------
(* Rows, and who waits for whom. *)

\* A revocation q is about a family, or about all an account has.
Covers(q, x) ==
    IF q.family # NULL THEN x.family = q.family ELSE q.op \in Rotating /\ x.user = q.user

\* A revocation whose DELETE of tokens is done and not committed.
Deleted(q) == q.at \in {"keys", "keysweeping", "insert", "inserted", "update", "commit"}

\* The rows a request has locked: what it spent, or deleted.
Holds(q, t) == (q.at \in {"spent", "checked"} /\ q.tok = t) \/ (Deleted(q) /\ t \in q.seen)

HoldsKey(q, k) == q.at \in {"update", "commit"} /\ k \in q.keysSeen

Locked(t, r) == \E s \in Requests \ {r} : Holds(tx[s], t)

\* The account's row, once the flush has written it.  Writing its unique feed token also
\* keeps out the foreign key check of an insert.
Writes(q, u) == q.at = "commit" /\ q.family = NULL /\ q.user = u

\* Mutant: the account is written before the tokens are deleted, as autoflush would.
RotatesEarly(q, u) == q.op \in Rotating /\ q.user = u /\ (q.at = "sweeping" \/ Deleted(q))

Rotates(q, u) == Writes(q, u) /\ q.op \in Rotating

\* An inserted token's foreign key check, in turn, keeps out who would rotate.
Shares(q, u) == q.at = "inserted" /\ q.user = u

\* The requests that the next statement of r waits for.
Blockers(r) ==
    LET at == tx[r].at
        u  == tx[r].user
    IN  {s \in Requests \ {r} :
           \/ at = "spend" /\ Holds(tx[s], tx[r].tok)
           \/ at = "sweeping" /\ \E t \in tx[r].seen : Holds(tx[s], t)
           \/ at = "keysweeping" /\ \E k \in tx[r].keysSeen : HoldsKey(tx[s], k)
           \/ at \in {"mint", "checked", "key", "insert"} /\ Rotates(tx[s], u)
           \/ at \in {"inserted", "update"} /\ Writes(tx[s], u)
           \/ at \in {"inserted", "update"} /\ tx[r].op # "reactivate" /\ Shares(tx[s], u)}

\* Another revocation is under way that this token is too young for.
Sweeping(r, x) ==
    \E s \in Requests \ {r} : (tx[s].at = "sweeping" \/ Deleted(tx[s])) /\ Covers(tx[s], x)

\* _mint_refresh_token: a new family unless one is given.
Minted(r, user, family, feed, late) ==
    LET f == IF family = NULL THEN minted + 1 ELSE family
    IN  [user |-> user, family |-> f, expires |-> now + Lifetime, consumed |-> NULL,
         feed |-> feed, late |-> late \/ Sweeping(r, [user |-> user, family |-> f])]

\* What is added to the table, and the number it gets.
Insert(rows, x) == [t \in DOMAIN rows \cup {minted + 1} |-> IF t = minted + 1 THEN x ELSE rows[t]]

\* What is left of the table.
Without(rows, gone) == [t \in DOMAIN rows \ gone |-> rows[t]]
-----------------------------------------------------------------------------
(* login: the account is read, the password compared, a token minted. *)

Login(r, u) ==
    /\ Free(r, "login") /\ ~users[u].out
    /\ tx' = [tx EXCEPT ![r] = [Idle EXCEPT !.op = "login", !.at = "mint", !.user = u,
                                            !.feed = users[u].feed]]
    /\ UNCHANGED <<now, users, tokens, minted, keys, issued, ended>>

LoginMint(r) ==
    /\ tx[r].at = "mint" /\ Blockers(r) = {}
    /\ tokens' = Insert(tokens, Minted(r, tx[r].user, NULL, tx[r].feed, tx[r].late))
    /\ minted' = minted + 1
    /\ tx' = Done(r)
    /\ UNCHANGED <<now, users, keys, issued, ended>>
-----------------------------------------------------------------------------
(* refresh: any token ever handed out may be presented, and again. *)

\* Spent longer ago than the grace: the family is to go.
Reused(t) == tokens[t].consumed # NULL /\ now - tokens[t].consumed > Grace

Refresh(r, t) ==
    /\ Free(r, "refresh")
    /\ \/ /\ Reused(t)
          /\ tx' = [tx EXCEPT ![r] = [Idle EXCEPT !.op = "reuse", !.at = "sweep",
                                      !.user = tokens[t].user, !.family = tokens[t].family]]
          /\ UNCHANGED tokens
       \/ /\ tokens[t].consumed = NULL /\ tokens[t].expires < now /\ ~Locked(t, r)
          /\ tokens' = Without(tokens, {t})
          /\ UNCHANGED tx
       \/ /\ tokens[t].consumed = NULL /\ tokens[t].expires >= now
          /\ tx' = [tx EXCEPT ![r] = [Idle EXCEPT !.op = "refresh", !.at = "spend", !.tok = t,
                                      !.user = tokens[t].user, !.when = now]]
          /\ UNCHANGED tokens
    /\ UNCHANGED <<now, users, minted, keys, issued, ended>>

\* Mutant: the update does not ask whether the token is still unspent.
SpendWhatever(r) ==
    /\ tx[r].at = "spend" /\ Blockers(r) = {}
    /\ tx' = IF tx[r].tok \in Tokens THEN [tx EXCEPT ![r].at = "spent"] ELSE Done(r)
    /\ UNCHANGED <<now, users, tokens, minted, keys, issued, ended>>

\* The conditional update: it finds the row unspent, or the request is over.
RefreshSpend(r) ==
    /\ tx[r].at = "spend" /\ Blockers(r) = {}
    /\ tx' = IF tx[r].tok \in Tokens /\ tokens[tx[r].tok].consumed = NULL
             THEN [tx EXCEPT ![r].at = "spent"]
             ELSE Done(r)
    /\ UNCHANGED <<now, users, tokens, minted, keys, issued, ended>>

\* The committed row of a spent token.
Consumed(rows, r) ==
    [t \in DOMAIN rows |-> IF t = tx[r].tok THEN [rows[t] EXCEPT !.consumed = tx[r].when]
                           ELSE rows[t]]

\* The account is read; one that is deactivated gets nothing for its token.
RefreshCheck(r) ==
    /\ tx[r].at = "spent"
    /\ IF users[tx[r].user].out
       THEN tokens' = Consumed(tokens, r) /\ tx' = Done(r)
       ELSE tx' = [tx EXCEPT ![r].at = "checked"] /\ UNCHANGED tokens
    /\ UNCHANGED <<now, users, minted, keys, issued, ended>>

\* The next token of the family, as old as the family in what it outlived.
RefreshMint(r) ==
    /\ tx[r].at = "checked" /\ Blockers(r) = {}
    /\ LET old == tokens[tx[r].tok]
       IN  tokens' = Insert(Consumed(tokens, r),
                            Minted(r, old.user, old.family, old.feed, old.late))
    /\ minted' = minted + 1
    /\ tx' = Done(r)
    /\ UNCHANGED <<now, users, keys, issued, ended>>
-----------------------------------------------------------------------------
(* What revokes: each reads, deletes, and commits; the flush inside the    *)
(* commit inserts the token a password change hands out and updates the    *)
(* account.                                                                *)

Begin(r, op, at, user, family) ==
    /\ tx' = [tx EXCEPT ![r] = [Idle EXCEPT !.op = op, !.at = at, !.user = user, !.family = family,
                                            !.first = users[user].first]]
    /\ UNCHANGED <<now, users, tokens, minted, keys, issued, ended>>

Logout(r, t) ==
    Free(r, "logout") /\ Begin(r, "logout", "sweep", tokens[t].user, tokens[t].family)

\* change_password is one of the paths the first-login gate lets through.
ChangePassword(r, u) ==
    Free(r, "change") /\ Revocable(u) /\ ~users[u].out /\ Begin(r, "change", "sweep", u, NULL)

ResetPassword(r, w, u) ==
    Free(r, "reset") /\ Revocable(u) /\ MayManage(w, u) /\ Begin(r, "reset", "sweep", u, NULL)

\* Nobody deactivates themselves, and an account already out is left alone.
Deactivate(r, w, u) ==
    /\ Free(r, "deactivate") /\ Revocable(u) /\ MayManage(w, u) /\ w # u /\ ~users[u].out
    /\ Begin(r, "deactivate", "sweep", u, NULL)

\* Reactivating deletes nothing: it has only the account to write.
Reactivate(r, w, u) ==
    /\ Free(r, "reactivate") /\ MayManage(w, u) /\ users[u].out
    /\ Begin(r, "reactivate", "update", u, NULL)

\* What the statement is about.
Scope(r) == {t \in Tokens : Covers(tx[r], tokens[t])}

\* Mutant: a reset leaves the sessions open.
FoundUnlessReset(r) == IF tx[r].op = "reset" THEN {} ELSE Scope(r)

\* The rows the DELETE finds when it begins.
Found(r) == Scope(r)

SweepStart(r) ==
    /\ tx[r].at = "sweep"
    /\ tx' = [tx EXCEPT ![r].at = "sweeping", ![r].seen = Found(r)]
    /\ UNCHANGED <<now, users, tokens, minted, keys, issued, ended>>

\* What is sent after the DELETE.  Nothing tells the flush of a password change which of
\* the token and the account goes first; a token that follows the account waits for nobody.
AfterSweep(op) ==
    CASE op = "deactivate" -> {"keys"}
      [] op = "change"     -> {"insert", "update"}
      [] op = "reset"      -> {"update"}
      [] OTHER             -> {"commit"}

\* The DELETE has every row it found, those others have deleted meanwhile excepted.
SweepEnd(r) ==
    /\ tx[r].at = "sweeping" /\ Blockers(r) = {}
    /\ \E next \in AfterSweep(tx[r].op) : tx' = [tx EXCEPT ![r].at = next]
    /\ UNCHANGED <<now, users, tokens, minted, keys, issued, ended>>

\* A deactivation deletes the account's keys by a statement of its own.
KeySweepStart(r) ==
    /\ tx[r].at = "keys"
    /\ tx' = [tx EXCEPT ![r].at = "keysweeping",
                        ![r].keysSeen = {k \in DOMAIN keys : keys[k].user = tx[r].user}]
    /\ UNCHANGED <<now, users, tokens, minted, keys, issued, ended>>

KeySweepEnd(r) ==
    /\ tx[r].at = "keysweeping" /\ Blockers(r) = {}
    /\ tx' = [tx EXCEPT ![r].at = "update"]
    /\ UNCHANGED <<now, users, tokens, minted, keys, issued, ended>>

FlushInsert(r) ==
    /\ tx[r].at = "insert" /\ Blockers(r) = {}
    /\ tx' = [tx EXCEPT ![r].at = "inserted"]
    /\ UNCHANGED <<now, users, tokens, minted, keys, issued, ended>>

FlushUpdate(r) ==
    /\ tx[r].at \in {"inserted", "update"} /\ Blockers(r) = {}
    /\ tx' = [tx EXCEPT ![r].at = "commit"]
    /\ UNCHANGED <<now, users, tokens, minted, keys, issued, ended>>

\* Requests that have read what is going, and may commit a row after it.
Overlaps(s, r) ==
    /\ tx[s].user = tx[r].user
    /\ \/ tx[s].at = "mint" /\ tx[r].op \in Rotating
       \/ tx[s].at = "key" /\ tx[r].op = "deactivate"

Marked(r) == [s \in Requests |-> IF s = r THEN Idle
                                 ELSE IF Overlaps(s, r) THEN [tx[s] EXCEPT !.late = TRUE]
                                 ELSE tx[s]]

\* The account after the commit; initial_login_state is written if it differs from what was read.
Written(x, r) ==
    LET op == tx[r].op
    IN  [x EXCEPT !.feed = IF op \in Rotating THEN @ + 1 ELSE @,
                  !.out = (@ \/ op = "deactivate") /\ op # "reactivate",
                  !.first = CASE op = "change" -> @ /\ ~tx[r].first
                              [] op = "reset" -> @ \/ ~tx[r].first
                              [] OTHER -> @]

Commit(r) ==
    LET u == tx[r].user
        left == Without(tokens, tx[r].seen)
    IN  /\ tx[r].at = "commit"
        /\ tx' = Marked(r)
        /\ IF tx[r].family # NULL
           THEN ended' = ended \cup {tx[r].family} /\ UNCHANGED users
           ELSE users' = [users EXCEPT ![u] = Written(@, r)] /\ UNCHANGED ended
        /\ IF tx[r].op = "change"
           THEN /\ tokens' = Insert(left, Minted(r, u, NULL, users[u].feed + 1, FALSE))
                /\ minted' = minted + 1
           ELSE tokens' = left /\ UNCHANGED minted
        /\ keys' = Without(keys, tx[r].keysSeen)
        /\ UNCHANGED <<now, issued>>

\* Requests that wait for each other's rows.
Circle(S) == S # {} /\ \A r \in S : Blockers(r) \cap S # {}

\* Postgres ends one of them, and nothing of it stays.
Victim(r) ==
    /\ \E S \in SUBSET Requests :
         r \in S /\ Circle(S) /\ \A s \in S : \E q \in S : s \in Blockers(q)
    /\ tx' = Done(r)
    /\ UNCHANGED <<now, users, tokens, minted, keys, issued, ended>>
-----------------------------------------------------------------------------
(* api_keys.py: the bound account is read, then the key committed. *)

CreateApiKey(r, w, u) ==
    /\ Free(r, "key") /\ Admitted(w) /\ Role[w] = "ORG_ADMIN" /\ ~users[u].out
    /\ tx' = [tx EXCEPT ![r] = [Idle EXCEPT !.op = "key", !.at = "key", !.user = u]]
    /\ UNCHANGED <<now, users, tokens, minted, keys, issued, ended>>

\* A deactivation of the account is under way that this key is too young for.
KeySweeping(u) ==
    \E s \in Requests : /\ tx[s].op = "deactivate" /\ tx[s].user = u
                        /\ tx[s].at \in {"keysweeping", "update", "commit"}

ApiKeyCommit(r) ==
    /\ tx[r].at = "key" /\ Blockers(r) = {}
    /\ LET key == [user |-> tx[r].user, late |-> tx[r].late \/ KeySweeping(tx[r].user)]
       IN  keys' = [k \in DOMAIN keys \cup {issued + 1} |-> IF k = issued + 1 THEN key ELSE keys[k]]
    /\ issued' = issued + 1
    /\ tx' = Done(r)
    /\ UNCHANGED <<now, users, tokens, minted, ended>>

RevokeApiKey(w, k) ==
    /\ "revoke" \in Ops /\ Admitted(w) /\ Role[w] = "ORG_ADMIN"
    /\ \A s \in Requests : ~HoldsKey(tx[s], k)
    /\ keys' = Without(keys, {k})
    /\ UNCHANGED <<now, users, tokens, minted, issued, tx, ended>>
-----------------------------------------------------------------------------
\* Mutant: the cleanup takes what has not been expired for long enough yet.
Stale(t) == tokens[t].expires < now + Slack

\* Expired longer ago than the slack.
Lapsed(t) == tokens[t].expires < now - Slack

\* purge_expired_refresh_tokens
Purge ==
    /\ "purge" \in Ops
    /\ \E t \in Tokens : Lapsed(t)
    /\ \A t \in Tokens : Lapsed(t) => ~Locked(t, NULL)
    /\ tokens' = Without(tokens, {t \in Tokens : Lapsed(t)})
    /\ UNCHANGED <<now, users, minted, keys, issued, tx, ended>>

\* A request takes no time to speak of next to a token's life, but some next to the grace.
Tick == now < MaxNow /\ now' = now + 1
        /\ UNCHANGED <<users, tokens, minted, keys, issued, tx, ended>>

\* The steps of a request under way.
Step(r) ==
    \/ LoginMint(r) \/ RefreshSpend(r) \/ RefreshCheck(r) \/ RefreshMint(r)
    \/ SweepStart(r) \/ SweepEnd(r) \/ KeySweepStart(r) \/ KeySweepEnd(r)
    \/ FlushInsert(r) \/ FlushUpdate(r) \/ Commit(r) \/ ApiKeyCommit(r)

Arrive(r) ==
    \/ \E u \in Followed : Login(r, u) \/ ChangePassword(r, u)
    \/ \E t \in Tokens : Refresh(r, t) \/ Logout(r, t)
    \/ \E w \in Users, u \in Followed :
         ResetPassword(r, w, u) \/ Deactivate(r, w, u) \/ Reactivate(r, w, u) \/ CreateApiKey(r, w, u)

Next ==
    \/ \E r \in Requests : Arrive(r) \/ Step(r) \/ Victim(r)
    \/ \E w \in Users, k \in DOMAIN keys : RevokeApiKey(w, k)
    \/ Purge \/ Tick

Spec == Init /\ [][Next]_vars

-----------------------------------------------------------------------------

Live(t) == tokens[t].consumed = NULL

\* A family is one session: however often and at whatever moment its tokens are
\* presented, at most one of them is unspent (auth.py: "cannot both get past the check
\* above and fork the family into two live sessions").
FamilyNeverForks ==
    \A t, v \in Tokens : Live(t) /\ Live(v) /\ tokens[t].family = tokens[v].family => t = v

\* A password change, a reset or a deactivation ends every session opened before it,
\* except one whose token was being issued while it ran: calendar_feed_token, which
\* each of them rotates, is still the one the session was opened under.  The token a
\* password change hands out is such a token for a reset or a deactivation at the same
\* time, whose DELETE began before the change committed.
RevokedSessionsEnd ==
    \A t \in Tokens : tokens[t].late \/ tokens[t].feed = users[tokens[t].user].feed

\* A logout, or a spent token presented again, ends its family for good, except for a
\* token that was being issued while it ran.
EndedFamiliesStayEnded == \A t \in Tokens : tokens[t].family \in ended => tokens[t].late

\* A deactivated account holds no API key, except one being issued while it was
\* deactivated, whose row the DELETE of its keys was too early for; reactivating brings
\* none back.
KeysGoWithTheAccount == \A k \in DOMAIN keys : users[keys[k].user].out => keys[k].late

\* What is revoked stays revoked, sessions, families and keys alike, except what
\* was being issued at that very moment.
RevokedStaysRevoked == RevokedSessionsEnd /\ EndedFamiliesStayEnded /\ KeysGoWithTheAccount

\* A session nobody revoked lasts until its token expires: an unspent token in its
\* lifetime leaves the table only when a revocation that is about it commits.
SignedInUntilExpiry ==
    [][\A t \in Tokens \ DOMAIN tokens' :
         Live(t) /\ now <= tokens[t].expires =>
           \E r \in Requests : tx[r].at = "commit" /\ tx'[r].at = "idle"
                             /\ Covers(tx[r], tokens[t])]_vars

\* Sign-ins, refreshes, logouts, resets, deactivations and new keys never wait for each
\* other in a circle, whatever rows they meet in: every circle has in it two password
\* changes of one account.
OnlyChangesMeetInACircle ==
    \A S \in SUBSET Requests : Circle(S) =>
        \E r, s \in S : /\ r # s /\ tx[r].user = tx[s].user
                        /\ tx[r].op = "change" /\ tx[s].op = "change"
=============================================================================
