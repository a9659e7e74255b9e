----------------------------- MODULE Directory ------------------------------
(***************************************************************************)
(* Who has an account: the directory of endpoints/users.py, the accounts   *)
(* an embedding host asserts (core/host_identity.py), and the ones an      *)
(* outside issuer vouches for (endpoints/federation.py, the exchange of    *)
(* endpoints/auth.py, services/federated_identity.py).                     *)
(*                                                                         *)
(* Requests run at once: each reads, decides, and commits what it decided  *)
(* later, when only the unique indexes are asked again.  Deactivating is   *)
(* here the flag alone: what it revokes is the subject of Sessions.        *)
(*                                                                         *)
(* Time is in half seconds, because the cap on a note's life is compared   *)
(* in whole ones.  A note is a member of a given set: who it names, when   *)
(* it expires, and whether its signature and audience verify.              *)
(***************************************************************************)
EXTENDS Integers, Sequences, FiniteSets

CONSTANTS
    Ids,          \* user ids, typed in or minted
    Emails,       \* addresses, as normalize_email folds them
    Units,        \* unit codes
    Issuers,      \* iss values
    Kids,         \* key ids
    Groups,       \* group_claim_value
    Notes,        \* the notes in circulation
    Requests,     \* the requests in flight at once
    NULL,
    Root,         \* the administrator there is at the start
    First,        \* the accounts there are at the start
    Ops,          \* bound: which routes are called
    Creates,      \* bound: the accounts that are sent to be created
    Updates,      \* bound: the changes that are sent, by id
    Asserts,      \* bound: what the host asserts
    Cap,          \* federated_token_max_lifetime_seconds
    Skew,         \* federated_clock_skew_seconds
    MaxEdits,     \* bound: how many requests an administrator makes
    MaxNow        \* bound: how long it goes on, in half seconds

AdminRoles == {"ORG_ADMIN", "UNIT_ADMIN"}
Roles == AdminRoles \cup {"STAFF", "MEMBER"}

Note == [iss: Issuers, kid: Kids, sub: {"s", "t"}, email: Emails \cup {NULL},
         groups: SUBSET Groups, exp: Int, verifies: BOOLEAN]

\* The bodies of requests; a field that is unset is left alone.
UserCreate == [id: Ids, email: Emails, role: Roles, unit: Units \cup {NULL}, mgr: Ids \cup {NULL}]
UserUpdate == [id: Ids, email: Emails \cup {"unset"}, mgr: Ids \cup {NULL, "unset"},
               unit: Units \cup {NULL, "unset"}]
HostActor == [id: Ids, role: Roles, email: Emails, unit: Units \cup {NULL, "unset"}]

ASSUME NotesAssumption == Notes \subseteq Note
ASSUME PayloadsAssumption ==
    Creates \subseteq UserCreate /\ Updates \subseteq UserUpdate /\ Asserts \subseteq HostActor
ASSUME DirectoryAssumption ==
    /\ Root \in DOMAIN First /\ DOMAIN First \subseteq Ids /\ NULL \notin Ids
    /\ {Cap, Skew, MaxEdits, MaxNow} \subseteq Nat
\* What is there at the start keeps to the unique index on the address.
ASSUME FirstAssumption ==
    /\ First \in [DOMAIN First -> [email: Emails, role: Roles, unit: Units \cup {NULL},
                                   mgr: Ids \cup {NULL}, out: BOOLEAN, by: {NULL}]]
    /\ \A u, v \in DOMAIN First : First[u].email = First[v].email => u = v

VARIABLES
    now,       \* clock.wall_now, in half seconds
    users,     \* the committed accounts, by id
    issuers,   \* federated_issuers: absent, enabled or not
    keys,      \* federated_issuer_keys
    map,       \* federated_role_map, in the order of its ids
    links,     \* federated_identities
    spent,     \* the replay cache: until when each note's jti is held
    tx,        \* what each request is doing
    edits,     \* how many requests administrators have made
    accepted,  \* how often each note was accepted in its life
    sessions,  \* the sessions notes were traded for
    linked,    \* the links an administrator made
    shaken,    \* requests under way while something was deleted or renamed
    failed     \* an exchange answered 500 with nothing deleted or renamed

registry == <<issuers, keys, map>>
ghosts == <<accepted, sessions, linked, shaken, failed>>
vars == <<now, users, registry, links, spent, tx, edits, ghosts>>

Users == DOMAIN users

Idle == [op |-> "none", at |-> "idle"]

Init ==
    /\ now = 0
    /\ users = First
    /\ issuers = [i \in Issuers |-> "on"]
    /\ keys = {[iss |-> i, kid |-> k, from |-> 0, until |-> NULL] : i \in Issuers, k \in Kids}
    /\ map = <<>> /\ links = {} /\ spent = [n \in Notes |-> 0]
    /\ tx = [r \in Requests |-> Idle] /\ edits = 0
    /\ accepted = [n \in Notes |-> 0] /\ sessions = {} /\ linked = {}
    /\ shaken = {} /\ failed = FALSE

Free(r, op) == op \in Ops /\ tx[r].at = "idle"

\* A request of an administrator, within the bound.
Edit(op) == op \in Ops /\ edits < MaxEdits /\ edits' = edits + 1

\* The requests that find something gone or renamed that they had read.
Shake == shaken' = {s \in Requests : tx[s].at # "idle"}

Done(r) == [tx EXCEPT ![r] = Idle]
-----------------------------------------------------------------------------
(* Who may ask. *)

Admin(w, roles) == w \in Users /\ ~users[w].out /\ users[w].role \in roles

\* in_unit_scope
InUnitScope(w, unit) ==
    users[w].role # "UNIT_ADMIN" \/ (users[w].unit # NULL /\ users[w].unit = unit)

Taken(email, id) == \E u \in Users \ {id} : users[u].email = email

\* Everyone above m, and m: the walk of _check_manager, which stops at a loop.
Above(m) ==
    LET up[n \in 0..Cardinality(Ids)] ==
          IF n = 0 THEN {m} ELSE up[n - 1] \cup ({users[x].mgr : x \in up[n - 1]} \ {NULL})
    IN  up[Cardinality(Ids)]

\* _check_manager, passed.
ManagerFits(u, m) == m # u /\ m \in Users /\ ~users[m].out /\ u \notin Above(m)

-----------------------------------------------------------------------------
(* endpoints/users.py *)

Account(p, by) == [email |-> p.email, role |-> p.role, unit |-> p.unit, mgr |-> p.mgr,
                   out |-> FALSE, by |-> by]

CreateUser(r, w, p) ==
    /\ Free(r, "create") /\ Admin(w, AdminRoles) /\ Edit("create")
    /\ p.role \in AdminRoles => users[w].role = "ORG_ADMIN"
    /\ InUnitScope(w, p.unit)
    /\ p.id \notin Users /\ ~Taken(p.email, p.id)
    /\ p.mgr = NULL \/ ManagerFits(p.id, p.mgr)
    /\ tx' = [tx EXCEPT ![r] = [op |-> "create", at |-> "insert", p |-> p]]
    /\ shaken' = shaken \ {r}
    /\ UNCHANGED <<now, users, registry, links, spent, accepted, sessions, linked, failed>>

\* The primary key and the unique indexes on the address.
Collides(id, email) == id \in Users \/ Taken(email, id)

With(id, row) == [u \in Users \cup {id} |-> IF u = id THEN row ELSE users[u]]

\* The insert commits, or fails on an index and the caller gets a 500.
CreateCommit(r) ==
    /\ tx[r].at = "insert" /\ tx[r].op = "create"
    /\ LET p == tx[r].p
       IN  users' = IF Collides(p.id, p.email) THEN users ELSE With(p.id, Account(p, NULL))
    /\ tx' = Done(r)
    /\ UNCHANGED <<now, registry, links, spent, edits, ghosts>>

UpdateUser(r, w, u, p) ==
    /\ Free(r, "update") /\ Admin(w, AdminRoles) /\ u \in Users /\ Edit("update")
    /\ users[u].role \in AdminRoles => users[w].role = "ORG_ADMIN"
    /\ InUnitScope(w, users[u].unit)
    /\ p.unit = "unset" \/ InUnitScope(w, p.unit)
    /\ p.email = "unset" \/ ~Taken(p.email, u)
    /\ p.mgr \in {"unset", NULL} \/ ManagerFits(u, p.mgr)
    /\ tx' = [tx EXCEPT ![r] = [op |-> "update", at |-> "update", id |-> u, p |-> p]]
    /\ shaken' = shaken \ {r}
    /\ UNCHANGED <<now, users, registry, links, spent, accepted, sessions, linked, failed>>

Or(new, old) == IF new = "unset" THEN old ELSE new

\* The columns that were set are written; a taken address is a 500.
UpdateCommit(r) ==
    /\ tx[r].at = "update"
    /\ LET u == tx[r].id
           p == tx[r].p
       IN  users' = IF p.email # "unset" /\ Taken(p.email, u) THEN users
                    ELSE [users EXCEPT ![u].email = Or(p.email, @), ![u].mgr = Or(p.mgr, @),
                                       ![u].unit = Or(p.unit, @)]
    /\ tx' = Done(r) /\ Shake
    /\ UNCHANGED <<now, registry, links, spent, edits, accepted, sessions, linked, failed>>

\* deactivate_user and reactivate_user, the flag they set: never one's own account.
SetOut(w, u, out) ==
    /\ Admin(w, AdminRoles) /\ u \in Users /\ Edit("out")
    /\ users[u].role \in AdminRoles => users[w].role = "ORG_ADMIN"
    /\ InUnitScope(w, users[u].unit) /\ out => w # u
    /\ users' = [users EXCEPT ![u].out = out]
    /\ UNCHANGED <<now, registry, links, spent, tx, ghosts>>
-----------------------------------------------------------------------------
(* core/host_identity.py *)

Asserted(u, p) ==
    [users[u] EXCEPT !.role = p.role, !.email = p.email, !.unit = Or(p.unit, @)]

\* host_actor: an id seen for the first time, or one to bring up to date.
HostAsserts(r, p) ==
    /\ Free(r, "host") /\ Edit("host")
    /\ p.id \in Users => Asserted(p.id, p) # users[p.id]
    /\ tx' = [tx EXCEPT ![r] = [op |-> "host", at |-> IF p.id \in Users THEN "assert" ELSE "insert",
                                p |-> p]]
    /\ shaken' = shaken \ {r}
    /\ UNCHANGED <<now, users, registry, links, spent, accepted, sessions, linked, failed>>

\* _provision: losing the primary key goes on as for a known actor.
Provision(r) ==
    LET p == tx[r].p
    IN  /\ tx[r].at = "insert" /\ tx[r].op = "host"
        /\ IF Collides(p.id, p.email)
           THEN /\ UNCHANGED users
                /\ tx' = IF p.id \in Users THEN [tx EXCEPT ![r].at = "assert"] ELSE Done(r)
           ELSE /\ users' = With(p.id, [email |-> p.email, role |-> p.role,
                                        unit |-> Or(p.unit, NULL), mgr |-> NULL, out |-> FALSE,
                                        by |-> NULL])
                /\ tx' = Done(r)
        /\ UNCHANGED <<now, registry, links, spent, edits, ghosts>>

\* _bring_up_to_date, then _save: a taken address is a 409.
BringUpToDate(r) ==
    LET p == tx[r].p
    IN  /\ tx[r].at = "assert"
        /\ users' = IF Taken(p.email, p.id) THEN users ELSE With(p.id, Asserted(p.id, p))
        /\ tx' = Done(r) /\ Shake
        /\ UNCHANGED <<now, registry, links, spent, edits, accepted, sessions, linked,
                       failed>>
-----------------------------------------------------------------------------
(* endpoints/federation.py: an organization admin keeps the registry. *)

Keep(w, op) == Admin(w, {"ORG_ADMIN"}) /\ Edit(op)

\* create_issuer, and update_issuer's switch.
SwitchIssuer(w, i, state) ==
    /\ Keep(w, "issuer") /\ issuers[i] # state
    /\ issuers' = [issuers EXCEPT ![i] = state]
    /\ UNCHANGED <<now, users, keys, map, links, spent, tx, ghosts>>

\* delete_issuer takes its keys, its map and its links with it.
DeleteIssuer(w, i) ==
    /\ Keep(w, "issuer") /\ issuers[i] # "absent"
    /\ issuers' = [issuers EXCEPT ![i] = "absent"]
    /\ keys' = {k \in keys : k.iss # i}
    /\ map' = SelectSeq(map, LAMBDA m : m.iss # i)
    /\ links' = {l \in links : l.iss # i}
    /\ Shake
    /\ UNCHANGED <<now, users, spent, tx, accepted, sessions, linked, failed>>

AddKey(w, i, kid) ==
    /\ Keep(w, "key") /\ issuers[i] # "absent"
    /\ \A k \in keys : ~(k.iss = i /\ k.kid = kid)
    /\ keys' = keys \cup {[iss |-> i, kid |-> kid, from |-> now, until |-> NULL]}
    /\ UNCHANGED <<now, users, issuers, map, links, spent, tx, ghosts>>

\* Any moment after the key's start will do, one already past included.
RetireKey(w, k, until) ==
    /\ Keep(w, "key") /\ until > k.from
    /\ keys' = (keys \ {k}) \cup {[k EXCEPT !.until = until]}
    /\ UNCHANGED <<now, users, issuers, map, links, spent, tx, ghosts>>

DeleteKey(w, k) ==
    /\ Keep(w, "key") /\ keys' = keys \ {k}
    /\ UNCHANGED <<now, users, issuers, map, links, spent, tx, ghosts>>

\* Neither admin role can be mapped, and a group once.
AddRoleMapEntry(w, i, g, role, unit) ==
    /\ Keep(w, "map") /\ issuers[i] # "absent"
    /\ \A n \in DOMAIN map : ~(map[n].iss = i /\ map[n].group = g)
    /\ map' = Append(map, [iss |-> i, group |-> g, role |-> role, unit |-> unit])
    /\ UNCHANGED <<now, users, issuers, keys, links, spent, tx, ghosts>>

DeleteRoleMapEntry(w, n) ==
    /\ Keep(w, "map")
    /\ map' = SelectSeq(map, LAMBDA m : m # map[n])
    /\ UNCHANGED <<now, users, issuers, keys, links, spent, tx, ghosts>>

Linked(i, sub) == {l \in links : l.iss = i /\ l.sub = sub}

\* create_link reads, and commits later: no admin account is linked.
CreateLink(r, w, i, sub, u) ==
    /\ Free(r, "link") /\ Keep(w, "link")
    /\ issuers[i] # "absent" /\ u \in Users /\ users[u].role \notin AdminRoles
    /\ Linked(i, sub) = {}
    /\ tx' = [tx EXCEPT ![r] = [op |-> "link", at |-> "link",
                                row |-> [iss |-> i, sub |-> sub, user |-> u]]]
    /\ shaken' = shaken \ {r}
    /\ UNCHANGED <<now, users, registry, links, spent, accepted, sessions, linked, failed>>

LinkCommit(r) ==
    /\ tx[r].at = "link"
    /\ IF issuers[tx[r].row.iss] = "absent" \/ Linked(tx[r].row.iss, tx[r].row.sub) # {}
       THEN UNCHANGED <<links, linked>>
       ELSE links' = links \cup {tx[r].row} /\ linked' = linked \cup {tx[r].row}
    /\ tx' = Done(r)
    /\ UNCHANGED <<now, users, registry, spent, edits, accepted, sessions, shaken, failed>>

DeleteLink(w, l) ==
    /\ Keep(w, "link") /\ links' = links \ {l} /\ Shake
    /\ UNCHANGED <<now, users, registry, spent, tx, accepted, sessions, linked, failed>>
-----------------------------------------------------------------------------
(* services/federated_identity.py: a note is verified, then turned into a session. *)

\* _registered_issuer and _key_for: the one key the note names, in its window.
KeyFits(n) ==
    /\ issuers[n.iss] = "on"
    /\ \E k \in keys : /\ k.iss = n.iss /\ k.kid = n.kid
                       /\ now >= k.from /\ (k.until # NULL => now < k.until)

\* exp, with the skew as leeway.
Alive(n) == 2 * n.exp > now - 2 * Skew

\* The signature, the audience and exp; then the cap on what is left of the note's life,
\* in whole seconds and without the skew.
InTime(n) == n.verifies /\ Alive(n) /\ n.exp - now \div 2 <= Cap

\* Mutant: the record of a note is held for the cap alone.
HeldForCap(n) == now + 2 * Cap

\* How long _spend_jti holds the record: a note accepted at the cap lives the skew longer.
HeldUntil(n) == now + 2 * (Cap + Skew)

\* verify_note, as far as the cap, when it reads the clock: nothing is written yet.  exp is
\* asked a moment later, when no more would pass.
Check(r, n) ==
    /\ Free(r, "note") /\ KeyFits(n) /\ InTime(n)
    /\ tx' = [tx EXCEPT ![r] = [op |-> "note", at |-> "spend", n |-> n, last |-> FALSE]]
    /\ shaken' = shaken \ {r}
    /\ UNCHANGED <<now, users, registry, links, spent, edits, accepted, sessions, linked, failed>>

\* _spend_jti, the last of the checks: a SET NX of the jti in Redis, whatever the time is by then.
SpendJti(r) ==
    LET n == tx[r].n
    IN  /\ tx[r].at = "spend"
        /\ IF now >= spent[n]
           THEN /\ spent' = [spent EXCEPT ![n] = HeldUntil(n)]
                /\ accepted' = IF Alive(n) THEN [accepted EXCEPT ![n] = @ + 1] ELSE accepted
                /\ tx' = [tx EXCEPT ![r] = [op |-> "note", at |-> "issue", n |-> n, last |-> FALSE]]
           ELSE tx' = Done(r) /\ UNCHANGED <<spent, accepted>>
        /\ UNCHANGED <<now, users, registry, links, edits, sessions, linked, shaken, failed>>

\* resolve_role: STAFF beats MEMBER, and the oldest entry of the role gives the unit.
ResolveRole(n) ==
    LET ours  == SelectSeq(map, LAMBDA m : m.iss = n.iss /\ m.group \in n.groups)
        staff == SelectSeq(ours, LAMBDA m : m.role = "STAFF")
    IN  IF staff # <<>> THEN [role |-> "STAFF", unit |-> staff[1].unit]
        ELSE [role |-> "MEMBER", unit |-> IF ours = <<>> THEN NULL ELSE ours[1].unit]

\* Mutant: a stranger whose address is somebody's is signed in as them.
AccountByEmail(n) ==
    {l.user : l \in Linked(n.iss, n.sub)} \cup {u \in Users : users[u].email = n.email}

\* The account the pair of issuer and subject is linked to.
AccountOf(n) == {l.user : l \in Linked(n.iss, n.sub)}

\* account_for, as far as it reads: a linked account, active and no admin, or a stranger
\* with a free address.  Otherwise the request is refused.
IssueRead(r) ==
    LET n == tx[r].n
    IN  /\ tx[r].at = "issue"
        /\ IF AccountOf(n) # {}
           THEN LET u == CHOOSE u \in AccountOf(n) : TRUE
                IN  IF users[u].out \/ users[u].role \in AdminRoles
                    THEN tx' = Done(r) /\ UNCHANGED sessions
                    ELSE /\ tx' = Done(r)
                         /\ sessions' = sessions \cup {[iss |-> n.iss, sub |-> n.sub, user |-> u]}
           ELSE /\ tx' = IF n.email = NULL \/ Taken(n.email, NULL) THEN Done(r)
                         ELSE [tx EXCEPT ![r] = [op |-> "note", at |-> "arrive", n |-> n,
                                                 last |-> @.last, grant |-> ResolveRole(n)]]
                /\ UNCHANGED sessions
        /\ UNCHANGED <<now, users, registry, links, spent, edits, accepted, linked, shaken,
                       failed>>

\* Mutant: losing to the winner of a race is not tried again.
RetryNever(r) == Done(r)

\* _issue, on an IntegrityError: once more from the read, and then it gives up.
Retry(r) ==
    IF tx[r].last THEN Done(r)
    ELSE [tx EXCEPT ![r] = [op |-> "note", at |-> "issue", n |-> @.n, last |-> TRUE]]

\* The account and its link are written and committed together.
IssueCommit(r, id) ==
    LET n == tx[r].n
        pair == [iss |-> n.iss, sub |-> n.sub]
    IN  /\ tx[r].at = "arrive" /\ id \notin Users
        /\ IF Taken(n.email, id) \/ Linked(n.iss, n.sub) # {} \/ issuers[n.iss] = "absent"
           THEN /\ tx' = Retry(r)
                /\ failed' = (failed \/ (tx'[r] = Idle /\ r \notin shaken))
                /\ UNCHANGED <<users, links, sessions>>
           ELSE /\ users' = With(id, [email |-> n.email, role |-> tx[r].grant.role,
                                      unit |-> tx[r].grant.unit, mgr |-> NULL, out |-> FALSE,
                                      by |-> pair])
                /\ links' = links \cup {[iss |-> n.iss, sub |-> n.sub, user |-> id]}
                /\ sessions' = sessions \cup {[iss |-> n.iss, sub |-> n.sub, user |-> id]}
                /\ tx' = Done(r) /\ UNCHANGED failed
        /\ UNCHANGED <<now, registry, spent, edits, accepted, linked, shaken>>
-----------------------------------------------------------------------------
Tick == now < MaxNow /\ now' = now + 1
        /\ UNCHANGED <<users, registry, links, spent, tx, edits, ghosts>>

People(r) ==
    \/ /\ edits < MaxEdits /\ tx[r].at = "idle"
       /\ \/ \E w \in Users, p \in Creates : CreateUser(r, w, p)
          \/ \E w \in Users, p \in Updates : UpdateUser(r, w, p.id, p)
          \/ \E p \in Asserts : HostAsserts(r, p)
          \/ \E w, u \in Users, n \in Notes : CreateLink(r, w, n.iss, n.sub, u)
    \/ CreateCommit(r) \/ UpdateCommit(r) \/ Provision(r) \/ BringUpToDate(r) \/ LinkCommit(r)

Registry ==
    edits < MaxEdits /\ \E w \in Users :
      \/ \E u \in Users, out \in BOOLEAN : SetOut(w, u, out)
      \/ \E i \in Issuers : SwitchIssuer(w, i, "on") \/ SwitchIssuer(w, i, "off")
      \/ \E i \in Issuers : DeleteIssuer(w, i)
      \/ \E i \in Issuers, kid \in Kids : AddKey(w, i, kid)
      \/ \E k \in keys : DeleteKey(w, k) \/ \E t \in {now, now + 1} : RetireKey(w, k, t)
      \/ \E i \in Issuers, g \in Groups, role \in {"STAFF", "MEMBER"}, unit \in Units \cup {NULL} :
           AddRoleMapEntry(w, i, g, role, unit)
      \/ \E n \in DOMAIN map : DeleteRoleMapEntry(w, n)
      \/ \E l \in links : DeleteLink(w, l)

\* federated: every refusal leaves things as they are.
Exchange(r) ==
    \/ \E n \in Notes : Check(r, n)
    \/ SpendJti(r) \/ IssueRead(r)
    \/ tx[r].at = "arrive" /\ \E id \in Ids : IssueCommit(r, id)

Next == Registry \/ Tick \/ \E r \in Requests : People(r) \/ Exchange(r)

Spec == Init /\ [][Next]_vars
-----------------------------------------------------------------------------

\* Signing in finds an account by its address alone, so an address is one account's
\* whatever creates, renames, asserts and provisions at once.
OneAccountPerAddress == \A u, v \in Users : users[u].email = users[v].email => u = v

\* A note is traded once in its life, whatever time passes between the checks of an
\* exchange and its SET NX: the record of its jti is held at least as long as exp and the
\* skew let it pass (federated_identity.py: "never expires while the note is alive").
\* An exchange that passed exp in time and comes to its SET NX after the note's end, when
\* the record may be gone, is not counted.
NotesAreSpentOnce == \A n \in Notes : accepted[n] <= 1

\* An issuer reaches only the accounts it brought and the ones an administrator linked,
\* whatever addresses its notes carry (EmailAlreadyTaken: "never linked, always refused").
OnlyLinksAdmit ==
    \A s \in sessions : s \in linked \/ users[s.user].by = [iss |-> s.iss, sub |-> s.sub]

\* Who signs in is who the address or the link names, and nobody else.
SignInsReachTheirOwn == OneAccountPerAddress /\ OnlyLinksAdmit

\* Of two notes that arrive for one stranger at once, the loser is answered from what the
\* winner committed: an exchange fails only where something was deleted or renamed under
\* it (auth.py, _issue: "Once is enough").
OnceIsEnough == ~failed

=============================================================================
