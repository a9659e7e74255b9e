-------------------------- MODULE DirectoryProofs ---------------------------
(***************************************************************************)
(* Proofs about Directory, for every set of accounts, notes and requests:  *)
(* an address is one account's, a note admits only to what it was linked   *)
(* to or brought, it is traded once in its life, and one retry is enough.  *)
(***************************************************************************)
EXTENDS Directory, TLAPS

\* The columns of an account, whatever they hold.
IsAccount(a) ==
    a = [email |-> a.email, role |-> a.role, unit |-> a.unit, mgr |-> a.mgr, out |-> a.out,
         by |-> a.by]

Link == [iss : Issuers, sub : {"s", "t"}, user : Ids]

\* A request that has read, and what it has read is there.
Pending(x, U) ==
    \/ x = Idle
    \/ x.op = "create" /\ x.at = "insert" /\ x.p \in Creates
    \/ x.op = "update" /\ x.at = "update" /\ x.id \in U /\ x.p \in Updates
    \/ x \in [op : {"host"}, at : {"insert", "assert"}, p : Asserts] /\ (x.at = "assert" => x.p.id \in U)
    \/ x.op = "link" /\ x.at = "link" /\ x.row \in Link /\ x.row.user \in U
    \/ x.op = "note" /\ x.at \in {"spend", "issue", "arrive"} /\ x.n \in Notes
       /\ x.last \in BOOLEAN

\* Types of the tables, and of what each request has read.
TypeOK ==
    /\ now \in Nat
    /\ Users \subseteq Ids /\ users = [u \in Users |-> users[u]] /\ \A u \in Users : IsAccount(users[u])
    /\ issuers \in [Issuers -> {"on", "off", "absent"}]
    /\ links \subseteq Link
    /\ spent \in [Notes -> Nat] /\ accepted \in [Notes -> Nat]
    /\ tx = [r \in Requests |-> tx[r]] /\ \A r \in Requests : Pending(tx[r], Users)

\* What a link or a session says was said by an administrator, or the account came
\* with the very note.
Owned(l) == l.user \in Users /\ (l \in linked \/ users[l.user].by = [iss |-> l.iss, sub |-> l.sub])

LinksAreOwned == \A l \in links \cup sessions : Owned(l)

\* A note has no more left of its life than the cap.
Capped(n) == n.exp - now \div 2 <= Cap

\* So it is with every note that is about to be recorded: time only takes from what is left.
ChecksHold == \A r \in Requests : tx[r].at = "spend" => Capped(tx[r].n)

\* The record of a note outlives the note.
RecordsOutlive ==
    \A n \in Notes :
        accepted[n] <= 1 /\ (accepted[n] = 1 => 2 * n.exp + 2 * Skew <= spent[n])

Known(email) == \E u \in Users : users[u].email = email

\* The exchange finds its issuer, and the second time what made it lose the first.
Finds(r) ==
    tx[r].op = "note" =>
        /\ issuers[tx[r].n.iss] # "absent"
        /\ tx[r].last =>
             /\ tx[r].at = "issue"
             /\ Known(tx[r].n.email) \/ Linked(tx[r].n.iss, tx[r].n.sub) # {}

\* So does every exchange under which nothing was deleted or renamed.
LosersFindTheWinner == \A r \in Requests \ shaken : Finds(r)

Inv ==
    /\ TypeOK /\ OneAccountPerAddress /\ LinksAreOwned /\ ChecksHold /\ RecordsOutlive
    /\ LosersFindTheWinner /\ ~failed
-----------------------------------------------------------------------------
(* What a step does to the accounts. *)

\* A new account, at a free id and a free address.
Joins(id, row) ==
    /\ id \in Ids \ Users /\ IsAccount(row) /\ ~Taken(row.email, id)
    /\ users' = With(id, row)

\* An account changes: it keeps who brought it, and its address but for a free one.
Changes(u, row) ==
    /\ u \in Users /\ IsAccount(row) /\ row.by = users[u].by
    /\ row.email = users[u].email \/ (~Taken(row.email, u) /\ Shake)
    /\ users' = With(u, row)

\* What With says of each account.
LEMMA WithIs ==
    ASSUME NEW id, NEW row, users' = With(id, row)
    PROVE  /\ Users' = Users \cup {id} /\ users'[id] = row
           /\ \A u \in Users \ {id} : users'[u] = users[u]
           /\ users' = [u \in Users' |-> users'[u]]
BY DEF With, Users

LEMMA CreateCommitStep ==
    ASSUME Inv, NEW r \in Requests, CreateCommit(r)
    PROVE  UNCHANGED users \/ \E id, row : Joins(id, row)
<1> DEFINE p == tx[r].p
           row == Account(p, NULL)
<1>1. p \in Creates  BY DEF CreateCommit, Inv, TypeOK, Pending, Idle
<1>2. p.id \in Ids  BY <1>1, PayloadsAssumption DEF UserCreate
<1>3. IsAccount(row) /\ row.email = p.email  BY DEF IsAccount, Account
<1>4. CASE Collides(p.id, p.email)  BY <1>4 DEF CreateCommit
<1>5. CASE ~Collides(p.id, p.email)
  <2>1. users' = With(p.id, row)  BY <1>5 DEF CreateCommit
  <2> HIDE DEF row
  <2>2. Joins(p.id, row)  BY <1>2, <1>3, <1>5, <2>1 DEF Joins, Collides
  <2> QED BY <2>2
<1> QED BY <1>4, <1>5

LEMMA UpdateCommitStep ==
    ASSUME Inv, NEW r \in Requests, UpdateCommit(r)
    PROVE  UNCHANGED users \/ \E u, row : Changes(u, row)
<1> DEFINE u == tx[r].id
           p == tx[r].p
           row == [email |-> Or(p.email, users[u].email), role |-> users[u].role,
                   unit |-> Or(p.unit, users[u].unit), mgr |-> Or(p.mgr, users[u].mgr),
                   out |-> users[u].out, by |-> users[u].by]
<1>1. u \in Users /\ Shake
  <2>1. Pending(tx[r], Users) /\ tx[r].at = "update"  BY DEF UpdateCommit, Inv, TypeOK
  <2> QED BY <2>1 DEF UpdateCommit, Pending, Idle
<1>2. CASE p.email # "unset" /\ Taken(p.email, u)  BY <1>2 DEF UpdateCommit
<1>3. CASE p.email = "unset" \/ ~Taken(p.email, u)
  <2>1. users' = [users EXCEPT ![u].email = Or(p.email, @), ![u].mgr = Or(p.mgr, @),
                               ![u].unit = Or(p.unit, @)]
    BY <1>3 DEF UpdateCommit
  <2>2. users[u] = [email |-> users[u].email, role |-> users[u].role, unit |-> users[u].unit,
                    mgr |-> users[u].mgr, out |-> users[u].out, by |-> users[u].by]
    BY <1>1 DEF Inv, TypeOK, IsAccount
  <2>3. users'[u] = row /\ DOMAIN users' = Users  BY <1>1, <2>1, <2>2 DEF Users
  <2>4. \A v \in Users \ {u} : users'[v] = users[v]  BY <2>1 DEF Users
  <2>5. users' = [v \in Users |-> users'[v]]  BY <2>1, <2>3 DEF Users
  <2> HIDE DEF row
  <2>6. users' = With(u, row)  BY <1>1, <2>3, <2>4, <2>5 DEF With
  <2>7. IsAccount(row) /\ row.by = users[u].by /\ row.email = Or(p.email, users[u].email)
    BY DEF IsAccount, row
  <2>8. row.email = users[u].email \/ (~Taken(row.email, u) /\ Shake)
    BY <1>1, <1>3, <2>7 DEF Or
  <2>9. Changes(u, row)  BY <1>1, <2>6, <2>7, <2>8 DEF Changes
  <2> QED BY <2>9
<1> QED BY <1>2, <1>3

LEMMA SetOutStep ==
    ASSUME Inv, NEW w, NEW u \in Users, NEW out, SetOut(w, u, out)
    PROVE  \E row : Changes(u, row) /\ row.email = users[u].email
<1> DEFINE row == [email |-> users[u].email, role |-> users[u].role, unit |-> users[u].unit,
                   mgr |-> users[u].mgr, out |-> out, by |-> users[u].by]
<1>1. users' = [users EXCEPT ![u].out = out]  BY DEF SetOut
<1>2. users[u] = [email |-> users[u].email, role |-> users[u].role, unit |-> users[u].unit,
                  mgr |-> users[u].mgr, out |-> users[u].out, by |-> users[u].by]
  BY DEF Inv, TypeOK, IsAccount
<1>3. users'[u] = row /\ DOMAIN users' = Users  BY <1>1, <1>2 DEF Users
<1>4. \A v \in Users \ {u} : users'[v] = users[v]  BY <1>1 DEF Users
<1>5. users' = [v \in Users |-> users'[v]]  BY <1>1, <1>3 DEF Users
<1>6. IsAccount(row) /\ row.by = users[u].by /\ row.email = users[u].email  BY DEF IsAccount
<1> HIDE DEF row
<1>7. users' = With(u, row)  BY <1>3, <1>4, <1>5 DEF With
<1>8. Changes(u, row)  BY <1>6, <1>7 DEF Changes
<1> QED BY <1>6, <1>8

LEMMA ProvisionStep ==
    ASSUME Inv, NEW r \in Requests, Provision(r)
    PROVE  UNCHANGED users \/ \E id, row : Joins(id, row)
<1> DEFINE p == tx[r].p
           row == [email |-> p.email, role |-> p.role, unit |-> Or(p.unit, NULL), mgr |-> NULL,
                   out |-> FALSE, by |-> NULL]
<1>1. p \in Asserts  BY DEF Provision, Inv, TypeOK, Pending, Idle
<1>2. p.id \in Ids  BY <1>1, PayloadsAssumption DEF HostActor
<1>3. IsAccount(row) /\ row.email = p.email  BY DEF IsAccount
<1>4. CASE Collides(p.id, p.email)  BY <1>4 DEF Provision
<1>5. CASE ~Collides(p.id, p.email)
  <2>1. users' = With(p.id, row)  BY <1>5 DEF Provision
  <2> HIDE DEF row
  <2>2. Joins(p.id, row)  BY <1>2, <1>3, <1>5, <2>1 DEF Joins, Collides
  <2> QED BY <2>2
<1> QED BY <1>4, <1>5

LEMMA BringUpToDateStep ==
    ASSUME Inv, NEW r \in Requests, BringUpToDate(r)
    PROVE  UNCHANGED users \/ \E u, row : Changes(u, row)
<1> DEFINE p == tx[r].p
           u == p.id
           row == [email |-> p.email, role |-> p.role, unit |-> Or(p.unit, users[u].unit),
                   mgr |-> users[u].mgr, out |-> users[u].out, by |-> users[u].by]
<1>1. u \in Users /\ Shake
  <2>1. Pending(tx[r], Users) /\ tx[r].at = "assert"  BY DEF BringUpToDate, Inv, TypeOK
  <2> QED BY <2>1 DEF BringUpToDate, Pending, Idle
<1>2. users[u] = [email |-> users[u].email, role |-> users[u].role, unit |-> users[u].unit,
                  mgr |-> users[u].mgr, out |-> users[u].out, by |-> users[u].by]
  BY <1>1 DEF Inv, TypeOK, IsAccount
<1>3. Asserted(u, p) = row
  <2>1. Asserted(u, p) = [users[u] EXCEPT !.role = p.role, !.email = p.email,
                                          !.unit = Or(p.unit, users[u].unit)]
    BY DEF Asserted
  <2> QED BY <1>2, <2>1
<1>4. IsAccount(row) /\ row.by = users[u].by /\ row.email = p.email  BY DEF IsAccount
<1> HIDE DEF row
<1>5. CASE Taken(p.email, u)  BY <1>5 DEF BringUpToDate
<1>6. CASE ~Taken(p.email, u)
  <2>1. users' = With(u, row)  BY <1>3, <1>6 DEF BringUpToDate
  <2>2. Changes(u, row)  BY <1>1, <1>4, <1>6, <2>1 DEF Changes
  <2> QED BY <2>2
<1> QED BY <1>5, <1>6

LEMMA IssueCommitStep ==
    ASSUME Inv, NEW r \in Requests, NEW id \in Ids, IssueCommit(r, id)
    PROVE  \/ UNCHANGED <<users, links, sessions>>
           \/ \E row :
                LET n == tx[r].n
                    l == [iss |-> n.iss, sub |-> n.sub, user |-> id]
                IN  /\ Joins(id, row) /\ row.by = [iss |-> n.iss, sub |-> n.sub] /\ l \in Link
                    /\ links' = links \cup {l} /\ sessions' = sessions \cup {l}
<1> DEFINE n == tx[r].n
           row == [email |-> n.email, role |-> tx[r].grant.role, unit |-> tx[r].grant.unit,
                   mgr |-> NULL, out |-> FALSE, by |-> [iss |-> n.iss, sub |-> n.sub]]
           lost == Taken(n.email, id) \/ Linked(n.iss, n.sub) # {} \/ issuers[n.iss] = "absent"
<1>1. n \in Notes /\ id \notin Users  BY DEF IssueCommit, Inv, TypeOK, Pending, Idle
<1>2. n.iss \in Issuers /\ n.sub \in {"s", "t"}  BY <1>1, NotesAssumption DEF Note
<1>3. CASE lost  BY <1>3 DEF IssueCommit
<1>4. CASE ~lost
  <2>1. /\ users' = With(id, row)
        /\ links' = links \cup {[iss |-> n.iss, sub |-> n.sub, user |-> id]}
        /\ sessions' = sessions \cup {[iss |-> n.iss, sub |-> n.sub, user |-> id]}
    BY <1>4 DEF IssueCommit
  <2>2. /\ IsAccount(row) /\ row.email = n.email /\ row.by = [iss |-> n.iss, sub |-> n.sub]
    BY DEF IsAccount
  <2> HIDE DEF row
  <2>3. Joins(id, row)  BY <1>1, <1>4, <2>1, <2>2 DEF Joins
  <2>4. [iss |-> n.iss, sub |-> n.sub, user |-> id] \in Link  BY <1>2 DEF Link
  <2> QED BY <2>1, <2>2, <2>3, <2>4
<1> QED BY <1>3, <1>4

\* The steps that leave the accounts alone.
LEMMA AccountsAlone ==
    ASSUME NEW r \in Requests, People(r) \/ Exchange(r)
    PROVE  \/ UNCHANGED users
           \/ CreateCommit(r) \/ UpdateCommit(r) \/ Provision(r) \/ BringUpToDate(r)
           \/ \E id \in Ids : IssueCommit(r, id)
BY DEF People, Exchange, CreateUser, UpdateUser, HostAsserts, CreateLink, LinkCommit, Check,
       SpendJti, IssueRead

\* Every step leaves the accounts alone, adds one or changes one.
LEMMA AccountsStep ==
    ASSUME Inv, [Next]_vars
    PROVE  \/ UNCHANGED users
           \/ \E id, row : Joins(id, row)
           \/ \E u, row : Changes(u, row)
<1>1. ASSUME NEW r \in Requests, People(r) \/ Exchange(r)
      PROVE  \/ UNCHANGED users
             \/ \E id, row : Joins(id, row)
             \/ \E u, row : Changes(u, row)
  BY <1>1, AccountsAlone, CreateCommitStep, UpdateCommitStep, ProvisionStep, BringUpToDateStep,
     IssueCommitStep
<1>2. CASE Registry
  <2>1. ASSUME NEW w \in Users, NEW u \in Users, NEW out \in BOOLEAN, SetOut(w, u, out)
        PROVE  \E v, row : Changes(v, row)
    BY <2>1, SetOutStep
  <2> QED BY <1>2, <2>1 DEF Registry, SwitchIssuer, DeleteIssuer, AddKey, DeleteKey, RetireKey,
                            AddRoleMapEntry, DeleteRoleMapEntry, DeleteLink
<1> QED BY <1>1, <1>2 DEF Next, Tick, vars

\* Accounts are never deleted, and keep who brought them.
LEMMA AccountsStay ==
    ASSUME Inv, [Next]_vars
    PROVE  Users \subseteq Users' /\ \A u \in Users : users'[u].by = users[u].by
<1>1. CASE UNCHANGED users  BY <1>1 DEF Users
<1>2. ASSUME NEW id, NEW row, Joins(id, row)
      PROVE  Users \subseteq Users' /\ \A u \in Users : users'[u].by = users[u].by
  BY <1>2, WithIs DEF Joins
<1>3. ASSUME NEW v, NEW row, Changes(v, row)
      PROVE  Users \subseteq Users' /\ \A u \in Users : users'[u].by = users[u].by
  BY <1>3, WithIs DEF Changes
<1> QED BY <1>1, <1>2, <1>3, AccountsStep

\* The unique index on the address is asked at every commit.
LEMMA AddressesKept ==
    ASSUME Inv, [Next]_vars
    PROVE  OneAccountPerAddress'
<1>1. CASE UNCHANGED users  BY <1>1 DEF Inv, OneAccountPerAddress, Users
<1>2. ASSUME NEW id, NEW row, Joins(id, row) PROVE OneAccountPerAddress'
  <2>1. \A u \in Users : users[u].email # row.email /\ u # id  BY <1>2 DEF Joins, Taken
  <2> QED BY <1>2, <2>1, WithIs DEF Joins, Inv, OneAccountPerAddress
<1>3. ASSUME NEW v, NEW row, Changes(v, row) PROVE OneAccountPerAddress'
  <2>1. \A u \in Users \ {v} : users[u].email # row.email
    BY <1>3 DEF Changes, Taken, Inv, OneAccountPerAddress
  <2> QED BY <1>3, <2>1, WithIs DEF Changes, Inv, OneAccountPerAddress
<1> QED BY <1>1, <1>2, <1>3, AccountsStep

\* Accounts keep their columns.
LEMMA AccountsTyped ==
    ASSUME Inv, [Next]_vars
    PROVE  /\ Users' \subseteq Ids /\ users' = [u \in Users' |-> users'[u]]
           /\ \A u \in Users' : IsAccount(users'[u])
<1>1. CASE UNCHANGED users  BY <1>1 DEF Inv, TypeOK, Users
<1>2. ASSUME NEW id, NEW row, id \in Ids, IsAccount(row), users' = With(id, row)
      PROVE  /\ Users' \subseteq Ids /\ users' = [u \in Users' |-> users'[u]]
             /\ \A u \in Users' : IsAccount(users'[u])
  BY <1>2, WithIs DEF Inv, TypeOK
<1> QED BY <1>1, <1>2, AccountsStep DEF Joins, Changes, Inv, TypeOK
-----------------------------------------------------------------------------
(* What a step does to the requests. *)

\* No request is pending for any set of accounts; more accounts change nothing.
LEMMA PendingGrows ==
    ASSUME NEW x, NEW U, NEW V, U \subseteq V, Pending(x, U)
    PROVE  Pending(x, V)
BY DEF Pending

\* A request goes on in the same step.
Goes(r) == \E x : /\ Pending(x, Users') /\ tx' = [tx EXCEPT ![r] = x]
                  /\ x.at = "spend" => Capped(x.n)

LEMMA EndsPending ==
    ASSUME NEW r, tx' = Done(r)
    PROVE  Goes(r)
<1>1. Pending(Idle, Users') /\ Idle.at # "spend"  BY DEF Pending, Idle
<1> QED BY <1>1 DEF Goes, Done

LEMMA GoesOn ==
    ASSUME NEW r, NEW x, Pending(x, Users'), tx' = [tx EXCEPT ![r] = x],
           x.at = "spend" => Capped(x.n)
    PROVE  Goes(r)
BY DEF Goes

LEMMA PeopleGo ==
    ASSUME Inv, NEW r \in Requests, People(r), [Next]_vars
    PROVE  Goes(r)
<1>1. Users \subseteq Users' /\ Pending(tx[r], Users)  BY AccountsStay DEF Inv, TypeOK
<1>2. ASSUME NEW w \in Users, NEW p \in Creates, CreateUser(r, w, p) PROVE Goes(r)
  <2> DEFINE x == [op |-> "create", at |-> "insert", p |-> p]
  <2>1. tx' = [tx EXCEPT ![r] = x]  BY <1>2 DEF CreateUser
  <2>2. Pending(x, Users') /\ x.at = "insert"  BY DEF Pending
  <2> HIDE DEF x
  <2> QED BY <2>1, <2>2, GoesOn
<1>3. ASSUME NEW w \in Users, NEW p \in Updates, UpdateUser(r, w, p.id, p) PROVE Goes(r)
  <2> DEFINE x == [op |-> "update", at |-> "update", id |-> p.id, p |-> p]
  <2>1. tx' = [tx EXCEPT ![r] = x] /\ p.id \in Users  BY <1>3 DEF UpdateUser
  <2>2. Pending(x, Users') /\ x.at = "update"  BY <1>1, <2>1 DEF Pending
  <2> HIDE DEF x
  <2> QED BY <2>1, <2>2, GoesOn
<1>4. ASSUME NEW p \in Asserts, HostAsserts(r, p) PROVE Goes(r)
  <2> DEFINE a == IF p.id \in Users THEN "assert" ELSE "insert"
             x == [op |-> "host", at |-> a, p |-> p]
  <2>1. tx' = [tx EXCEPT ![r] = x]  BY <1>4 DEF HostAsserts
  <2>2. a \in {"insert", "assert"} /\ (a = "assert" => p.id \in Users)  OBVIOUS
  <2> HIDE DEF a
  <2>3. Pending(x, Users') /\ x.at # "spend"  BY <1>1, <2>2 DEF Pending
  <2> HIDE DEF x
  <2> QED BY <2>1, <2>3, GoesOn
<1>5. CASE CreateCommit(r) \/ UpdateCommit(r) \/ BringUpToDate(r) \/ LinkCommit(r)
  BY <1>5, EndsPending DEF CreateCommit, UpdateCommit, BringUpToDate, LinkCommit
<1>6. CASE Provision(r)
  <2>1. tx' = Done(r) \/ (tx[r].p.id \in Users /\ tx' = [tx EXCEPT ![r].at = "assert"])
    BY <1>6 DEF Provision
  <2>2. CASE tx[r].p.id \in Users /\ tx' = [tx EXCEPT ![r].at = "assert"]
    <3>1. tx[r].op = "host" /\ tx[r].at = "insert"  BY <1>6 DEF Provision
    <3>2. tx[r] \in [op : {"host"}, at : {"insert", "assert"}, p : Asserts]
      BY <1>1, <3>1 DEF Pending, Idle
    <3> DEFINE x == [op |-> "host", at |-> "assert", p |-> tx[r].p]
    <3>3. [tx[r] EXCEPT !.at = "assert"] = x  BY <3>1, <3>2
    <3>4. tx' = [tx EXCEPT ![r] = x]  BY <2>2, <3>3
    <3>5. x \in [op : {"host"}, at : {"insert", "assert"}, p : Asserts]
          /\ x.p.id \in Users'
      BY <1>1, <2>2, <3>2
    <3>6. Pending(x, Users') /\ x.at # "spend"  BY <3>5 DEF Pending
    <3> HIDE DEF x
    <3> QED BY <3>4, <3>6, GoesOn
  <2> QED BY <2>1, <2>2, EndsPending
<1>7. ASSUME NEW w \in Users, NEW u \in Users, NEW n \in Notes, CreateLink(r, w, n.iss, n.sub, u)
      PROVE  Goes(r)
  <2> DEFINE l == [iss |-> n.iss, sub |-> n.sub, user |-> u]
             x == [op |-> "link", at |-> "link", row |-> l]
  <2>1. l \in Link /\ l.user = u  BY NotesAssumption DEF Link, Note, Inv, TypeOK
  <2>2. tx' = [tx EXCEPT ![r] = x]  BY <1>7 DEF CreateLink
  <2> HIDE DEF l
  <2>3. Pending(x, Users') /\ x.at = "link"  BY <1>1, <2>1 DEF Pending
  <2> HIDE DEF x
  <2> QED BY <2>2, <2>3, GoesOn
<1> QED BY <1>2, <1>3, <1>4, <1>5, <1>6, <1>7 DEF People

LEMMA ExchangeGoes ==
    ASSUME Inv, NEW r \in Requests, Exchange(r), [Next]_vars
    PROVE  Goes(r)
<1>1. Pending(tx[r], Users)  BY DEF Inv, TypeOK
<1>2. ASSUME NEW n \in Notes, Check(r, n) PROVE Goes(r)
  <2> DEFINE x == [op |-> "note", at |-> "spend", n |-> n, last |-> FALSE]
  <2>1. tx' = [tx EXCEPT ![r] = x] /\ Capped(n)  BY <1>2 DEF Check, InTime, Capped
  <2>2. Pending(x, Users') /\ x.n = n  BY DEF Pending
  <2> HIDE DEF x
  <2> QED BY <2>1, <2>2, GoesOn
<1>3. ASSUME tx[r].at \in {"spend", "issue", "arrive"}
      PROVE  tx[r].n \in Notes /\ tx[r].last \in BOOLEAN
  BY <1>1, <1>3 DEF Pending, Idle
<1>6. CASE SpendJti(r)
  <2> DEFINE x == [op |-> "note", at |-> "issue", n |-> tx[r].n, last |-> FALSE]
  <2>1. tx[r].at = "spend" /\ (tx' = Done(r) \/ tx' = [tx EXCEPT ![r] = x])  BY <1>6 DEF SpendJti
  <2>2. Pending(x, Users') /\ x.at = "issue"  BY <1>3, <2>1 DEF Pending
  <2> HIDE DEF x
  <2> QED BY <2>1, <2>2, EndsPending, GoesOn
<1>4. CASE IssueRead(r)
  <2> DEFINE x == [op |-> "note", at |-> "arrive", n |-> tx[r].n, last |-> tx[r].last,
                   grant |-> ResolveRole(tx[r].n)]
  <2>1. tx[r].at = "issue" /\ (tx' = Done(r) \/ tx' = [tx EXCEPT ![r] = x])  BY <1>4 DEF IssueRead
  <2>2. Pending(x, Users') /\ x.at = "arrive"  BY <1>3, <2>1 DEF Pending
  <2> HIDE DEF x
  <2> QED BY <2>1, <2>2, EndsPending, GoesOn
<1>5. ASSUME NEW id \in Ids, IssueCommit(r, id) PROVE Goes(r)
  <2> DEFINE x == [op |-> "note", at |-> "issue", n |-> tx[r].n, last |-> TRUE]
  <2>1. tx[r].at = "arrive" /\ (tx' = Done(r) \/ tx' = [tx EXCEPT ![r] = x])
    BY <1>5 DEF IssueCommit, Retry
  <2>2. Pending(x, Users') /\ x.at = "issue"  BY <1>3, <2>1 DEF Pending
  <2> HIDE DEF x
  <2> QED BY <2>1, <2>2, EndsPending, GoesOn
<1> QED BY <1>2, <1>4, <1>5, <1>6 DEF Exchange

\* Time does not run back.
LEMMA TimeGoesOn ==
    ASSUME Inv, [Next]_vars
    PROVE  now' \in Nat /\ now \div 2 <= now' \div 2
<1>1. now \in Nat  BY DEF Inv, TypeOK
<1>2. now' \in {now, now + 1}
  <2>1. ASSUME NEW r \in Requests, People(r) \/ Exchange(r) PROVE UNCHANGED now
    BY <2>1 DEF People, Exchange, CreateUser, UpdateUser, HostAsserts, CreateLink, CreateCommit,
                UpdateCommit, Provision, BringUpToDate, LinkCommit, Check, SpendJti, IssueRead,
                IssueCommit
  <2>2. Registry => UNCHANGED now
    BY DEF Registry, SetOut, SwitchIssuer, DeleteIssuer, AddKey, DeleteKey, RetireKey,
           AddRoleMapEntry, DeleteRoleMapEntry, DeleteLink
  <2> QED BY <2>1, <2>2 DEF Next, Tick, vars
<1> QED BY <1>1, <1>2

\* At most one request goes on in a step, and all stay pending.
LEMMA RequestsTyped ==
    ASSUME Inv, [Next]_vars
    PROVE  /\ tx' = [r \in Requests |-> tx'[r]] /\ \A r \in Requests : Pending(tx'[r], Users')
           /\ ChecksHold'
<1>1. Users \subseteq Users'  BY AccountsStay
<1>2. \A r \in Requests : Pending(tx[r], Users')  BY <1>1, PendingGrows DEF Inv, TypeOK
<1>3. UNCHANGED tx \/ \E r \in Requests : Goes(r)
  <2>1. CASE Registry
    BY <2>1 DEF Registry, SetOut, SwitchIssuer, DeleteIssuer, AddKey, DeleteKey, RetireKey,
                AddRoleMapEntry, DeleteRoleMapEntry, DeleteLink
  <2> QED BY <2>1, PeopleGo, ExchangeGoes DEF Next, Tick, vars
<1>6. ASSUME \A r \in Requests : /\ Pending(tx'[r], Users')
                                 /\ tx'[r].at = "spend" => Capped(tx'[r].n)
      PROVE  ChecksHold'
  <2> SUFFICES ASSUME NEW r \in Requests, tx'[r].at = "spend"
               PROVE  tx'[r].n.exp - now' \div 2 <= Cap
    BY DEF ChecksHold, Capped
  <2>1. tx'[r].n \in Notes  BY <1>6 DEF Pending, Idle
  <2>2. tx'[r].n.exp \in Int /\ Cap \in Nat  BY <2>1, NotesAssumption, DirectoryAssumption DEF Note
  <2>3. tx'[r].n.exp - now \div 2 <= Cap  BY <1>6 DEF Capped
  <2> DEFINE a == now \div 2
             b == now' \div 2
             e == tx'[r].n.exp
  <2>4. a \in Int /\ b \in Int /\ a <= b  BY TimeGoesOn DEF Inv, TypeOK
  <2>5. e - a <= Cap /\ e \in Int /\ Cap \in Nat  BY <2>2, <2>3
  <2> HIDE DEF a, b, e
  <2>6. e - b <= Cap  BY <2>4, <2>5
  <2> QED BY <2>6 DEF b, e
<1>4. CASE UNCHANGED tx  BY <1>2, <1>4, <1>6 DEF Inv, TypeOK, ChecksHold
<1>5. ASSUME NEW r \in Requests, NEW x, Pending(x, Users'), tx' = [tx EXCEPT ![r] = x],
             x.at = "spend" => Capped(x.n)
      PROVE  /\ tx' = [s \in Requests |-> tx'[s]] /\ \A s \in Requests : Pending(tx'[s], Users')
             /\ ChecksHold'
  <2>1. DOMAIN tx = Requests  BY DEF Inv, TypeOK
  <2>2. tx'[r] = x /\ \A s \in Requests \ {r} : tx'[s] = tx[s]  BY <1>5, <2>1
  <2>3. \A s \in Requests : /\ Pending(tx'[s], Users')
                            /\ tx'[s].at = "spend" => Capped(tx'[s].n)
    BY <1>2, <1>5, <2>2 DEF Inv, ChecksHold
  <2> QED BY <1>5, <1>6, <2>1, <2>3
<1> QED BY <1>3, <1>4, <1>5 DEF Goes
-----------------------------------------------------------------------------
(* Links and sessions. *)

\* Who may be reached under what stays so.
LEMMA OwnedStays ==
    ASSUME Inv, [Next]_vars, linked \subseteq linked', NEW l, Owned(l)
    PROVE  l.user \in Users' /\ (l \in linked' \/ users'[l.user].by = [iss |-> l.iss, sub |-> l.sub])
BY AccountsStay DEF Owned

\* Links come of an administrator or with their account, and sessions of links.
LEMMA LinksKept ==
    ASSUME Inv, [Next]_vars
    PROVE  links' \subseteq Link /\ LinksAreOwned'
<1>1. ASSUME links' \subseteq links, sessions' \subseteq sessions, linked \subseteq linked'
      PROVE  links' \subseteq Link /\ LinksAreOwned'
  <2>1. links' \subseteq Link  BY <1>1 DEF Inv, TypeOK
  <2>2. ASSUME NEW l \in links' \cup sessions'
        PROVE  l.user \in Users'
               /\ (l \in linked' \/ users'[l.user].by = [iss |-> l.iss, sub |-> l.sub])
    BY <1>1, <2>2, OwnedStays DEF Inv, LinksAreOwned
  <2> QED BY <2>1, <2>2 DEF LinksAreOwned, Owned
<1>2. ASSUME NEW l \in Link, linked \subseteq linked',
             links' \subseteq links \cup {l}, sessions' \subseteq sessions \cup {l},
             l.user \in Users', l \in linked' \/ users'[l.user].by = [iss |-> l.iss, sub |-> l.sub]
      PROVE  links' \subseteq Link /\ LinksAreOwned'
  <2>1. links' \subseteq Link  BY <1>2 DEF Inv, TypeOK
  <2>2. ASSUME NEW k \in (links \cup sessions) \cup {l}
        PROVE  k.user \in Users'
               /\ (k \in linked' \/ users'[k.user].by = [iss |-> k.iss, sub |-> k.sub])
    BY <1>2, <2>2, OwnedStays DEF Inv, LinksAreOwned
  <2>3. links' \cup sessions' \subseteq (links \cup sessions) \cup {l}  BY <1>2
  <2> QED BY <2>1, <2>2, <2>3 DEF LinksAreOwned, Owned
<1>3. ASSUME NEW r \in Requests, LinkCommit(r) PROVE links' \subseteq Link /\ LinksAreOwned'
  <2>1. Pending(tx[r], Users) /\ tx[r].at = "link"  BY <1>3 DEF LinkCommit, Inv, TypeOK
  <2>2. tx[r].row \in Link /\ tx[r].row.user \in Users  BY <2>1 DEF Pending, Idle
  <2>3. CASE UNCHANGED <<links, linked>>  BY <1>1, <1>3, <2>3 DEF LinkCommit
  <2>4. CASE links' = links \cup {tx[r].row} /\ linked' = linked \cup {tx[r].row}
    BY <1>2, <1>3, <2>2, <2>4, AccountsStay DEF LinkCommit
  <2> QED BY <1>3, <2>3, <2>4 DEF LinkCommit
<1>4. ASSUME NEW r \in Requests, NEW id \in Ids, IssueCommit(r, id)
      PROVE  links' \subseteq Link /\ LinksAreOwned'
  <2>1. linked' = linked  BY <1>4 DEF IssueCommit
  <2>2. CASE UNCHANGED <<users, links, sessions>>  BY <1>1, <2>1, <2>2
  <2>3. ASSUME NEW row, NEW l \in Link, Joins(id, row), l.user = id,
               row.by = [iss |-> l.iss, sub |-> l.sub],
               links' = links \cup {l}, sessions' = sessions \cup {l}
        PROVE  links' \subseteq Link /\ LinksAreOwned'
    <3>1. id \in Users' /\ users'[id] = row  BY <2>3, WithIs DEF Joins
    <3> QED BY <1>2, <2>1, <2>3, <3>1
  <2> QED BY <1>4, <2>2, <2>3, IssueCommitStep
<1>5. ASSUME NEW r \in Requests, IssueRead(r) PROVE links' \subseteq Link /\ LinksAreOwned'
  <2> DEFINE n == tx[r].n
             u == CHOOSE u \in AccountOf(n) : TRUE
             l == [iss |-> n.iss, sub |-> n.sub, user |-> u]
  <2>1. /\ UNCHANGED <<users, links, linked>>
        /\ \/ UNCHANGED sessions
           \/ AccountOf(n) # {} /\ sessions' = sessions \cup {l}
    BY <1>5 DEF IssueRead
  <2>2. CASE UNCHANGED sessions  BY <1>1, <2>1, <2>2
  <2>3. CASE AccountOf(n) # {} /\ sessions' = sessions \cup {l}
    <3>1. u \in AccountOf(n)  BY <2>3
    <3> HIDE DEF u
    <3>2. PICK k \in links : k.iss = n.iss /\ k.sub = n.sub /\ u = k.user
      BY <3>1 DEF AccountOf, Linked
    <3>3. k \in Link  BY DEF Inv, TypeOK
    <3>4. k = [iss |-> k.iss, sub |-> k.sub, user |-> k.user]  BY <3>3 DEF Link
    <3>5. k = l  BY <3>2, <3>4
    <3>6. Owned(k)  BY DEF Inv, LinksAreOwned
    <3>7. k.user \in Users' /\ (k \in linked' \/ users'[k.user].by = [iss |-> k.iss, sub |-> k.sub])
      BY <2>1, <3>6, OwnedStays
    <3> QED BY <1>2, <2>1, <2>3, <3>3, <3>5, <3>7
  <2> QED BY <2>1, <2>2, <2>3
<1>6. ASSUME NEW r \in Requests, People(r) \/ Exchange(r)
      PROVE  \/ UNCHANGED <<links, sessions, linked>>
             \/ LinkCommit(r) \/ IssueRead(r) \/ \E id \in Ids : IssueCommit(r, id)
  BY <1>6 DEF People, Exchange, CreateUser, UpdateUser, HostAsserts, CreateLink, CreateCommit,
              UpdateCommit, Provision, BringUpToDate, Check, SpendJti, ghosts
<1>7. CASE Registry
  <2>1. links' \subseteq links /\ UNCHANGED <<sessions, linked>>
    BY <1>7 DEF Registry, SetOut, SwitchIssuer, DeleteIssuer, AddKey, DeleteKey, RetireKey,
                AddRoleMapEntry, DeleteRoleMapEntry, DeleteLink, ghosts
  <2> QED BY <1>1, <2>1
<1>8. CASE Tick \/ UNCHANGED vars  BY <1>1, <1>8 DEF Tick, vars, ghosts
<1> QED BY <1>1, <1>3, <1>4, <1>5, <1>6, <1>7, <1>8 DEF Next
-----------------------------------------------------------------------------
(* The replay cache. *)

\* A note within the cap lives no longer than its record is held from now.
LEMMA HeldLongEnough ==
    ASSUME NEW n \in Notes, now \in Nat, Capped(n)
    PROVE  HeldUntil(n) \in Nat /\ 2 * n.exp + 2 * Skew <= HeldUntil(n)
<1>1. n.exp \in Int /\ Cap \in Nat /\ Skew \in Nat  BY NotesAssumption, DirectoryAssumption DEF Note
<1>2. now \div 2 \in Nat /\ 2 * (now \div 2) <= now  OBVIOUS
<1>3. n.exp - now \div 2 <= Cap  BY DEF Capped
<1> QED BY <1>1, <1>2, <1>3 DEF HeldUntil

\* So a note that was accepted is not accepted again in its life.
LEMMA RecordsKept ==
    ASSUME Inv, [Next]_vars
    PROVE  spent' \in [Notes -> Nat] /\ accepted' \in [Notes -> Nat] /\ RecordsOutlive'
<1>1. CASE UNCHANGED <<spent, accepted>>  BY <1>1 DEF Inv, TypeOK, RecordsOutlive
<1>2. ASSUME NEW r \in Requests, SpendJti(r), ~UNCHANGED <<spent, accepted>>
      PROVE  spent' \in [Notes -> Nat] /\ accepted' \in [Notes -> Nat] /\ RecordsOutlive'
  <2> DEFINE n == tx[r].n
  <2>1. /\ tx[r].at = "spend" /\ now >= spent[n] /\ spent' = [spent EXCEPT ![n] = HeldUntil(n)]
        /\ accepted' = IF Alive(n) THEN [accepted EXCEPT ![n] = @ + 1] ELSE accepted
    BY <1>2 DEF SpendJti
  <2>2. n \in Notes /\ Capped(n)
    <3>1. Pending(tx[r], Users) /\ ChecksHold  BY DEF Inv, TypeOK
    <3> QED BY <2>1, <3>1 DEF Pending, Idle, ChecksHold
  <2> HIDE DEF n
  <2>3. /\ now \in Nat /\ spent \in [Notes -> Nat] /\ accepted \in [Notes -> Nat] /\ RecordsOutlive
        /\ n.exp \in Int /\ Skew \in Nat /\ spent[n] \in Nat /\ accepted[n] \in Nat
    BY <2>2, NotesAssumption, DirectoryAssumption DEF Inv, TypeOK, Note
  <2>4. accepted[n] <= 1 /\ (accepted[n] = 1 => 2 * n.exp + 2 * Skew <= spent[n])
    BY <2>2, <2>3 DEF RecordsOutlive
  <2>5. Alive(n) => accepted[n] = 0
    <3>1. Alive(n) => 2 * n.exp > now - 2 * Skew  BY DEF Alive
    <3>2. Alive(n) => accepted[n] # 1  BY <2>1, <2>3, <2>4, <3>1
    <3> QED BY <2>3, <2>4, <3>2
  <2>6. HeldUntil(n) \in Nat /\ 2 * n.exp + 2 * Skew <= HeldUntil(n)
    BY <2>2, <2>3, HeldLongEnough
  <2>7. /\ spent'[n] = HeldUntil(n) /\ accepted'[n] \in {0, 1}
        /\ \A m \in Notes \ {n} : spent'[m] = spent[m] /\ accepted'[m] = accepted[m]
        /\ spent' \in [Notes -> Nat] /\ accepted' \in [Notes -> Nat]
    <3>1. CASE Alive(n)  BY <2>1, <2>2, <2>3, <2>5, <2>6, <3>1
    <3>2. CASE ~Alive(n)  BY <2>1, <2>2, <2>3, <2>4, <2>6, <3>2
    <3> QED BY <3>1, <3>2
  <2>8. RecordsOutlive'
    <3> SUFFICES ASSUME NEW m \in Notes
                 PROVE  accepted'[m] <= 1
                        /\ (accepted'[m] = 1 => 2 * m.exp + 2 * Skew <= spent'[m])
      BY DEF RecordsOutlive
    <3>1. CASE m = n  BY <2>6, <2>7, <3>1
    <3>2. CASE m # n  BY <2>3, <2>7, <3>2 DEF RecordsOutlive
    <3> QED BY <3>1, <3>2
  <2> QED BY <2>7, <2>8
<1>3. ASSUME NEW r \in Requests, People(r) \/ Exchange(r)
      PROVE  UNCHANGED <<spent, accepted>> \/ SpendJti(r)
  BY <1>3 DEF People, Exchange, CreateUser, UpdateUser, HostAsserts, CreateLink, CreateCommit,
              UpdateCommit, Provision, BringUpToDate, LinkCommit, Check, IssueRead, IssueCommit,
              ghosts
<1>4. CASE Registry
  BY <1>1, <1>4 DEF Registry, SetOut, SwitchIssuer, DeleteIssuer, AddKey, DeleteKey, RetireKey,
                AddRoleMapEntry, DeleteRoleMapEntry, DeleteLink, ghosts
<1>5. CASE Tick \/ UNCHANGED vars  BY <1>1, <1>5 DEF Tick, vars, ghosts
<1> QED BY <1>1, <1>2, <1>3, <1>4, <1>5 DEF Next
-----------------------------------------------------------------------------
(* One retry is enough. *)

\* Nothing that an exchange could lose to goes away.
NothingGoes ==
    /\ Users \subseteq Users' /\ \A u \in Users : users'[u].email = users[u].email
    /\ links \subseteq links'
    /\ \A i \in Issuers : issuers[i] # "absent" => issuers'[i] # "absent"

\* Then whoever was right stays right.
LEMMA FindersKeep ==
    ASSUME Inv, NothingGoes,
           \A s \in Requests \ shaken' : \/ tx'[s] = tx[s] /\ s \notin shaken
                                         \/ tx'[s].op # "note"
                                         \/ Finds(s)'
    PROVE  LosersFindTheWinner'
<1> SUFFICES ASSUME NEW s \in Requests \ shaken', tx'[s] = tx[s], s \notin shaken, tx[s].op = "note"
             PROVE  Finds(s)'
  BY DEF LosersFindTheWinner, Finds
<1>1. Pending(tx[s], Users)  BY DEF Inv, TypeOK
<1>2. tx[s].n \in Notes  BY <1>1 DEF Pending, Idle
<1>3. tx[s].n.iss \in Issuers  BY <1>2, NotesAssumption DEF Note
<1>4. Finds(s)  BY DEF Inv, LosersFindTheWinner
<1>5. Known(tx[s].n.email) => Known(tx[s].n.email)'  BY DEF NothingGoes, Known
<1>6. Linked(tx[s].n.iss, tx[s].n.sub) # {} => Linked(tx[s].n.iss, tx[s].n.sub)' # {}
  BY DEF NothingGoes, Linked
<1> QED BY <1>3, <1>4, <1>5, <1>6 DEF Finds, NothingGoes

\* A step that shakes everyone under way leaves nobody to be right.
LEMMA ShakenAll ==
    ASSUME Inv, Shake, UNCHANGED tx \/ \E r \in Requests : tx' = Done(r)
    PROVE  LosersFindTheWinner'
<1> SUFFICES ASSUME NEW s \in Requests \ shaken', tx'[s].op = "note" PROVE FALSE
  BY DEF LosersFindTheWinner, Finds
<1>1. tx[s].at = "idle" /\ Pending(tx[s], Users)  BY DEF Shake, Inv, TypeOK
<1>2. tx[s] = Idle  BY <1>1 DEF Pending, Idle
<1>3. tx'[s] = tx[s] \/ tx'[s] = Idle  BY DEF Done, Inv, TypeOK
<1> QED BY <1>2, <1>3 DEF Idle

\* Joining takes nobody's address.
LEMMA JoinsTakeNothing ==
    ASSUME Inv, NEW id, NEW row, Joins(id, row)
    PROVE  Users \subseteq Users' /\ \A u \in Users : users'[u].email = users[u].email
BY WithIs DEF Joins

LEMMA RegistryLosers ==
    ASSUME Inv, Registry
    PROVE  LosersFindTheWinner' /\ UNCHANGED failed
<1>1. UNCHANGED <<tx, failed>>
  BY DEF Registry, SetOut, SwitchIssuer, DeleteIssuer, AddKey, DeleteKey, RetireKey,
         AddRoleMapEntry, DeleteRoleMapEntry, DeleteLink, ghosts
<1>2. CASE Shake  BY <1>1, <1>2, ShakenAll
<1>3. ASSUME UNCHANGED shaken, NothingGoes PROVE LosersFindTheWinner'
  BY <1>1, <1>3, FindersKeep
<1>4. ASSUME NEW w \in Users, NEW u \in Users, NEW out \in BOOLEAN, SetOut(w, u, out)
      PROVE  LosersFindTheWinner'
  <2>1. PICK row : Changes(u, row) /\ row.email = users[u].email  BY <1>4, SetOutStep
  <2>2. Users \subseteq Users' /\ \A v \in Users : users'[v].email = users[v].email
    BY <2>1, WithIs DEF Changes
  <2> QED BY <1>3, <1>4, <2>2 DEF SetOut, NothingGoes, registry, ghosts
<1>5. ASSUME NEW w \in Users, NEW i \in Issuers, NEW state \in {"on", "off"},
             SwitchIssuer(w, i, state)
      PROVE  LosersFindTheWinner'
  <2>1. \A j \in Issuers : issuers'[j] # "absent" \/ issuers'[j] = issuers[j]
    BY <1>5 DEF SwitchIssuer, Inv, TypeOK
  <2> QED BY <1>3, <1>5, <2>1 DEF SwitchIssuer, NothingGoes, Users, ghosts
<1>6. CASE UNCHANGED <<users, issuers, links, shaken>>
  BY <1>1, <1>3, <1>6 DEF NothingGoes, Users
<1>7. \/ Shake \/ UNCHANGED <<users, issuers, links, shaken>>
      \/ \E w \in Users, u \in Users, out \in BOOLEAN : SetOut(w, u, out)
      \/ \E w \in Users, i \in Issuers, state \in {"on", "off"} : SwitchIssuer(w, i, state)
  BY DEF Registry, DeleteIssuer, AddKey, DeleteKey, RetireKey, AddRoleMapEntry,
         DeleteRoleMapEntry, DeleteLink, ghosts
<1> QED BY <1>1, <1>2, <1>4, <1>5, <1>6, <1>7

LEMMA PeopleLosers ==
    ASSUME Inv, NEW r \in Requests, People(r)
    PROVE  LosersFindTheWinner' /\ UNCHANGED failed
<1> DEFINE Starts == \/ \E w \in Users, p \in Creates : CreateUser(r, w, p)
                     \/ \E w \in Users, p \in Updates : UpdateUser(r, w, p.id, p)
                     \/ \E p \in Asserts : HostAsserts(r, p)
                     \/ \E w, u \in Users, n \in Notes : CreateLink(r, w, n.iss, n.sub, u)
<1>1. UNCHANGED failed
  BY DEF People, CreateUser, UpdateUser, HostAsserts, CreateLink, CreateCommit,
         UpdateCommit, Provision, BringUpToDate, LinkCommit, ghosts
<1>2. CASE UpdateCommit(r) \/ BringUpToDate(r)
  BY <1>1, <1>2, ShakenAll DEF UpdateCommit, BringUpToDate
<1>3. DOMAIN tx = Requests  BY DEF Inv, TypeOK
<1>4. ASSUME NEW x, x.op # "note", tx' = [tx EXCEPT ![r] = x], NothingGoes,
             UNCHANGED shaken \/ shaken' = shaken \ {r}
      PROVE  LosersFindTheWinner'
  <2>1. tx'[r] = x /\ \A s \in Requests \ {r} : tx'[s] = tx[s]  BY <1>3, <1>4
  <2>2. \A s \in Requests \ shaken' : s = r \/ s \notin shaken  BY <1>4
  <2> QED BY <1>4, <2>1, <2>2, FindersKeep
<1>5. CASE Starts
  <2>1. UNCHANGED <<users, issuers, links>> /\ shaken' = shaken \ {r}
    BY <1>5 DEF CreateUser, UpdateUser, HostAsserts, CreateLink, registry
  <2>2. NothingGoes  BY <2>1 DEF NothingGoes, Users
  <2>3. ASSUME NEW w \in Users, NEW p \in Creates, CreateUser(r, w, p) PROVE LosersFindTheWinner'
    BY <1>4, <2>1, <2>2, <2>3 DEF CreateUser
  <2>4. ASSUME NEW w \in Users, NEW p \in Updates, UpdateUser(r, w, p.id, p)
        PROVE  LosersFindTheWinner'
    BY <1>4, <2>1, <2>2, <2>4 DEF UpdateUser
  <2>5. ASSUME NEW p \in Asserts, HostAsserts(r, p) PROVE LosersFindTheWinner'
    <3>1. PICK a : tx' = [tx EXCEPT ![r] = [op |-> "host", at |-> a, p |-> p]]
      BY <2>5 DEF HostAsserts
    <3> QED BY <1>4, <2>1, <2>2, <3>1
  <2>6. ASSUME NEW w \in Users, NEW u \in Users, NEW n \in Notes,
               CreateLink(r, w, n.iss, n.sub, u)
        PROVE  LosersFindTheWinner'
    BY <1>4, <2>1, <2>2, <2>6 DEF CreateLink
  <2> QED BY <1>1, <1>5, <2>3, <2>4, <2>5, <2>6
<1>6. CASE CreateCommit(r) \/ Provision(r) \/ LinkCommit(r)
  <2>1. UNCHANGED <<issuers, shaken>> /\ links \subseteq links'
    BY <1>6 DEF CreateCommit, Provision, LinkCommit, registry, ghosts
  <2>2. Users \subseteq Users' /\ \A u \in Users : users'[u].email = users[u].email
    <3>1. CASE UNCHANGED users  BY <3>1 DEF Users
    <3>2. CASE LinkCommit(r)  BY <3>1, <3>2 DEF LinkCommit
    <3> QED BY <1>6, <3>1, <3>2, CreateCommitStep, ProvisionStep, JoinsTakeNothing
  <2>3. NothingGoes  BY <2>1, <2>2 DEF NothingGoes
  <2>4. Idle.op # "note"  BY DEF Idle
  <2>5. CASE tx' = Done(r)  BY <1>1, <1>4, <2>1, <2>3, <2>4, <2>5 DEF Done
  <2>6. CASE Provision(r) /\ tx' = [tx EXCEPT ![r].at = "assert"]
    <3>1. tx[r].op = "host" /\ Pending(tx[r], Users)  BY <2>6 DEF Provision, Inv, TypeOK
    <3>2. tx[r] \in [op : {"host"}, at : {"insert", "assert"}, p : Asserts]
      BY <3>1 DEF Pending, Idle
    <3>3. [tx[r] EXCEPT !.at = "assert"].op # "note"  BY <3>2
    <3> QED BY <1>1, <1>4, <2>1, <2>3, <2>6, <3>3
  <2> QED BY <1>1, <1>6, <2>5, <2>6 DEF CreateCommit, Provision, LinkCommit
<1> QED BY <1>1, <1>2, <1>5, <1>6 DEF People

LEMMA ExchangeLosers ==
    ASSUME Inv, NEW r \in Requests, Exchange(r)
    PROVE  LosersFindTheWinner' /\ ~failed'
<1>1. DOMAIN tx = Requests /\ Pending(tx[r], Users) /\ ~failed  BY DEF Inv, TypeOK
<1>2. ASSUME tx[r].at \in {"spend", "issue", "arrive"}
      PROVE  tx[r].op = "note" /\ tx[r].n \in Notes /\ tx[r].last \in BOOLEAN
  BY <1>1, <1>2 DEF Pending, Idle
<1>3. ASSUME NEW x, tx' = [tx EXCEPT ![r] = x], NothingGoes, UNCHANGED shaken,
             r \notin shaken => x.op # "note" \/ Finds(r)'
      PROVE  LosersFindTheWinner'
  <2>1. tx'[r] = x /\ \A s \in Requests \ {r} : tx'[s] = tx[s]  BY <1>1, <1>3
  <2> QED BY <1>3, <2>1, FindersKeep
<1>4. ASSUME NEW n \in Notes, Check(r, n) PROVE LosersFindTheWinner' /\ ~failed'
  <2>1. NothingGoes /\ ~failed' /\ shaken' = shaken \ {r}
    BY <1>1, <1>4 DEF Check, NothingGoes, registry, Users
  <2>2. /\ tx'[r] = [op |-> "note", at |-> "spend", n |-> n, last |-> FALSE]
        /\ \A s \in Requests \ {r} : tx'[s] = tx[s]
    BY <1>1, <1>4 DEF Check
  <2>3. issuers'[n.iss] # "absent"  BY <1>4 DEF Check, KeyFits, registry
  <2>4. Finds(r)'  BY <2>2, <2>3 DEF Finds
  <2> QED BY <2>1, <2>2, <2>4, FindersKeep
<1>7. CASE SpendJti(r)
  <2> DEFINE x == [op |-> "note", at |-> "issue", n |-> tx[r].n, last |-> FALSE]
  <2>1. tx[r].at = "spend" /\ NothingGoes /\ ~failed' /\ UNCHANGED <<shaken, issuers>>
    BY <1>1, <1>7 DEF SpendJti, NothingGoes, registry, Users
  <2>2. tx' = Done(r) \/ tx' = [tx EXCEPT ![r] = x]  BY <1>7 DEF SpendJti
  <2>3. CASE tx' = Done(r)  BY <1>3, <2>1, <2>3 DEF Done, Idle
  <2>4. CASE tx' = [tx EXCEPT ![r] = x]
    <3>1. tx'[r] = x  BY <1>1, <2>4
    <3>2. ASSUME r \notin shaken PROVE Finds(r)'
      <4>1. Finds(r)  BY <3>2 DEF Inv, LosersFindTheWinner
      <4>2. issuers[tx[r].n.iss] # "absent"  BY <1>2, <2>1, <4>1 DEF Finds
      <4> QED BY <2>1, <3>1, <4>2 DEF Finds
    <3> QED BY <1>3, <2>1, <2>4, <3>2
  <2> QED BY <2>1, <2>2, <2>3, <2>4
<1>5. CASE IssueRead(r)
  <2> DEFINE n == tx[r].n
             x == [op |-> "note", at |-> "arrive", n |-> n, last |-> tx[r].last,
                   grant |-> ResolveRole(n)]
  <2>1. tx[r].at = "issue" /\ NothingGoes /\ ~failed' /\ UNCHANGED <<shaken, issuers>>
    BY <1>1, <1>5 DEF IssueRead, NothingGoes, registry, Users
  <2>2. \/ tx' = Done(r)
        \/ /\ tx' = [tx EXCEPT ![r] = x]
           /\ AccountOf(n) = {} /\ ~Taken(n.email, NULL)
    BY <1>5 DEF IssueRead
  <2>3. CASE tx' = Done(r)
    BY <1>3, <2>1, <2>3 DEF Done, Idle
  <2>4. CASE tx' = [tx EXCEPT ![r] = x] /\ AccountOf(n) = {} /\ ~Taken(n.email, NULL)
    <3>1. tx'[r] = x  BY <1>1, <2>4
    <3>2. ASSUME r \notin shaken PROVE Finds(r)'
      <4>1. Finds(r)  BY <3>2 DEF Inv, LosersFindTheWinner
      <4>2. Linked(n.iss, n.sub) = {}  BY <2>4 DEF AccountOf
      <4>3. ~Known(n.email)
        <5>1. NULL \notin Users  BY DirectoryAssumption DEF Inv, TypeOK
        <5> QED BY <2>4, <5>1 DEF Known, Taken
      <4>4. ~tx[r].last /\ issuers[n.iss] # "absent"
        BY <1>2, <2>1, <4>1, <4>2, <4>3 DEF Finds
      <4> QED BY <2>1, <3>1, <4>4 DEF Finds
    <3> QED BY <1>3, <2>1, <2>4, <3>2
  <2> QED BY <2>1, <2>2, <2>3, <2>4
<1>6. ASSUME NEW id \in Ids, IssueCommit(r, id) PROVE LosersFindTheWinner' /\ ~failed'
  <2> DEFINE n == tx[r].n
             x == [op |-> "note", at |-> "issue", n |-> n, last |-> TRUE]
  <2>1. /\ tx[r].at = "arrive" /\ id \notin Users /\ UNCHANGED <<shaken, issuers>>
    BY <1>6 DEF IssueCommit, registry
  <2>2. /\ links \subseteq links' /\ Users \subseteq Users'
        /\ \A u \in Users : users'[u].email = users[u].email
    <3>1. CASE UNCHANGED <<users, links, sessions>>  BY <3>1 DEF Users
    <3> QED BY <1>6, <3>1, IssueCommitStep, JoinsTakeNothing
  <2>3. NothingGoes  BY <2>1, <2>2 DEF NothingGoes
  <2>4. ASSUME r \notin shaken PROVE ~tx[r].last /\ issuers[n.iss] # "absent"
    <3>1. Finds(r)  BY <2>4 DEF Inv, LosersFindTheWinner
    <3> QED BY <1>2, <2>1, <3>1 DEF Finds
  <2>5. CASE tx' = Done(r) /\ UNCHANGED failed
    BY <1>1, <1>3, <2>1, <2>3, <2>5 DEF Done, Idle
  <2>6. CASE /\ Taken(n.email, id) \/ Linked(n.iss, n.sub) # {} \/ issuers[n.iss] = "absent"
             /\ tx' = Retry(r) /\ failed' = (failed \/ (tx'[r] = Idle /\ r \notin shaken))
             /\ UNCHANGED <<users, links>>
    <3>1. CASE tx[r].last
      <4>1. tx' = Done(r) /\ r \in shaken  BY <2>4, <2>6, <3>1 DEF Retry
      <4>2. ~failed'  BY <1>1, <2>6, <4>1
      <4> QED BY <1>3, <2>1, <2>3, <4>1, <4>2 DEF Done, Idle
    <3>2. CASE ~tx[r].last
      <4>1. tx' = [tx EXCEPT ![r] = x]  BY <2>6, <3>2 DEF Retry
      <4>2. tx'[r] = x  BY <1>1, <4>1
      <4>3. tx'[r] # Idle  BY <4>2 DEF Idle
      <4>4. ~failed'  BY <1>1, <2>6, <4>3
      <4>5. ASSUME r \notin shaken PROVE Finds(r)'
        <5>1. \/ \E u \in Users' : users'[u].email = n.email
              \/ {l \in links' : l.iss = n.iss /\ l.sub = n.sub} # {}
          BY <2>4, <2>6, <4>5 DEF Taken, Linked, Users
        <5> QED BY <2>1, <2>4, <4>2, <4>5, <5>1 DEF Finds, Known, Linked
      <4> QED BY <1>3, <2>1, <2>3, <4>1, <4>4, <4>5
    <3> QED BY <3>1, <3>2
  <2> QED BY <1>6, <2>5, <2>6 DEF IssueCommit
<1> QED BY <1>4, <1>5, <1>6, <1>7 DEF Exchange
-----------------------------------------------------------------------------
(* The theorems. *)

LEMMA InitInv == Init => Inv
<1> SUFFICES ASSUME Init PROVE Inv
  OBVIOUS
<1>1. /\ \A u \in Users : users[u] \in [email: Emails, role: Roles, unit: Units \cup {NULL},
                                        mgr: Ids \cup {NULL}, out: BOOLEAN, by: {NULL}]
      /\ users = [u \in Users |-> users[u]] /\ Users \subseteq Ids
      /\ \A u, v \in Users : users[u].email = users[v].email => u = v
  BY FirstAssumption, DirectoryAssumption DEF Init, Users
<1>2. \A u \in Users : IsAccount(users[u])  BY <1>1 DEF IsAccount
<1>3. \A r \in Requests : tx[r] = Idle  BY DEF Init
<1>4. TypeOK  BY <1>1, <1>2, <1>3 DEF Init, TypeOK, Pending
<1>5. OneAccountPerAddress  BY <1>1 DEF OneAccountPerAddress
<1>6. LinksAreOwned  BY DEF Init, LinksAreOwned
<1>7. RecordsOutlive /\ ChecksHold  BY <1>3 DEF Init, RecordsOutlive, ChecksHold, Idle
<1>8. LosersFindTheWinner  BY <1>3 DEF LosersFindTheWinner, Finds, Idle
<1> QED BY <1>4, <1>5, <1>6, <1>7, <1>8 DEF Inv, Init

LEMMA NextInv == Inv /\ [Next]_vars => Inv'
<1> SUFFICES ASSUME Inv, [Next]_vars PROVE Inv'
  OBVIOUS
<1>1. now' \in Nat /\ issuers' \in [Issuers -> {"on", "off", "absent"}]
  <2> USE DEF Inv, TypeOK
  <2>1. CASE UNCHANGED <<now, issuers>>  BY <2>1
  <2>2. CASE Registry
    <3>1. UNCHANGED now
      BY <2>2 DEF Registry, SetOut, SwitchIssuer, DeleteIssuer, AddKey, DeleteKey, RetireKey,
             AddRoleMapEntry, DeleteRoleMapEntry, DeleteLink
    <3>2. \/ UNCHANGED issuers
          \/ \E i \in Issuers, state \in {"on", "off", "absent"} :
               issuers' = [issuers EXCEPT ![i] = state]
      BY <2>2 DEF Registry, SetOut, SwitchIssuer, DeleteIssuer, AddKey, DeleteKey, RetireKey,
             AddRoleMapEntry, DeleteRoleMapEntry, DeleteLink, registry
    <3> QED BY <3>1, <3>2
  <2>3. CASE Tick  BY <2>3 DEF Tick, registry
  <2>4. ASSUME NEW r \in Requests, People(r) \/ Exchange(r) PROVE UNCHANGED <<now, issuers>>
    BY <2>4 DEF People, Exchange, CreateUser, UpdateUser, HostAsserts, CreateLink, CreateCommit,
                UpdateCommit, Provision, BringUpToDate, LinkCommit, Check, SpendJti, IssueRead,
                IssueCommit, registry
  <2>5. CASE UNCHANGED vars  BY <2>1, <2>5 DEF vars, registry
  <2> QED BY <2>1, <2>2, <2>3, <2>4, <2>5 DEF Next
<1>2. TypeOK'
  BY <1>1, AccountsTyped, LinksKept, RecordsKept, RequestsTyped DEF TypeOK
<1>3. LosersFindTheWinner' /\ ~failed'
  <2>1. ~failed  BY DEF Inv
  <2>2. CASE Registry  BY <2>1, <2>2, RegistryLosers
  <2>3. ASSUME NEW r \in Requests, People(r) PROVE LosersFindTheWinner' /\ ~failed'
    BY <2>1, <2>3, PeopleLosers
  <2>4. ASSUME NEW r \in Requests, Exchange(r) PROVE LosersFindTheWinner' /\ ~failed'
    BY <2>4, ExchangeLosers
  <2>5. CASE Tick \/ UNCHANGED vars
    <3>1. UNCHANGED <<users, issuers, links, tx, shaken, failed>>
      BY <2>5 DEF Tick, vars, registry, ghosts
    <3>2. NothingGoes  BY <3>1 DEF NothingGoes, Users
    <3> QED BY <2>1, <3>1, <3>2, FindersKeep
  <2> QED BY <2>2, <2>3, <2>4, <2>5 DEF Next
<1> QED BY <1>2, <1>3, AddressesKept, LinksKept, RecordsKept, RequestsTyped DEF Inv

\* The invariant holds throughout, for every directory, issuer and note.
THEOREM Invariance == Spec => []Inv
BY InitInv, NextInv, PTL DEF Spec

\* An address is one account's, and a note signs in to nothing but what was linked to
\* its issuer and subject or came with it, whatever requests run at once.
THEOREM SignInsFindTheirOwn == Spec => []SignInsReachTheirOwn
<1>1. Inv => SignInsReachTheirOwn
  BY DEF Inv, SignInsReachTheirOwn, LinksAreOwned, Owned, OnlyLinksAdmit
<1> QED BY <1>1, Invariance, PTL

\* No note is traded twice in its life, whatever the cap, the skew, the moments it is presented
\* and the time between an exchange's checks and its SET NX.
THEOREM NotesSpentOnce == Spec => []NotesAreSpentOnce
<1>1. Inv => NotesAreSpentOnce  BY DEF Inv, RecordsOutlive, NotesAreSpentOnce
<1> QED BY <1>1, Invariance, PTL

\* _issue's second try never loses a race: "Once is enough".
THEOREM OneRetryIsEnough == Spec => []OnceIsEnough
<1>1. Inv => OnceIsEnough  BY DEF Inv, OnceIsEnough
<1> QED BY <1>1, Invariance, PTL
=============================================================================
