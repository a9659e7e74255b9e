--------------------------- MODULE SessionsProofs ---------------------------
(***************************************************************************)
(* Proofs about Sessions, for every set of accounts and requests and every *)
(* lifetime: a family of refresh tokens never forks, what is revoked stays *)
(* revoked, a session nobody revoked lasts until it expires, and requests  *)
(* wait for each other in a circle only over two password changes.         *)
(*                                                                         *)
(* The inductive invariant follows the row locks and the snapshots.  A     *)
(* token that is being spent is in the table, unspent, and locked by       *)
(* nobody else, a DELETE included.  A DELETE that has begun has seen every *)
(* token it is about, but those committed since, which are marked, and has *)
(* seen no other.                                                          *)
(***************************************************************************)
EXTENDS Sessions, TLAPS

Token == [user : Users, family : Nat, expires : Nat, consumed : Nat \cup {NULL}, feed : Nat,
          late : BOOLEAN]

Account == [out : BOOLEAN, first : BOOLEAN, feed : Nat]

ApiKey == [user : Users, late : BOOLEAN]

Revoking == {"sweep", "sweeping", "keys", "keysweeping", "insert", "inserted", "update", "commit"}

Steps == {"idle", "mint", "spend", "spent", "checked", "key"} \cup Revoking

Routes == {"none", "login", "refresh", "reuse", "logout", "change", "reset", "deactivate",
           "reactivate", "key"}

Request == [op : Routes, at : Steps, user : Users \cup {NULL}, tok : Nat \cup {NULL},
            family : Nat \cup {NULL}, seen : SUBSET Nat, keysSeen : SUBSET Nat, feed : Nat,
            first : BOOLEAN, when : Nat, late : BOOLEAN]

\* What each step of a request says of its route.
Fits(q) ==
    /\ q \in Request
    /\ q.at # "idle" => q.user \in Users
    /\ q.at \in {"spend", "spent", "checked"} => q.tok \in Nat
    /\ q.at \in Revoking =>
         IF q.family = NULL THEN q.op \in Rotating \cup {"reactivate"} ELSE q.op \in {"logout", "reuse"}
    /\ q.at \in {"insert", "inserted"} => q.op = "change"
    /\ q.at \in {"keys", "keysweeping"} => q.op = "deactivate"

\* Types of the tables and of what a request keeps.
TypeOK ==
    /\ now \in Nat /\ minted \in Nat /\ issued \in Nat
    /\ users \in [Users -> Account]
    /\ Tokens \subseteq Nat /\ \A t \in Tokens : tokens[t] \in Token
    /\ DOMAIN keys \subseteq Nat /\ \A k \in DOMAIN keys : keys[k] \in ApiKey
    /\ tx \in [Requests -> Request] /\ \A r \in Requests : Fits(tx[r])
    /\ ended \subseteq Nat

\* Numbers are handed out once: no family is younger than the last token.
Numbered ==
    /\ \A t \in Tokens : t <= minted /\ tokens[t].family <= minted
    /\ \A f \in ended : f <= minted
    /\ \A k \in DOMAIN keys : k <= issued

Writing(q) == q.at \in {"spent", "checked"}

\* A request asks about numbers that have been handed out.
NumbersKnown(q) == (q.family # NULL => q.family <= minted) /\ \A t \in q.seen : t <= minted

\* What a request has spent is still there, and unspent for everybody else.
SpendsLive(q) == Writing(q) => q.tok \in Tokens /\ Live(q.tok)

\* A DELETE will remove every row it is about, but the marked, and no other.
SeesAll(q) ==
    q.at = "sweeping" \/ Deleted(q) =>
        \A t \in Tokens : Covers(q, tokens[t]) => t \in q.seen \/ tokens[t].late

SeesNoOther(q) == \A t \in Tokens : t \in q.seen => Covers(q, tokens[t])

SeesAllKeys(q) ==
    q.op = "deactivate" /\ q.at \in {"keysweeping", "update", "commit"} =>
        \A k \in DOMAIN keys : keys[k].user = q.user => k \in q.keysSeen \/ keys[k].late

\* What a request is about to issue is under the account as it is, or marked.
IssuedInTime(q) ==
    /\ q.at = "mint" => q.late \/ q.feed = users[q.user].feed
    /\ q.at = "key" => q.late \/ ~users[q.user].out

\* What a request in flight knows of the tables.
Sound(q) ==
    /\ NumbersKnown(q) /\ SpendsLive(q) /\ SeesAll(q) /\ SeesNoOther(q) /\ SeesAllKeys(q)
    /\ IssuedInTime(q)

\* The row locks: what a request has spent no other has spent, or deleted.
LocksApart ==
    \A r, s \in Requests : Writing(tx[r]) /\ Holds(tx[s], tx[r].tok) => r = s

Inv ==
    /\ TypeOK /\ Numbered /\ LocksApart
    /\ \A r \in Requests : Sound(tx[r])
    /\ FamilyNeverForks /\ RevokedStaysRevoked
-----------------------------------------------------------------------------
(* Steps that only move a request on. *)

\* No request is a request, and knows nothing.
LEMMA IdleType ==
    /\ Idle \in Request /\ Fits(Idle) /\ Sound(Idle)
    /\ ~Writing(Idle) /\ \A t : ~Holds(Idle, t)
BY DEF Idle, Request, Routes, Steps, Revoking, Fits, Sound, NumbersKnown, SpendsLive, SeesAll,
       SeesNoOther, SeesAllKeys, IssuedInTime, Writing, Holds, Deleted

\* A request that goes to another step keeps what it has.
LEMMA AtIs ==
    ASSUME NEW q \in Request, NEW a \in Steps
    PROVE  LET x == [q EXCEPT !.at = a]
           IN  /\ x \in Request /\ x.at = a /\ x.op = q.op /\ x.user = q.user /\ x.tok = q.tok
               /\ x.family = q.family /\ x.seen = q.seen /\ x.keysSeen = q.keysSeen
               /\ x.feed = q.feed /\ x.first = q.first /\ x.when = q.when /\ x.late = q.late
BY DEF Request

\* A request that goes on with no table changed keeps the invariant, when it
\* fits its step and the tables, and locks nothing another has spent.
LEMMA MovesOn ==
    ASSUME Inv, NEW r \in Requests, NEW x,
           tx' = [tx EXCEPT ![r] = x],
           UNCHANGED <<now, users, tokens, minted, keys, issued, ended>>,
           Fits(x), Sound(x),
           \A s \in Requests \ {r} : Writing(x) => ~Holds(tx[s], x.tok),
           \A s \in Requests \ {r} : Writing(tx[s]) => ~Holds(x, tx[s].tok)
    PROVE  Inv'
<1>1. /\ tx'[r] = x /\ \A s \in Requests \ {r} : tx'[s] = tx[s]
      /\ tx' \in [Requests -> Request]
  BY DEF Inv, TypeOK, Fits
<1>2. Tokens' = Tokens  BY DEF Tokens
<1>3. TypeOK'  BY <1>1, <1>2 DEF Inv, TypeOK, Fits
<1>4. Numbered'  BY <1>2 DEF Inv, Numbered
<1>5. LocksApart'  BY <1>1 DEF Inv, LocksApart, Writing, Holds, Deleted
<1>6. \A s \in Requests : Sound(tx'[s])  BY <1>1 DEF Inv
<1>7. ASSUME NEW s \in Requests PROVE Sound(tx[s])'
  BY <1>2, <1>6 DEF Sound, NumbersKnown, SpendsLive, SeesAll, SeesNoOther, SeesAllKeys,
                    IssuedInTime, Live, Writing, Covers, Deleted
<1>8. FamilyNeverForks'  BY <1>2 DEF Inv, FamilyNeverForks, Live
<1>9. RevokedStaysRevoked'
  BY <1>2 DEF Inv, RevokedStaysRevoked, RevokedSessionsEnd, EndedFamiliesStayEnded, KeysGoWithTheAccount
<1> QED BY <1>3, <1>4, <1>5, <1>7, <1>8, <1>9 DEF Inv

\* A request that ends with nothing written, refused or ended by the database.
LEMMA EndsIdle ==
    ASSUME Inv, NEW r \in Requests, tx' = Done(r),
           UNCHANGED <<now, users, tokens, minted, keys, issued, ended>>
    PROVE  Inv'
BY IdleType, MovesOn DEF Done

\* A request that has read, and neither spent nor deleted anything, has only to
\* fit its step.
LEMMA ReadsOn ==
    ASSUME Inv, NEW r \in Requests, NEW x,
           tx' = [tx EXCEPT ![r] = x],
           UNCHANGED <<now, users, tokens, minted, keys, issued, ended>>,
           Fits(x), NumbersKnown(x), x.seen = {}, ~Writing(x), x.at # "sweeping",
           Deleted(x) => x.op = "reactivate", IssuedInTime(x)
    PROVE  Inv'
<1>1. \A t : ~Holds(x, t)  BY DEF Holds, Writing
<1>2. SeesAll(x)
  <2> SUFFICES ASSUME Deleted(x), NEW t \in Tokens, Covers(x, tokens[t]) PROVE FALSE
    BY DEF SeesAll
  <2>1. x.op = "reactivate" /\ x.at \in Revoking  BY DEF Deleted, Revoking
  <2> QED BY <2>1 DEF Fits, Covers, Rotating
<1>3. SeesAllKeys(x)  BY DEF SeesAllKeys, Deleted
<1>4. Sound(x)  BY <1>2, <1>3 DEF Sound, SpendsLive, SeesNoOther
<1> QED BY <1>1, <1>4, MovesOn

\* login reads the account.
LEMMA LoginKeeps ==
    ASSUME Inv, NEW r \in Requests, NEW u \in Users, Login(r, u)
    PROVE  Inv'
<1> DEFINE x == [Idle EXCEPT !.op = "login", !.at = "mint", !.user = u, !.feed = users[u].feed]
<1>1. users[u].feed \in Nat  BY DEF Inv, TypeOK, Account
<1>2. /\ x \in Request /\ x.at = "mint" /\ x.user = u /\ x.family = NULL /\ x.seen = {}
      /\ x.feed = users[u].feed
  BY <1>1 DEF Idle, Request, Routes, Steps
<1>3. tx' = [tx EXCEPT ![r] = x]  BY DEF Login
<1> HIDE DEF x
<1>4. Fits(x) /\ NumbersKnown(x) /\ ~Writing(x) /\ ~Deleted(x) /\ IssuedInTime(x)
  BY <1>2 DEF Fits, Revoking, NumbersKnown, Writing, Deleted, IssuedInTime
<1> QED BY <1>2, <1>3, <1>4, ReadsOn DEF Login

\* A revocation is asked for, of a family there has been or of an account.
LEMMA BeginKeeps ==
    ASSUME Inv, NEW r \in Requests, NEW op \in Routes, NEW at \in Steps, NEW u \in Users,
           NEW f \in Nat \cup {NULL}, f # NULL => f <= minted,
           IF f = NULL THEN op \in Rotating \cup {"reactivate"} ELSE op \in {"logout", "reuse"},
           at = "sweep" \/ (op = "reactivate" /\ at = "update"),
           Begin(r, op, at, u, f)
    PROVE  Inv'
<1> DEFINE x == [Idle EXCEPT !.op = op, !.at = at, !.user = u, !.family = f,
                             !.first = users[u].first]
<1>1. users[u].first \in BOOLEAN  BY DEF Inv, TypeOK, Account
<1>2. /\ x \in Request /\ x.at = at /\ x.op = op /\ x.user = u /\ x.family = f /\ x.seen = {}
  BY <1>1 DEF Idle, Request
<1>3. tx' = [tx EXCEPT ![r] = x]  BY DEF Begin
<1> HIDE DEF x
<1>4. Fits(x)  BY <1>2 DEF Fits
<1>5. /\ NumbersKnown(x) /\ ~Writing(x) /\ x.at # "sweeping" /\ IssuedInTime(x)
      /\ Deleted(x) => x.op = "reactivate"
  BY <1>2 DEF NumbersKnown, Writing, Deleted, IssuedInTime
<1> QED BY <1>2, <1>3, <1>4, <1>5, ReadsOn DEF Begin

\* create_api_key reads the account.
LEMMA CreateApiKeyKeeps ==
    ASSUME Inv, NEW r \in Requests, NEW w \in Users, NEW u \in Users, CreateApiKey(r, w, u)
    PROVE  Inv'
<1> DEFINE x == [Idle EXCEPT !.op = "key", !.at = "key", !.user = u]
<1>1. /\ x \in Request /\ x.at = "key" /\ x.user = u /\ x.family = NULL /\ x.seen = {}
  BY DEF Idle, Request, Routes, Steps
<1>2. tx' = [tx EXCEPT ![r] = x] /\ ~users[u].out  BY DEF CreateApiKey
<1> HIDE DEF x
<1>3. Fits(x) /\ NumbersKnown(x) /\ ~Writing(x) /\ ~Deleted(x) /\ IssuedInTime(x)
  BY <1>1, <1>2 DEF Fits, Revoking, NumbersKnown, Writing, Deleted, IssuedInTime
<1> QED BY <1>1, <1>2, <1>3, ReadsOn DEF CreateApiKey

\* refresh's UPDATE takes the row that is unspent and locked by nobody.
LEMMA RefreshSpendKeeps ==
    ASSUME Inv, NEW r \in Requests, RefreshSpend(r)
    PROVE  Inv'
<1>1. CASE ~(tx[r].tok \in Tokens /\ tokens[tx[r].tok].consumed = NULL)
  BY <1>1, EndsIdle DEF RefreshSpend
<1>2. CASE tx[r].tok \in Tokens /\ tokens[tx[r].tok].consumed = NULL
  <2> DEFINE x == [tx[r] EXCEPT !.at = "spent"]
  <2>1. Fits(tx[r]) /\ Sound(tx[r]) /\ tx[r].at = "spend" /\ tx[r] \in Request
    BY DEF Inv, TypeOK, RefreshSpend, Fits
  <2>2. /\ x \in Request /\ x.at = "spent" /\ x.op = tx[r].op /\ x.user = tx[r].user
        /\ x.tok = tx[r].tok /\ x.family = tx[r].family /\ x.seen = tx[r].seen
    BY <2>1, AtIs DEF Steps
  <2>3. tx' = [tx EXCEPT ![r] = x]  BY <1>2 DEF RefreshSpend
  <2>4. \A s \in Requests \ {r} : ~Holds(tx[s], tx[r].tok)
    BY <2>1 DEF RefreshSpend, Blockers
  <2> HIDE DEF x
  <2>5. Fits(x)  BY <2>1, <2>2 DEF Fits, Revoking
  <2>6. Sound(x)
    BY <1>2, <2>1, <2>2 DEF Sound, NumbersKnown, SpendsLive, SeesAll, SeesNoOther, SeesAllKeys,
                            IssuedInTime, Live, Deleted, Covers
  <2>7. ASSUME NEW s \in Requests \ {r}, Writing(tx[s]) PROVE ~Holds(x, tx[s].tok)
    <3>1. Holds(tx[s], tx[s].tok)  BY <2>7 DEF Holds, Writing
    <3> QED BY <2>2, <2>4, <3>1 DEF Holds, Deleted
  <2> QED BY <2>2, <2>3, <2>4, <2>5, <2>6, <2>7, MovesOn DEF RefreshSpend
<1> QED BY <1>1, <1>2

\* A DELETE begins: it sees every row there is that it is about.
LEMMA SweepStartKeeps ==
    ASSUME Inv, NEW r \in Requests, SweepStart(r)
    PROVE  Inv'
<1> DEFINE x == [tx[r] EXCEPT !.at = "sweeping", !.seen = Found(r)]
<1>1. Fits(tx[r]) /\ Sound(tx[r]) /\ tx[r].at = "sweep" /\ tx[r] \in Request
  BY DEF Inv, TypeOK, SweepStart, Fits
<1>2. Found(r) \subseteq Nat  BY DEF Found, Scope, Inv, TypeOK
<1>3. /\ x \in Request /\ x.at = "sweeping" /\ x.op = tx[r].op /\ x.user = tx[r].user
      /\ x.family = tx[r].family /\ x.seen = Found(r)
  BY <1>1, <1>2 DEF Request, Steps, Revoking
<1>4. tx' = [tx EXCEPT ![r] = x]  BY DEF SweepStart
<1> HIDE DEF x
<1>5. Fits(x)  BY <1>1, <1>3 DEF Fits, Revoking
<1>6. \A t \in Tokens : Covers(x, tokens[t]) <=> t \in x.seen
  BY <1>3 DEF Found, Scope, Covers
<1>7. NumbersKnown(x)  BY <1>1, <1>3 DEF Sound, NumbersKnown, Found, Scope, Inv, Numbered
<1>8. Sound(x)
  BY <1>3, <1>6, <1>7 DEF Sound, SpendsLive, SeesAll, SeesNoOther, SeesAllKeys, IssuedInTime, Writing
<1>9. ~Writing(x) /\ \A t : ~Holds(x, t)  BY <1>3 DEF Writing, Holds, Deleted
<1> QED BY <1>4, <1>5, <1>8, <1>9, MovesOn DEF SweepStart

\* The DELETE ends: the rows it has seen are locked by nobody else.
LEMMA SweepEndKeeps ==
    ASSUME Inv, NEW r \in Requests, SweepEnd(r)
    PROVE  Inv'
<1>1. PICK next \in AfterSweep(tx[r].op) : tx' = [tx EXCEPT ![r].at = next]  BY DEF SweepEnd
<1> DEFINE x == [tx[r] EXCEPT !.at = next]
<1>2. /\ Fits(tx[r]) /\ Sound(tx[r]) /\ tx[r].at = "sweeping" /\ tx[r] \in Request
  BY DEF Inv, TypeOK, SweepEnd, Fits
<1>3. /\ next \in {"keys", "insert", "update", "commit"}
      /\ next = "keys" => tx[r].op = "deactivate"
      /\ next = "insert" => tx[r].op = "change"
      /\ tx[r].op = "deactivate" => next = "keys"
  BY <1>1 DEF AfterSweep
<1>4. /\ x \in Request /\ x.at = next /\ x.op = tx[r].op /\ x.user = tx[r].user
      /\ x.family = tx[r].family /\ x.seen = tx[r].seen
  <2>1. next \in Steps  BY <1>3 DEF Steps, Revoking
  <2> QED BY <1>2, <2>1, AtIs, SMTT(30)
<1>5. tx' = [tx EXCEPT ![r] = x]  BY <1>1
<1> HIDE DEF x
<1>6. Fits(x)  BY <1>2, <1>3, <1>4 DEF Fits, Revoking
<1>7. ~Writing(x) /\ SpendsLive(x) /\ SeesAllKeys(x) /\ IssuedInTime(x)
  BY <1>3, <1>4 DEF Writing, SpendsLive, SeesAllKeys, IssuedInTime
<1>8. NumbersKnown(x) /\ SeesAll(x) /\ SeesNoOther(x)
  BY <1>2, <1>4 DEF Sound, NumbersKnown, SeesAll, SeesNoOther, Covers
<1>9. ASSUME NEW s \in Requests \ {r}, Writing(tx[s]) PROVE ~Holds(x, tx[s].tok)
  <2>1. Holds(tx[s], tx[s].tok)  BY <1>9 DEF Holds, Writing
  <2>2. tx[s].tok \notin tx[r].seen  BY <1>2, <2>1 DEF SweepEnd, Blockers
  <2> QED BY <1>4, <1>7, <2>2 DEF Holds, Writing
<1> QED BY <1>5, <1>6, <1>7, <1>8, <1>9, MovesOn DEF SweepEnd, Sound

\* After that it locks nothing more.
LEMMA Later ==
    ASSUME Inv, NEW r \in Requests, NEW x,
           tx' = [tx EXCEPT ![r] = x],
           UNCHANGED <<now, users, tokens, minted, keys, issued, ended>>,
           Deleted(tx[r]), Deleted(x), x.op = tx[r].op, x.user = tx[r].user,
           x.family = tx[r].family, x.seen = tx[r].seen, Fits(x), SeesAllKeys(x)
    PROVE  Inv'
<1>1. Sound(tx[r])  BY DEF Inv
<1>2. ~Writing(x) /\ SpendsLive(x) /\ IssuedInTime(x)
  BY DEF Writing, Deleted, SpendsLive, IssuedInTime
<1>3. NumbersKnown(x) /\ SeesAll(x) /\ SeesNoOther(x)
  BY <1>1 DEF Sound, NumbersKnown, SeesAll, SeesNoOther, Covers
<1>4. \A t : Holds(x, t) <=> Holds(tx[r], t)  BY DEF Holds, Deleted
<1>5. \A s \in Requests \ {r} : Writing(tx[s]) => ~Holds(x, tx[s].tok)
  BY <1>4 DEF Inv, LocksApart
<1> QED BY <1>2, <1>3, <1>5, MovesOn DEF Sound

\* A DELETE of keys begins: it sees every key of the account.
LEMMA KeySweepStartKeeps ==
    ASSUME Inv, NEW r \in Requests, KeySweepStart(r)
    PROVE  Inv'
<1> DEFINE mine == {k \in DOMAIN keys : keys[k].user = tx[r].user}
           x == [tx[r] EXCEPT !.at = "keysweeping", !.keysSeen = mine]
<1>1. Fits(tx[r]) /\ tx[r].at = "keys" /\ tx[r] \in Request
  BY DEF Inv, TypeOK, KeySweepStart, Fits
<1>2. mine \subseteq Nat  BY DEF Inv, TypeOK
<1>3. /\ x \in Request /\ x.at = "keysweeping" /\ x.op = tx[r].op /\ x.user = tx[r].user
      /\ x.family = tx[r].family /\ x.seen = tx[r].seen /\ x.keysSeen = mine
  BY <1>1, <1>2 DEF Request, Steps, Revoking
<1>4. tx' = [tx EXCEPT ![r] = x]  BY DEF KeySweepStart
<1>5. SeesAllKeys(x)  BY <1>3 DEF SeesAllKeys
<1> HIDE DEF x, mine
<1>6. Fits(x)  BY <1>1, <1>3 DEF Fits, Revoking
<1> QED BY <1>1, <1>3, <1>4, <1>5, <1>6, Later DEF KeySweepStart, Deleted

\* It ends, and the flush sends the rest.
LEMMA FlushKeeps ==
    ASSUME Inv, NEW r \in Requests, KeySweepEnd(r) \/ FlushInsert(r) \/ FlushUpdate(r)
    PROVE  Inv'
<1>1. PICK a \in {"inserted", "update", "commit"} :
        /\ tx' = [tx EXCEPT ![r].at = a]
        /\ a = "inserted" => tx[r].at = "insert"
        /\ a = "update" => tx[r].at = "keysweeping"
        /\ a = "commit" => tx[r].at \in {"inserted", "update"}
  BY DEF KeySweepEnd, FlushInsert, FlushUpdate
<1> DEFINE x == [tx[r] EXCEPT !.at = a]
<1>2. Fits(tx[r]) /\ Sound(tx[r]) /\ tx[r] \in Request  BY DEF Inv, TypeOK, Fits
<1>3. /\ x \in Request /\ x.at = a /\ x.op = tx[r].op /\ x.user = tx[r].user
      /\ x.family = tx[r].family /\ x.seen = tx[r].seen /\ x.keysSeen = tx[r].keysSeen
  BY <1>2, AtIs DEF Steps, Revoking
<1>4. tx' = [tx EXCEPT ![r] = x]  BY <1>1
<1> HIDE DEF x
<1>5. Fits(x)  BY <1>1, <1>2, <1>3 DEF Fits, Revoking
<1>6. SeesAllKeys(x)  BY <1>1, <1>2, <1>3 DEF Sound, SeesAllKeys, Fits
<1>7. Deleted(tx[r]) /\ Deleted(x)  BY <1>1, <1>3 DEF Deleted
<1>8. UNCHANGED <<now, users, tokens, minted, keys, issued, ended>>
  BY DEF KeySweepEnd, FlushInsert, FlushUpdate
<1> QED BY <1>3, <1>4, <1>5, <1>6, <1>7, <1>8, Later
-----------------------------------------------------------------------------
(* Steps that change a table. *)

\* Rows of the token table may go, those a request has spent excepted.
LEMMA TokensGo ==
    ASSUME Inv, NEW gone, tokens' = Without(tokens, gone),
           UNCHANGED <<now, users, minted, keys, issued, tx, ended>>,
           \A r \in Requests : Writing(tx[r]) => tx[r].tok \notin gone
    PROVE  Inv'
<1>1. Tokens' = Tokens \ gone /\ \A t \in Tokens' : tokens'[t] = tokens[t]
  BY DEF Tokens, Without
<1>2. TypeOK'  BY <1>1 DEF Inv, TypeOK, Fits
<1>3. Numbered'  BY <1>1 DEF Inv, Numbered
<1>4. LocksApart'  BY DEF Inv, LocksApart, Writing, Holds, Deleted
<1>5. ASSUME NEW r \in Requests PROVE Sound(tx[r])'
  <2>1. Sound(tx[r])  BY DEF Inv
  <2>2. SpendsLive(tx[r])'  BY <1>1, <2>1 DEF Sound, SpendsLive, Live, Writing
  <2>3. (NumbersKnown(tx[r]) /\ SeesAllKeys(tx[r]) /\ IssuedInTime(tx[r]))'
    BY <2>1 DEF Sound, NumbersKnown, SeesAllKeys, IssuedInTime
  <2>4. (SeesAll(tx[r]) /\ SeesNoOther(tx[r]))'
    BY <1>1, <2>1 DEF Sound, SeesAll, SeesNoOther, Covers, Deleted
  <2> QED BY <2>2, <2>3, <2>4 DEF Sound
<1>6. FamilyNeverForks'  BY <1>1 DEF Inv, FamilyNeverForks, Live
<1>7. RevokedStaysRevoked'
  BY <1>1 DEF Inv, RevokedStaysRevoked, RevokedSessionsEnd, EndedFamiliesStayEnded, KeysGoWithTheAccount
<1> QED BY <1>2, <1>3, <1>4, <1>5, <1>6, <1>7 DEF Inv

\* refresh, as far as it reads, and the expired token it deletes.
LEMMA RefreshKeeps ==
    ASSUME Inv, NEW r \in Requests, NEW t \in Tokens, Refresh(r, t)
    PROVE  Inv'
<1>1. tokens[t] \in Token /\ t \in Nat /\ tokens[t].family <= minted
  BY DEF Inv, TypeOK, Numbered
<1>2. tokens[t].user \in Users /\ tokens[t].family \in Nat /\ tokens[t].family # NULL
  BY <1>1, AccountsAssumption DEF Token
<1>3. CASE /\ Reused(t) /\ UNCHANGED tokens
           /\ tx' = [tx EXCEPT ![r] = [Idle EXCEPT !.op = "reuse", !.at = "sweep",
                                      !.user = tokens[t].user, !.family = tokens[t].family]]
  <2> DEFINE x == [Idle EXCEPT !.op = "reuse", !.at = "sweep", !.user = tokens[t].user,
                               !.family = tokens[t].family]
  <2>1. /\ x \in Request /\ x.at = "sweep" /\ x.op = "reuse" /\ x.user \in Users
        /\ x.family = tokens[t].family /\ x.seen = {}
    BY <1>1, <1>2 DEF Idle, Request, Routes, Steps, Revoking
  <2>2. tx' = [tx EXCEPT ![r] = x]  BY <1>3
  <2> HIDE DEF x
  <2>3. Fits(x) /\ NumbersKnown(x) /\ ~Writing(x) /\ ~Deleted(x) /\ IssuedInTime(x)
    BY <1>1, <1>2, <2>1 DEF Fits, Revoking, NumbersKnown, Writing, Deleted, IssuedInTime
  <2> QED BY <1>3, <2>1, <2>2, <2>3, ReadsOn DEF Refresh
<1>4. CASE tokens' = Without(tokens, {t}) /\ ~Locked(t, r) /\ UNCHANGED tx
  <2>1. ~Writing(tx[r])  BY DEF Refresh, Free, Writing
  <2>2. \A s \in Requests : Writing(tx[s]) => tx[s].tok # t
    BY <1>4, <2>1 DEF Locked, Holds, Writing
  <2> QED BY <1>4, <2>2, TokensGo DEF Refresh
<1>5. CASE /\ UNCHANGED tokens
           /\ tx' = [tx EXCEPT ![r] = [Idle EXCEPT !.op = "refresh", !.at = "spend", !.tok = t,
                                      !.user = tokens[t].user, !.when = now]]
  <2> DEFINE x == [Idle EXCEPT !.op = "refresh", !.at = "spend", !.tok = t,
                               !.user = tokens[t].user, !.when = now]
  <2>1. now \in Nat  BY DEF Inv, TypeOK
  <2>2. /\ x \in Request /\ x.at = "spend" /\ x.user \in Users /\ x.tok \in Nat
        /\ x.family = NULL /\ x.seen = {}
    BY <1>1, <1>2, <2>1 DEF Idle, Request, Routes, Steps
  <2>3. tx' = [tx EXCEPT ![r] = x]  BY <1>5
  <2> HIDE DEF x
  <2>4. Fits(x) /\ NumbersKnown(x) /\ ~Writing(x) /\ ~Deleted(x) /\ IssuedInTime(x)
    BY <2>2 DEF Fits, Revoking, NumbersKnown, Writing, Deleted, IssuedInTime
  <2> QED BY <1>5, <2>2, <2>3, <2>4, ReadsOn DEF Refresh
<1> QED BY <1>3, <1>4, <1>5 DEF Refresh

\* purge_expired_refresh_tokens waits for the rows that are being spent.
LEMMA PurgeKeeps == Inv /\ Purge => Inv'
<1> SUFFICES ASSUME Inv, Purge PROVE Inv'  OBVIOUS
<1>1. \A r \in Requests : Writing(tx[r]) => tx[r].tok \notin {t \in Tokens : Lapsed(t)}
  BY AccountsAssumption DEF Purge, Locked, Holds, Writing
<1> QED BY <1>1, TokensGo DEF Purge

\* A request that ends leaves the others where they were.
LEMMA DoneIs ==
    ASSUME TypeOK, NEW r \in Requests, tx' = Done(r)
    PROVE  /\ tx' \in [Requests -> Request] /\ tx'[r] = Idle
           /\ \A s \in Requests \ {r} : tx'[s] = tx[s]
           /\ \A s \in Requests : Fits(tx'[s])
BY IdleType DEF Done, TypeOK

\* The parts of the invariant that say nothing of tokens, when a request ends
\* and accounts and keys stay as they are.
LEMMA EndedElsewhere ==
    ASSUME Inv, NEW r \in Requests, tx' = Done(r), UNCHANGED <<users, keys>>,
           minted' \in {minted, minted + 1}
    PROVE  /\ \A s \in Requests : (NumbersKnown(tx[s]) /\ SeesAllKeys(tx[s]) /\ IssuedInTime(tx[s]))'
           /\ LocksApart' /\ KeysGoWithTheAccount'
<1>1. /\ tx'[r] = Idle /\ \A s \in Requests \ {r} : tx'[s] = tx[s]
  BY DoneIs DEF Inv
<1>2. ASSUME NEW s \in Requests PROVE NumbersKnown(tx[s])'
  <2>1. CASE s = r  BY <1>1, <2>1 DEF NumbersKnown, Idle
  <2>2. CASE s # r
    <3>1. tx'[s] = tx[s] /\ NumbersKnown(tx[s]) /\ tx[s] \in Request
      BY <1>1, <2>2 DEF Inv, Sound, TypeOK
    <3>2. minted \in Nat /\ tx[s].family \in Nat \cup {NULL} /\ tx[s].seen \subseteq Nat
      BY <3>1 DEF Inv, TypeOK, Request
    <3> QED BY <3>1, <3>2 DEF NumbersKnown
  <2> QED BY <2>1, <2>2
<1>3. ASSUME NEW s \in Requests PROVE (SeesAllKeys(tx[s]) /\ IssuedInTime(tx[s]))'
  BY <1>1 DEF Inv, Sound, SeesAllKeys, IssuedInTime, Idle
<1>4. LocksApart'  BY <1>1, IdleType DEF Inv, LocksApart
<1>5. KeysGoWithTheAccount'  BY DEF Inv, RevokedStaysRevoked, KeysGoWithTheAccount
<1> QED BY <1>2, <1>3, <1>4, <1>5

\* A token minted into a family where nothing else is unspent keeps the
\* invariant: the rows before it are as they were, or spent by this request.
LEMMA MintKeeps ==
    ASSUME Inv, NEW r \in Requests, tx' = Done(r), NEW rows, NEW x \in Token,
           tokens' = Insert(rows, x), minted' = minted + 1,
           UNCHANGED <<now, users, keys, issued, ended>>,
           DOMAIN rows = Tokens,
           \A t \in Tokens : /\ rows[t] \in Token /\ rows[t].user = tokens[t].user
                             /\ rows[t].family = tokens[t].family /\ rows[t].feed = tokens[t].feed
                             /\ rows[t].late = tokens[t].late
                             /\ rows[t].consumed = NULL => tokens[t].consumed = NULL
                             /\ ~(Writing(tx[r]) /\ tx[r].tok = t) => rows[t] = tokens[t],
           x.family <= minted + 1,
           \A t \in Tokens : rows[t].consumed = NULL => rows[t].family # x.family,
           x.late \/ x.feed = users[x.user].feed,
           x.family \in ended => x.late,
           Sweeping(r, x) => x.late
    PROVE  Inv'
<1> DEFINE new == minted + 1
<1>1. /\ Tokens' = Tokens \cup {new} /\ tokens'[new] = x
      /\ new \notin Tokens /\ \A t \in Tokens : tokens'[t] = rows[t]
  BY DEF Insert, Tokens, Inv, TypeOK, Numbered
<1>2. /\ tx' \in [Requests -> Request] /\ tx'[r] = Idle
      /\ \A s \in Requests \ {r} : tx'[s] = tx[s]
      /\ \A s \in Requests : Fits(tx'[s])
  BY DoneIs DEF Inv
<1>3. minted \in Nat /\ new \in Nat  BY DEF Inv, TypeOK
<1>4. minted' \in {minted, minted + 1}  OBVIOUS
<1> HIDE DEF new
<1>5. TypeOK'  BY <1>1, <1>2, <1>3 DEF Inv, TypeOK, Fits, new
<1>6. Numbered'
  <2>1. \A t \in Tokens : t <= minted + 1 /\ tokens'[t].family <= minted + 1
    BY <1>1, <1>3 DEF Inv, Numbered, TypeOK, Token
  <2>2. \A f \in ended : f <= minted + 1  BY <1>3 DEF Inv, Numbered, TypeOK
  <2> QED BY <1>1, <1>3, <2>1, <2>2 DEF Numbered, Inv, new
<1>7. ASSUME NEW s \in Requests \ {r}
      PROVE  SpendsLive(tx[s])' /\ SeesAll(tx[s])' /\ SeesNoOther(tx[s])'
  <2>1. tx'[s] = tx[s] /\ Sound(tx[s])  BY <1>2 DEF Inv
  <2>2. SpendsLive(tx[s])'
    <3> SUFFICES ASSUME Writing(tx[s])
                 PROVE  tx[s].tok \in Tokens' /\ tokens'[tx[s].tok].consumed = NULL
      BY <2>1 DEF SpendsLive, Live, Writing
    <3>1. tx[s].tok \in Tokens /\ Live(tx[s].tok)  BY <2>1 DEF Sound, SpendsLive
    <3>2. Holds(tx[s], tx[s].tok)  BY DEF Holds, Writing
    <3>3. ~(Writing(tx[r]) /\ tx[r].tok = tx[s].tok)  BY <3>2 DEF Inv, LocksApart
    <3> QED BY <1>1, <3>1, <3>3 DEF Live
  <2>3. SeesAll(tx[s])'
    <3> SUFFICES ASSUME tx[s].at = "sweeping" \/ Deleted(tx[s]), NEW t \in Tokens',
                        Covers(tx[s], tokens'[t])
                 PROVE  t \in tx[s].seen \/ tokens'[t].late
      BY <2>1 DEF SeesAll, Deleted, Covers
    <3>1. CASE t = new  BY <1>1, <3>1 DEF Sweeping
    <3>2. CASE t \in Tokens
      <4>1. Covers(tx[s], tokens[t])  BY <1>1, <3>2 DEF Covers
      <4> QED BY <1>1, <2>1, <3>2, <4>1 DEF Sound, SeesAll
    <3> QED BY <1>1, <3>1, <3>2
  <2>4. SeesNoOther(tx[s])'
    <3>1. tx[s].seen \subseteq Nat /\ \A t \in tx[s].seen : t <= minted
      BY <2>1 DEF Inv, TypeOK, Request, Sound, NumbersKnown
    <3>2. new \notin tx[s].seen  BY <1>3, <3>1 DEF new
    <3> QED BY <1>1, <2>1, <3>2 DEF Sound, SeesNoOther, Covers
  <2> QED BY <2>2, <2>3, <2>4
<1>8. SpendsLive(tx[r])' /\ SeesAll(tx[r])' /\ SeesNoOther(tx[r])'
  BY <1>2 DEF SpendsLive, SeesAll, SeesNoOther, Writing, Deleted, Idle
<1>9. FamilyNeverForks'  BY <1>1 DEF Inv, FamilyNeverForks, Live
<1>10. RevokedSessionsEnd' /\ EndedFamiliesStayEnded'
  BY <1>1 DEF Inv, RevokedStaysRevoked, RevokedSessionsEnd, EndedFamiliesStayEnded
<1> QED BY <1>4, <1>5, <1>6, <1>7, <1>8, <1>9, <1>10, EndedElsewhere
        DEF Inv, Sound, RevokedStaysRevoked

\* The token of Minted.
LEMMA MintedIs ==
    ASSUME Inv, NEW r \in Requests, NEW u \in Users, NEW f \in Nat \cup {NULL}, NEW feed \in Nat,
           NEW late \in BOOLEAN
    PROVE  LET x == Minted(r, u, f, feed, late)
           IN  /\ x \in Token /\ x.user = u /\ x.feed = feed /\ (late => x.late)
               /\ x.family = IF f = NULL THEN minted + 1 ELSE f
               /\ x.consumed = NULL
               /\ Sweeping(r, x) => x.late
<1> DEFINE g == IF f = NULL THEN minted + 1 ELSE f
           l == late \/ Sweeping(r, [user |-> u, family |-> g])
           x == Minted(r, u, f, feed, late)
<1>1. g \in Nat /\ now + Lifetime \in Nat  BY BoundsAssumption DEF Inv, TypeOK
<1>2. l \in BOOLEAN  BY DEF Sweeping
<1>3. x = [user |-> u, family |-> g, expires |-> now + Lifetime, consumed |-> NULL, feed |-> feed,
           late |-> l]
  BY DEF Minted
<1>4. Sweeping(r, x) <=> Sweeping(r, [user |-> u, family |-> g])
  <2> HIDE DEF x, g, l
  <2> QED BY <1>3 DEF Sweeping, Covers
<1> HIDE DEF g
<1>5. x \in Token /\ x.user = u /\ x.family = g /\ x.feed = feed /\ x.late = l /\ x.consumed = NULL
  <2> HIDE DEF l, x
  <2> QED BY <1>1, <1>2, <1>3 DEF Token
<1> QED BY <1>4, <1>5 DEF g

\* login commits a token of a new family.
LEMMA LoginMintKeeps ==
    ASSUME Inv, NEW r \in Requests, LoginMint(r)
    PROVE  Inv'
<1> DEFINE x == Minted(r, tx[r].user, NULL, tx[r].feed, tx[r].late)
<1>1. /\ tx[r].user \in Users /\ tx[r].feed \in Nat /\ tx[r].late \in BOOLEAN /\ minted \in Nat
      /\ tx[r].at = "mint" /\ IssuedInTime(tx[r])
  BY DEF Inv, TypeOK, Fits, Request, Sound, LoginMint
<1>2. /\ x \in Token /\ x.user = tx[r].user /\ x.feed = tx[r].feed /\ x.family = minted + 1
      /\ (tx[r].late => x.late) /\ (Sweeping(r, x) => x.late)
  <2> DEFINE f == NULL
  <2>1. f \in Nat \cup {NULL} /\ (IF f = NULL THEN minted + 1 ELSE f) = minted + 1  OBVIOUS
  <2>2. x = Minted(r, tx[r].user, f, tx[r].feed, tx[r].late)  OBVIOUS
  <2> HIDE DEF x, f
  <2>3. x \in Token  BY <1>1, <2>1, <2>2, MintedIs
  <2>4. x.user = tx[r].user /\ x.feed = tx[r].feed  BY <1>1, <2>1, <2>2, MintedIs
  <2>5. x.family = minted + 1  BY <1>1, <2>1, <2>2, MintedIs
  <2>6. (tx[r].late => x.late) /\ (Sweeping(r, x) => x.late)  BY <1>1, <2>1, <2>2, MintedIs
  <2> QED BY <2>3, <2>4, <2>5, <2>6
<1>3. \A t \in Tokens : tokens[t] \in Token /\ tokens[t].family <= minted /\ tokens[t].family \in Nat
  BY DEF Inv, TypeOK, Numbered, Token
<1>4. tokens' = Insert(tokens, x)  BY DEF LoginMint
<1> HIDE DEF x
<1>5. \A t \in Tokens : tokens[t].family # x.family  BY <1>1, <1>2, <1>3
<1>6. x.family \notin ended  BY <1>1, <1>2 DEF Inv, TypeOK, Numbered
<1>7. x.late \/ x.feed = users[x.user].feed  BY <1>1, <1>2 DEF IssuedInTime
<1>8. x.family <= minted + 1  BY <1>1, <1>2
<1> QED BY <1>2, <1>3, <1>4, <1>5, <1>6, <1>7, <1>8, MintKeeps DEF LoginMint, Tokens

\* The row of a spent token, committed.
LEMMA ConsumedIs ==
    ASSUME Inv, NEW r \in Requests, Writing(tx[r])
    PROVE  /\ DOMAIN Consumed(tokens, r) = Tokens
           /\ \A t \in Tokens : LET row == Consumed(tokens, r)[t]
                                IN  /\ row \in Token /\ row.user = tokens[t].user
                                    /\ row.family = tokens[t].family /\ row.feed = tokens[t].feed
                                    /\ row.late = tokens[t].late
                                    /\ IF t = tx[r].tok THEN row.consumed # NULL ELSE row = tokens[t]
<1>1. tx[r].when \in Nat /\ NULL \notin Nat  BY AccountsAssumption DEF Inv, TypeOK, Request
<1>2. \A t \in Tokens : tokens[t] \in Token  BY DEF Inv, TypeOK
<1> QED BY <1>1, <1>2 DEF Consumed, Tokens, Token

\* refresh reads the account; a deactivated one's token is spent for nothing.
LEMMA RefreshCheckKeeps ==
    ASSUME Inv, NEW r \in Requests, RefreshCheck(r)
    PROVE  Inv'
<1>0. Writing(tx[r]) /\ Fits(tx[r]) /\ Sound(tx[r]) /\ tx[r] \in Request
  BY DEF RefreshCheck, Writing, Inv, TypeOK
<1>1. CASE users[tx[r].user].out
  <2>1. tokens' = Consumed(tokens, r) /\ tx' = Done(r)  BY <1>1 DEF RefreshCheck
  <2>2. UNCHANGED <<now, users, minted, keys, issued, ended>>  BY DEF RefreshCheck
  <2>3. /\ Tokens' = Tokens
        /\ \A t \in Tokens : /\ tokens'[t] \in Token /\ tokens'[t].user = tokens[t].user
                             /\ tokens'[t].family = tokens[t].family
                             /\ tokens'[t].feed = tokens[t].feed /\ tokens'[t].late = tokens[t].late
                             /\ IF t = tx[r].tok THEN tokens'[t].consumed # NULL
                                ELSE tokens'[t] = tokens[t]
    BY <1>0, <2>1, ConsumedIs DEF Tokens
  <2>4. /\ tx' \in [Requests -> Request] /\ tx'[r] = Idle
        /\ \A s \in Requests \ {r} : tx'[s] = tx[s]
        /\ \A s \in Requests : Fits(tx'[s])
    BY <2>1, DoneIs DEF Inv
  <2>5. TypeOK'  BY <2>2, <2>3, <2>4 DEF Inv, TypeOK, Fits
  <2>6. Numbered'  BY <2>2, <2>3 DEF Inv, Numbered
  <2>7. ASSUME NEW s \in Requests \ {r}
        PROVE  SpendsLive(tx[s])' /\ SeesAll(tx[s])' /\ SeesNoOther(tx[s])'
    <3>1. tx'[s] = tx[s] /\ Sound(tx[s])  BY <2>4 DEF Inv
    <3>2. SpendsLive(tx[s])'
      <4> SUFFICES ASSUME Writing(tx[s])
                   PROVE  tx[s].tok \in Tokens' /\ tokens'[tx[s].tok].consumed = NULL
        BY <3>1 DEF SpendsLive, Live, Writing
      <4>1. tx[s].tok \in Tokens /\ Live(tx[s].tok)  BY <3>1 DEF Sound, SpendsLive
      <4>2. Holds(tx[s], tx[s].tok)  BY DEF Holds, Writing
      <4>3. tx[r].tok # tx[s].tok  BY <1>0, <4>2 DEF Inv, LocksApart
      <4> QED BY <2>3, <4>1, <4>3 DEF Live
    <3>3. SeesAll(tx[s])' /\ SeesNoOther(tx[s])'
      BY <2>3, <3>1 DEF Sound, SeesAll, SeesNoOther, Covers, Deleted
    <3> QED BY <3>2, <3>3
  <2>8. SpendsLive(tx[r])' /\ SeesAll(tx[r])' /\ SeesNoOther(tx[r])'
    BY <2>4 DEF SpendsLive, SeesAll, SeesNoOther, Writing, Deleted, Idle
  <2>9. FamilyNeverForks'  BY <2>3 DEF Inv, FamilyNeverForks, Live
  <2>10. RevokedSessionsEnd' /\ EndedFamiliesStayEnded'
    BY <2>2, <2>3 DEF Inv, RevokedStaysRevoked, RevokedSessionsEnd, EndedFamiliesStayEnded
  <2> QED BY <2>1, <2>2, <2>5, <2>6, <2>7, <2>8, <2>9, <2>10, EndedElsewhere
          DEF Inv, Sound, RevokedStaysRevoked
<1>2. CASE ~users[tx[r].user].out
  <2> DEFINE x == [tx[r] EXCEPT !.at = "checked"]
  <2>1. /\ x \in Request /\ x.at = "checked" /\ x.op = tx[r].op /\ x.user = tx[r].user
        /\ x.tok = tx[r].tok /\ x.family = tx[r].family /\ x.seen = tx[r].seen
    BY <1>0, AtIs DEF Steps
  <2>2. tx' = [tx EXCEPT ![r] = x] /\ tx[r].at = "spent"  BY <1>2 DEF RefreshCheck
  <2> HIDE DEF x
  <2>3. Fits(x)  BY <1>0, <2>1, <2>2 DEF Fits, Revoking
  <2>4. Sound(x)
    BY <1>0, <2>1, <2>2 DEF Sound, NumbersKnown, SpendsLive, SeesAll, SeesNoOther, SeesAllKeys,
                            IssuedInTime, Writing, Deleted, Covers
  <2>5. \A t : Holds(x, t) <=> Holds(tx[r], t)  BY <2>1, <2>2 DEF Holds, Deleted
  <2>6. \A s \in Requests \ {r} : ~Holds(tx[s], x.tok) /\ (Writing(tx[s]) => ~Holds(x, tx[s].tok))
    BY <1>0, <2>1, <2>5 DEF Inv, LocksApart
  <2> QED BY <1>2, <2>2, <2>3, <2>4, <2>6, MovesOn DEF RefreshCheck
<1> QED BY <1>1, <1>2

\* refresh commits the successor of the token it spent.
LEMMA RefreshMintKeeps ==
    ASSUME Inv, NEW r \in Requests, RefreshMint(r)
    PROVE  Inv'
<1> DEFINE old == tokens[tx[r].tok]
           x == Minted(r, old.user, old.family, old.feed, old.late)
           rows == Consumed(tokens, r)
<1>1. Writing(tx[r]) /\ tx[r].tok \in Tokens /\ Live(tx[r].tok)
  BY DEF RefreshMint, Writing, Inv, Sound, SpendsLive
<1>2. /\ old \in Token /\ old.family <= minted /\ minted \in Nat
  BY <1>1 DEF Inv, TypeOK, Numbered
<1>3. /\ old.user \in Users /\ old.family \in Nat /\ old.feed \in Nat /\ old.late \in BOOLEAN
      /\ old.family # NULL
  <2> HIDE DEF old
  <2> QED BY <1>2, AccountsAssumption DEF Token
<1>4. /\ x \in Token /\ x.user = old.user /\ x.family = old.family /\ x.feed = old.feed
      /\ old.late => x.late
      /\ Sweeping(r, x) => x.late
  <2> HIDE DEF old
  <2> QED BY <1>3, MintedIs
<1>5. tokens' = Insert(rows, x)  BY DEF RefreshMint
<1>6. /\ x.late \/ x.feed = users[x.user].feed
      /\ x.family \in ended => x.late
  <2> HIDE DEF x
  <2> QED BY <1>1, <1>4 DEF Inv, RevokedStaysRevoked, RevokedSessionsEnd, EndedFamiliesStayEnded
<1>7. x.family <= minted + 1
  <2> HIDE DEF old, x
  <2> QED BY <1>2, <1>3, <1>4
<1>8. ASSUME NEW t \in Tokens, rows[t].consumed = NULL
      PROVE  rows[t].family # x.family
  <2> HIDE DEF x
  <2>1. t # tx[r].tok /\ Live(t) /\ rows[t].family = tokens[t].family
    BY <1>1, <1>8, ConsumedIs DEF Live
  <2> QED BY <1>1, <1>4, <2>1 DEF Inv, FamilyNeverForks
<1>9. /\ DOMAIN rows = Tokens
      /\ \A t \in Tokens : /\ rows[t] \in Token /\ rows[t].user = tokens[t].user
                           /\ rows[t].family = tokens[t].family /\ rows[t].feed = tokens[t].feed
                           /\ rows[t].late = tokens[t].late
                           /\ rows[t].consumed = NULL => tokens[t].consumed = NULL
                           /\ ~(Writing(tx[r]) /\ tx[r].tok = t) => rows[t] = tokens[t]
  BY <1>1, ConsumedIs
<1> HIDE DEF x, old, rows
<1> QED BY <1>4, <1>5, <1>6, <1>7, <1>8, <1>9, MintKeeps DEF RefreshMint

\* What a committed revocation does to the other requests: it marks some.
LEMMA MarkedIs ==
    ASSUME TypeOK, NEW r \in Requests, tx' = Marked(r)
    PROVE  /\ tx' \in [Requests -> Request] /\ tx'[r] = Idle
           /\ \A s \in Requests \ {r} :
                /\ tx'[s].at = tx[s].at /\ tx'[s].op = tx[s].op /\ tx'[s].user = tx[s].user
                /\ tx'[s].tok = tx[s].tok /\ tx'[s].family = tx[s].family
                /\ tx'[s].seen = tx[s].seen /\ tx'[s].keysSeen = tx[s].keysSeen
                /\ tx'[s].feed = tx[s].feed
                /\ tx[s].late => tx'[s].late
                /\ Overlaps(s, r) => tx'[s].late
           /\ \A s \in Requests : Fits(tx'[s])
<1>1. \A s \in Requests : tx[s] \in Request /\ Fits(tx[s])  BY DEF TypeOK
<1>2. \A s \in Requests : [tx[s] EXCEPT !.late = TRUE] \in Request  BY <1>1 DEF Request
<1>3. tx' \in [Requests -> Request]  BY <1>1, <1>2, IdleType DEF Marked
<1>4. tx'[r] = Idle  BY DEF Marked
<1>5. \A s \in Requests \ {r} : tx'[s] = IF Overlaps(s, r) THEN [tx[s] EXCEPT !.late = TRUE] ELSE tx[s]
  BY DEF Marked
<1>6. ASSUME NEW s \in Requests \ {r}
      PROVE  /\ tx'[s].at = tx[s].at /\ tx'[s].op = tx[s].op /\ tx'[s].user = tx[s].user
             /\ tx'[s].tok = tx[s].tok /\ tx'[s].family = tx[s].family
             /\ tx'[s].seen = tx[s].seen /\ tx'[s].keysSeen = tx[s].keysSeen
             /\ tx'[s].feed = tx[s].feed
             /\ tx[s].late => tx'[s].late
             /\ Overlaps(s, r) => tx'[s].late
  BY <1>1, <1>5 DEF Request
<1>7. ASSUME NEW s \in Requests PROVE Fits(tx'[s])
  <2>1. CASE s = r  BY <1>4, <2>1, IdleType
  <2>2. CASE s # r  BY <1>1, <1>3, <1>6, <2>2 DEF Fits
  <2> QED BY <2>1, <2>2
<1> QED BY <1>3, <1>4, <1>6, <1>7

\* The account a request has written.
LEMMA WrittenIs ==
    ASSUME NEW v \in Account, NEW r, tx[r] \in Request
    PROVE  /\ Written(v, r) \in Account
           /\ Written(v, r).feed = IF tx[r].op \in Rotating THEN v.feed + 1 ELSE v.feed
           /\ tx[r].op # "deactivate" => (Written(v, r).out => v.out)
<1> DEFINE op == tx[r].op
           a == (v.out \/ op = "deactivate") /\ op # "reactivate"
           b == CASE op = "change" -> v.first /\ ~tx[r].first
                  [] op = "reset" -> v.first \/ ~tx[r].first
                  [] OTHER -> v.first
           c == IF op \in Rotating THEN v.feed + 1 ELSE v.feed
<1>1. a \in BOOLEAN  BY DEF Account
<1>2. b \in BOOLEAN
  <2>1. v.first \in BOOLEAN /\ tx[r].first \in BOOLEAN  BY DEF Account, Request
  <2> QED BY <2>1
<1>3. c \in Nat  BY DEF Account
<1>4. Written(v, r) = [v EXCEPT !.feed = c, !.out = a, !.first = b]  BY DEF Written
<1>5. op # "deactivate" => (a => v.out)  OBVIOUS
<1> HIDE DEF a, b, c
<1>6. /\ [v EXCEPT !.feed = c, !.out = a, !.first = b] \in Account
      /\ [v EXCEPT !.feed = c, !.out = a, !.first = b].feed = c
      /\ [v EXCEPT !.feed = c, !.out = a, !.first = b].out = a
  BY <1>1, <1>2, <1>3 DEF Account
<1> QED BY <1>4, <1>5, <1>6 DEF c

\* A revocation commits: what it saw goes, and change-password signs in anew.
LEMMA CommitKeeps ==
    ASSUME Inv, NEW r \in Requests, Commit(r)
    PROVE  Inv'
<1> DEFINE u == tx[r].user
           f == tx[r].family
           op == tx[r].op
           seen == tx[r].seen
           fresh == Minted(r, u, NULL, users[u].feed + 1, FALSE)
<1>1. /\ tx[r].at = "commit" /\ Fits(tx[r]) /\ Sound(tx[r]) /\ tx[r] \in Request
      /\ u \in Users /\ minted \in Nat /\ users[u] \in Account /\ users[u].feed + 1 \in Nat
  BY DEF Commit, Inv, TypeOK, Fits, Account
<1>2. IF f = NULL THEN op \in Rotating \cup {"reactivate"} ELSE op \in {"logout", "reuse"}
  BY <1>1 DEF Fits, Revoking
<1>3. /\ tx' \in [Requests -> Request] /\ tx'[r] = Idle
      /\ \A s \in Requests \ {r} :
           /\ tx'[s].at = tx[s].at /\ tx'[s].op = tx[s].op /\ tx'[s].user = tx[s].user
           /\ tx'[s].tok = tx[s].tok /\ tx'[s].family = tx[s].family
           /\ tx'[s].seen = tx[s].seen /\ tx'[s].keysSeen = tx[s].keysSeen
           /\ tx'[s].feed = tx[s].feed
           /\ tx[s].late => tx'[s].late
           /\ Overlaps(s, r) => tx'[s].late
      /\ \A s \in Requests : Fits(tx'[s])
  BY MarkedIs DEF Commit, Inv
<1>4. /\ fresh \in Token /\ fresh.user = u /\ fresh.feed = users[u].feed + 1
      /\ fresh.family = minted + 1 /\ (Sweeping(r, fresh) => fresh.late)
  <2> DEFINE g == NULL
             n == users[u].feed + 1
             l == FALSE
  <2>1. g \in Nat \cup {NULL} /\ (IF g = NULL THEN minted + 1 ELSE g) = minted + 1  OBVIOUS
  <2>2. fresh = Minted(r, u, g, n, l) /\ n \in Nat /\ l \in BOOLEAN  BY <1>1
  <2> HIDE DEF fresh, g, u, n, l
  <2>3. u \in Users  BY <1>1
  <2>4. fresh \in Token  BY <2>1, <2>2, <2>3, MintedIs
  <2>5. fresh.user = u /\ fresh.feed = n  BY <2>1, <2>2, <2>3, MintedIs
  <2>6. fresh.family = minted + 1  BY <2>1, <2>2, <2>3, MintedIs
  <2>7. Sweeping(r, fresh) => fresh.late  BY <2>1, <2>2, <2>3, MintedIs
  <2> QED BY <2>4, <2>5, <2>6, <2>7 DEF n
<1>5. minted + 1 \notin Tokens  BY <1>1 DEF Inv, TypeOK, Numbered
<1>6. /\ \A t \in Tokens \ seen : tokens'[t] = tokens[t]
      /\ \/ minted' = minted /\ Tokens' = Tokens \ seen
         \/ /\ minted' = minted + 1 /\ Tokens' = (Tokens \ seen) \cup {minted + 1}
            /\ tokens'[minted + 1] = fresh /\ op = "change"
  <2>1. CASE op = "change"
    <3>1. tokens' = Insert(Without(tokens, seen), fresh) /\ minted' = minted + 1
      BY <2>1 DEF Commit
    <3> HIDE DEF fresh
    <3> QED BY <1>5, <2>1, <3>1 DEF Insert, Without, Tokens
  <2>2. CASE op # "change"
    <3>1. tokens' = Without(tokens, seen) /\ minted' = minted  BY <2>2 DEF Commit
    <3> QED BY <2>2, <3>1 DEF Without, Tokens
  <2> QED BY <2>1, <2>2
<1>7. /\ UNCHANGED <<now, issued>>
      /\ ended' = IF f # NULL THEN ended \cup {f} ELSE ended
      /\ users' = IF f # NULL THEN users ELSE [users EXCEPT ![u] = Written(users[u], r)]
      /\ keys' = Without(keys, tx[r].keysSeen)
  BY DEF Commit
<1>8. /\ users' \in [Users -> Account]
      /\ \A v \in Users : v # u \/ f # NULL => users'[v] = users[v]
      /\ f = NULL => users'[u].feed = IF op \in Rotating THEN users[u].feed + 1 ELSE users[u].feed
      /\ op # "deactivate" => (users'[u].out => users[u].out)
  <2>1. /\ Written(users[u], r) \in Account
        /\ Written(users[u], r).feed = IF op \in Rotating THEN users[u].feed + 1 ELSE users[u].feed
        /\ op # "deactivate" => (Written(users[u], r).out => users[u].out)
    BY <1>1, WrittenIs
  <2> HIDE DEF u, f, op
  <2> QED BY <1>1, <1>7, <2>1 DEF Inv, TypeOK
<1>9. /\ DOMAIN keys' = DOMAIN keys \ tx[r].keysSeen /\ \A k \in DOMAIN keys' : keys'[k] = keys[k]
  BY <1>7 DEF Without
<1>10. op = "deactivate" => \A k \in DOMAIN keys' : keys[k].user = u => keys[k].late
  BY <1>1, <1>9 DEF Sound, SeesAllKeys
<1>11. \A t \in Tokens \ seen : Covers(tx[r], tokens[t]) => tokens[t].late
  BY <1>1 DEF Sound, SeesAll, Deleted
<1>12. f # NULL => f \in Nat /\ f <= minted
  BY <1>1 DEF Sound, NumbersKnown, Request
<1>13. \A s \in Requests : Writing(tx[s]) => s # r /\ tx[s].tok \notin seen
  <2>1. \A t \in seen : Holds(tx[r], t)  BY <1>1 DEF Holds, Deleted
  <2> QED BY <1>1, <2>1 DEF Inv, LocksApart, Writing
<1> HIDE DEF fresh, u, f, op, seen
<1>14. TypeOK'
  <2>1. minted' \in Nat  BY <1>1, <1>6
  <2>2. ended' \subseteq Nat
    <3>1. ended \subseteq Nat  BY DEF Inv, TypeOK
    <3>2. ended' = ended \/ (f # NULL /\ ended' = ended \cup {f})  BY <1>7
    <3> QED BY <1>12, <3>1, <3>2, Zenon
  <2>3. Tokens' \subseteq Nat /\ \A t \in Tokens' : tokens'[t] \in Token
    <3>1. Tokens \subseteq Nat /\ \A t \in Tokens : tokens[t] \in Token  BY DEF Inv, TypeOK
    <3>2. minted + 1 \in Nat  BY <1>1
    <3>3. \A t \in Tokens' : t \in Tokens \ seen \/ (t = minted + 1 /\ tokens'[t] = fresh)
      BY <1>6
    <3> QED BY <1>4, <1>6, <3>1, <3>2, <3>3
  <2>4. DOMAIN keys' \subseteq Nat /\ \A k \in DOMAIN keys' : keys'[k] \in ApiKey
    BY <1>9 DEF Inv, TypeOK
  <2>5. now' \in Nat /\ issued' \in Nat  BY <1>7 DEF Inv, TypeOK
  <2> QED BY <1>3, <1>8, <2>1, <2>2, <2>3, <2>4, <2>5 DEF TypeOK, Fits
<1>15. Numbered'
  <2>1. minted <= minted' /\ minted' \in Nat  BY <1>1, <1>6
  <2>2. \A t \in Tokens \ seen : /\ t \in Nat /\ t <= minted
                                 /\ tokens[t].family \in Nat /\ tokens[t].family <= minted
    BY DEF Inv, Numbered, TypeOK, Token
  <2>3. \A t \in Tokens' : t <= minted' /\ tokens'[t].family <= minted'
    BY <1>1, <1>4, <1>6, <2>1, <2>2
  <2>4. \A g \in ended' : g <= minted'
    BY <1>1, <1>7, <1>12, <2>1 DEF Inv, Numbered, TypeOK
  <2>5. \A k \in DOMAIN keys' : k <= issued'  BY <1>7, <1>9 DEF Inv, Numbered
  <2> QED BY <2>3, <2>4, <2>5 DEF Numbered
<1>16. LocksApart'
  <2> SUFFICES ASSUME NEW s \in Requests, NEW q \in Requests,
                      Writing(tx'[s]), Holds(tx'[q], tx'[s].tok)
               PROVE  s = q
    BY DEF LocksApart, Writing, Holds, Deleted
  <2>1. s # r /\ q # r  BY <1>3, IdleType
  <2>2. Writing(tx[s]) /\ Holds(tx[q], tx[s].tok)  BY <1>3, <2>1 DEF Writing, Holds, Deleted
  <2> QED BY <2>2 DEF Inv, LocksApart
<1>17. ASSUME NEW s \in Requests PROVE Sound(tx[s])'
  <2>1. CASE s = r
    BY <1>3, <2>1 DEF Sound, NumbersKnown, SpendsLive, SeesAll, SeesNoOther, SeesAllKeys,
                      IssuedInTime, Writing, Deleted, Idle
  <2>2. CASE s # r
    <3>1. /\ tx'[s].at = tx[s].at /\ tx'[s].op = tx[s].op /\ tx'[s].user = tx[s].user
          /\ tx'[s].tok = tx[s].tok /\ tx'[s].family = tx[s].family
          /\ tx'[s].seen = tx[s].seen /\ tx'[s].keysSeen = tx[s].keysSeen
          /\ tx'[s].feed = tx[s].feed
          /\ tx[s].late => tx'[s].late
          /\ Overlaps(s, r) => tx'[s].late
      BY <1>3, <2>2
    <3>2. Sound(tx[s]) /\ Fits(tx[s]) /\ tx[s] \in Request  BY DEF Inv, TypeOK
    <3>3. \A n \in tx[s].seen : n \in Nat /\ n <= minted
      BY <3>2 DEF Request, Sound, NumbersKnown
    <3>4. NumbersKnown(tx[s])'
      <4>1. minted' \in {minted, minted + 1}  BY <1>6
      <4>2. tx[s].family # NULL => tx[s].family \in Nat /\ tx[s].family <= minted
        BY <3>2 DEF Request, Sound, NumbersKnown
      <4> QED BY <1>1, <3>1, <3>3, <4>1, <4>2 DEF NumbersKnown
    <3>5. SpendsLive(tx[s])'
      <4> SUFFICES ASSUME Writing(tx[s])
                   PROVE  tx[s].tok \in Tokens' /\ tokens'[tx[s].tok].consumed = NULL
        BY <3>1 DEF SpendsLive, Live, Writing
      <4>1. tx[s].tok \in Tokens \ seen /\ Live(tx[s].tok)
        BY <1>13, <3>2 DEF Sound, SpendsLive
      <4> QED BY <1>6, <4>1 DEF Live
    <3>6. SeesAll(tx[s])'
      <4> SUFFICES ASSUME tx[s].at = "sweeping" \/ Deleted(tx[s]), NEW t \in Tokens',
                          Covers(tx[s], tokens'[t])
                   PROVE  t \in tx[s].seen \/ tokens'[t].late
        BY <3>1 DEF SeesAll, Deleted, Covers
      <4>1. CASE t \in Tokens \ seen
        <5>1. tokens'[t] = tokens[t]  BY <1>6, <4>1
        <5> QED BY <3>2, <4>1, <5>1 DEF Sound, SeesAll
      <4>2. CASE tokens'[t] = fresh
        <5>1. Sweeping(r, fresh)  BY <2>2, <4>2 DEF Sweeping
        <5> QED BY <1>4, <4>2, <5>1
      <4> QED BY <1>6, <4>1, <4>2
    <3>7. SeesNoOther(tx[s])'
      <4> SUFFICES ASSUME NEW t \in Tokens', t \in tx[s].seen
                   PROVE  Covers(tx[s], tokens'[t])
        BY <3>1 DEF SeesNoOther, Covers
      <4>1. t # minted + 1  BY <1>1, <3>3
      <4>2. t \in Tokens \ seen /\ tokens'[t] = tokens[t]  BY <1>6, <4>1
      <4> QED BY <3>2, <4>2 DEF Sound, SeesNoOther
    <3>8. SeesAllKeys(tx[s])'  BY <1>9, <3>1, <3>2 DEF Sound, SeesAllKeys
    <3>9. IssuedInTime(tx[s])'
      <4>1. IssuedInTime(tx[s])  BY <3>2 DEF Sound
      <4>2. tx[s].at \in {"mint", "key"} => tx[s].user \in Users  BY <3>2 DEF Fits
      <4>3. CASE tx[s].user = u /\ f = NULL
        <5>1. tx[s].at = "mint" => tx'[s].late \/ users'[u].feed = users[u].feed
          BY <1>8, <3>1, <4>3 DEF Overlaps, u, op
        <5>2. tx[s].at = "key" => tx'[s].late \/ (users'[u].out => users[u].out)
          BY <1>8, <3>1, <4>3 DEF Overlaps, u, op
        <5> QED BY <3>1, <4>1, <4>3, <5>1, <5>2 DEF IssuedInTime
      <4>4. CASE ~(tx[s].user = u /\ f = NULL)
        <5>1. tx[s].at \in {"mint", "key"} => users'[tx[s].user] = users[tx[s].user]
          BY <1>8, <4>2, <4>4
        <5> QED BY <3>1, <4>1, <5>1 DEF IssuedInTime
      <4> QED BY <4>3, <4>4
    <3> QED BY <3>4, <3>5, <3>6, <3>7, <3>8, <3>9 DEF Sound
  <2> QED BY <2>1, <2>2
<1>18. FamilyNeverForks'
  <2>1. \A t \in Tokens : tokens[t].family # minted + 1  BY <1>1 DEF Inv, Numbered, TypeOK, Token
  <2> QED BY <1>4, <1>6, <2>1 DEF Inv, FamilyNeverForks, Live
<1>19. RevokedSessionsEnd'
  <2> SUFFICES ASSUME NEW t \in Tokens', ~tokens'[t].late
               PROVE  tokens'[t].feed = users'[tokens'[t].user].feed
    BY DEF RevokedSessionsEnd
  <2>1. CASE t \in Tokens \ seen
    <3>1. tokens'[t] = tokens[t] /\ tokens[t].user \in Users
      BY <1>6, <2>1 DEF Inv, TypeOK, Token
    <3>2. ~Covers(tx[r], tokens[t])  BY <1>11, <2>1, <3>1
    <3>3. tokens[t].user # u \/ f # NULL \/ op \notin Rotating  BY <3>2 DEF Covers, f, u, op
    <3>4. users'[tokens[t].user].feed = users[tokens[t].user].feed  BY <1>8, <3>1, <3>3
    <3> QED BY <2>1, <3>1, <3>4 DEF Inv, RevokedStaysRevoked, RevokedSessionsEnd
  <2>2. CASE tokens'[t] = fresh /\ op = "change"
    <3>1. f = NULL /\ op \in Rotating  BY <1>2, <2>2 DEF Rotating
    <3> QED BY <1>4, <1>8, <2>2, <3>1
  <2> QED BY <1>6, <2>1, <2>2
<1>20. EndedFamiliesStayEnded'
  <2> SUFFICES ASSUME NEW t \in Tokens', tokens'[t].family \in ended'
               PROVE  tokens'[t].late
    BY DEF EndedFamiliesStayEnded
  <2>1. CASE t \in Tokens \ seen
    <3>1. tokens'[t] = tokens[t]  BY <1>6, <2>1
    <3>2. CASE tokens[t].family \in ended
      BY <2>1, <3>1, <3>2 DEF Inv, RevokedStaysRevoked, EndedFamiliesStayEnded
    <3>3. CASE f # NULL /\ tokens[t].family = f
      <4>1. Covers(tx[r], tokens[t])  BY <3>3 DEF Covers, f
      <4> QED BY <1>11, <2>1, <3>1, <4>1
    <3> QED BY <1>7, <3>1, <3>2, <3>3
  <2>2. CASE tokens'[t] = fresh
    <3>1. minted + 1 \notin ended  BY <1>1 DEF Inv, Numbered, TypeOK
    <3>2. f # NULL => f # minted + 1  BY <1>1, <1>12
    <3> QED BY <1>4, <1>7, <2>2, <3>1, <3>2
  <2> QED BY <1>6, <2>1, <2>2
<1>21. KeysGoWithTheAccount'
  <2> SUFFICES ASSUME NEW k \in DOMAIN keys', users'[keys[k].user].out
               PROVE  keys[k].late
    BY <1>9 DEF KeysGoWithTheAccount
  <2>1. k \in DOMAIN keys /\ keys[k].user \in Users  BY <1>9 DEF Inv, TypeOK, ApiKey
  <2>2. CASE op = "deactivate" /\ keys[k].user = u  BY <1>10, <2>2
  <2>3. CASE ~(op = "deactivate" /\ keys[k].user = u)
    <3>1. users[keys[k].user].out  BY <1>8, <2>1, <2>3
    <3> QED BY <2>1, <3>1 DEF Inv, RevokedStaysRevoked, KeysGoWithTheAccount
  <2> QED BY <2>2, <2>3
<1> QED BY <1>14, <1>15, <1>16, <1>17, <1>18, <1>19, <1>20, <1>21 DEF Inv, RevokedStaysRevoked

\* create_api_key commits: a key too young for a DELETE under way is marked.
LEMMA ApiKeyCommitKeeps ==
    ASSUME Inv, NEW r \in Requests, ApiKeyCommit(r)
    PROVE  Inv'
<1> DEFINE key == [user |-> tx[r].user, late |-> tx[r].late \/ KeySweeping(tx[r].user)]
           new == issued + 1
<1>1. UNCHANGED <<now, users, tokens, minted, ended>> /\ tx' = Done(r) /\ issued' = new
  BY DEF ApiKeyCommit
<1>2. /\ tx' \in [Requests -> Request] /\ tx'[r] = Idle
      /\ \A s \in Requests \ {r} : tx'[s] = tx[s]
      /\ \A s \in Requests : Fits(tx'[s])
  BY <1>1, DoneIs DEF Inv
<1>3. Fits(tx[r]) /\ tx[r].at = "key" /\ IssuedInTime(tx[r]) /\ issued \in Nat
  BY DEF ApiKeyCommit, Inv, TypeOK, Sound
<1>4. key.user = tx[r].user /\ key.late = (tx[r].late \/ KeySweeping(tx[r].user)) /\ key \in ApiKey
  <2>1. (tx[r].late \/ KeySweeping(tx[r].user)) \in BOOLEAN  BY <1>3 DEF Fits, Request, KeySweeping
  <2>2. tx[r].user \in Users  BY <1>3 DEF Fits
  <2> QED BY <2>1, <2>2 DEF ApiKey
<1>5. /\ DOMAIN keys' = DOMAIN keys \cup {new} /\ keys'[new] = key
      /\ \A k \in DOMAIN keys : k # new => keys'[k] = keys[k]
  BY DEF ApiKeyCommit
<1>6. \A k \in DOMAIN keys : k \in Nat /\ k <= issued /\ k # new
  BY <1>3 DEF Inv, TypeOK, Numbered
<1>7. Tokens' = Tokens  BY <1>1 DEF Tokens
<1>8. key.late \/ ~users[key.user].out  BY <1>3, <1>4 DEF IssuedInTime
<1> HIDE DEF key
<1>9. TypeOK'
  <2>1. DOMAIN keys' \subseteq Nat /\ \A k \in DOMAIN keys' : keys'[k] \in ApiKey
    BY <1>3, <1>4, <1>5, <1>6 DEF Inv, TypeOK
  <2> QED BY <1>1, <1>2, <1>3, <1>7, <2>1 DEF Inv, TypeOK, Fits
<1>10. Numbered'
  <2>1. \A k \in DOMAIN keys' : k <= issued'  BY <1>1, <1>3, <1>5, <1>6
  <2> QED BY <1>1, <1>7, <2>1 DEF Inv, Numbered
<1>11. LocksApart'  BY <1>2, IdleType DEF Inv, LocksApart
<1>12. ASSUME NEW s \in Requests PROVE Sound(tx[s])'
  <2>1. CASE s = r
    BY <1>2, <2>1 DEF Sound, NumbersKnown, SpendsLive, SeesAll, SeesNoOther, SeesAllKeys,
                      IssuedInTime, Writing, Deleted, Idle
  <2>2. CASE s # r
    <3>1. tx'[s] = tx[s] /\ Sound(tx[s])  BY <1>2, <2>2 DEF Inv
    <3>2. (NumbersKnown(tx[s]) /\ SpendsLive(tx[s]) /\ SeesAll(tx[s]) /\ SeesNoOther(tx[s])
           /\ IssuedInTime(tx[s]))'
      BY <1>1, <1>7, <3>1 DEF Sound, NumbersKnown, SpendsLive, SeesAll, SeesNoOther, IssuedInTime,
                              Live, Writing, Deleted, Covers
    <3>3. SeesAllKeys(tx[s])'
      <4> SUFFICES ASSUME tx[s].op = "deactivate", tx[s].at \in {"keysweeping", "update", "commit"},
                          NEW k \in DOMAIN keys', keys'[k].user = tx[s].user
                   PROVE  k \in tx[s].keysSeen \/ keys'[k].late
        BY <3>1 DEF SeesAllKeys
      <4>1. CASE k = new
        <5>1. KeySweeping(tx[r].user)  BY <1>4, <1>5, <4>1 DEF KeySweeping
        <5> QED BY <1>4, <1>5, <4>1, <5>1
      <4>2. CASE k \in DOMAIN keys  BY <1>5, <1>6, <3>1, <4>2 DEF Sound, SeesAllKeys
      <4> QED BY <1>5, <4>1, <4>2
    <3> QED BY <3>2, <3>3 DEF Sound
  <2> QED BY <2>1, <2>2
<1>13. FamilyNeverForks'  BY <1>1, <1>7 DEF Inv, FamilyNeverForks, Live
<1>14. RevokedSessionsEnd' /\ EndedFamiliesStayEnded'
  BY <1>1, <1>7 DEF Inv, RevokedStaysRevoked, RevokedSessionsEnd, EndedFamiliesStayEnded
<1>15. KeysGoWithTheAccount'
  BY <1>1, <1>5, <1>6, <1>8 DEF Inv, RevokedStaysRevoked, KeysGoWithTheAccount
<1> QED BY <1>9, <1>10, <1>11, <1>12, <1>13, <1>14, <1>15 DEF Inv, RevokedStaysRevoked

\* Keys may go, and time may pass.
LEMMA OnlyLess ==
    ASSUME Inv, now' \in Nat, DOMAIN keys' \subseteq DOMAIN keys,
           \A k \in DOMAIN keys' : keys'[k] = keys[k],
           UNCHANGED <<users, tokens, minted, issued, tx, ended>>
    PROVE  Inv'
<1>1. Tokens' = Tokens  BY DEF Tokens
<1>2. TypeOK' /\ Numbered'  BY <1>1 DEF Inv, TypeOK, Numbered, Fits
<1>3. LocksApart'  BY DEF Inv, LocksApart, Writing, Holds, Deleted
<1>4. ASSUME NEW s \in Requests PROVE Sound(tx[s])'
  BY <1>1 DEF Inv, Sound, NumbersKnown, SpendsLive, SeesAll, SeesNoOther, SeesAllKeys,
              IssuedInTime, Live, Writing, Covers, Deleted
<1>5. FamilyNeverForks'  BY <1>1 DEF Inv, FamilyNeverForks, Live
<1>6. RevokedStaysRevoked'
  BY <1>1 DEF Inv, RevokedStaysRevoked, RevokedSessionsEnd, EndedFamiliesStayEnded, KeysGoWithTheAccount
<1> QED BY <1>2, <1>3, <1>4, <1>5, <1>6 DEF Inv
-----------------------------------------------------------------------------
(* The theorems. *)

\* The invariant holds at the start.
LEMMA InitInv == Init => Inv
<1> SUFFICES ASSUME Init PROVE Inv  OBVIOUS
<1>1. Tokens = {} /\ DOMAIN keys = {}  BY DEF Init, Tokens
<1>2. \A r \in Requests : tx[r] = Idle  BY DEF Init
<1>3. [out |-> FALSE, first |-> FALSE, feed |-> 0] \in Account  BY DEF Account
<1>4. TypeOK  BY <1>1, <1>2, <1>3, IdleType DEF Init, TypeOK
<1>5. Numbered  BY <1>1 DEF Init, Numbered
<1>6. LocksApart /\ \A r \in Requests : Sound(tx[r])  BY <1>2, IdleType DEF LocksApart
<1>7. FamilyNeverForks /\ RevokedStaysRevoked
  BY <1>1 DEF FamilyNeverForks, RevokedStaysRevoked, RevokedSessionsEnd, EndedFamiliesStayEnded,
              KeysGoWithTheAccount
<1> QED BY <1>4, <1>5, <1>6, <1>7 DEF Inv

\* Every step keeps it.
LEMMA NextInv == Inv /\ [Next]_vars => Inv'
<1> SUFFICES ASSUME Inv, [Next]_vars PROVE Inv'  OBVIOUS
<1>1. ASSUME NEW r \in Requests, Arrive(r) PROVE Inv'
  <2>1. ASSUME NEW u \in Followed, Login(r, u) \/ ChangePassword(r, u) PROVE Inv'
    <3>1. u \in Users  BY AccountsAssumption
    <3> QED BY <2>1, <3>1, LoginKeeps, BeginKeeps DEF ChangePassword, Routes, Rotating, Steps, Revoking
  <2>2. ASSUME NEW t \in Tokens, Refresh(r, t) PROVE Inv'  BY <2>2, RefreshKeeps
  <2>3. ASSUME NEW t \in Tokens, Logout(r, t) PROVE Inv'
    <3>1. /\ tokens[t].user \in Users /\ tokens[t].family \in Nat /\ tokens[t].family <= minted
          /\ tokens[t].family # NULL
      BY AccountsAssumption DEF Inv, TypeOK, Numbered, Token
    <3> QED BY <2>3, <3>1, BeginKeeps DEF Logout, Routes, Steps, Revoking
  <2>4. ASSUME NEW w \in Users, NEW u \in Followed,
               ResetPassword(r, w, u) \/ Deactivate(r, w, u) \/ Reactivate(r, w, u)
               \/ CreateApiKey(r, w, u)
        PROVE  Inv'
    <3>1. u \in Users  BY AccountsAssumption
    <3> QED BY <2>4, <3>1, BeginKeeps, CreateApiKeyKeeps
            DEF ResetPassword, Deactivate, Reactivate, Routes, Rotating, Steps, Revoking
  <2> QED BY <1>1, <2>1, <2>2, <2>3, <2>4 DEF Arrive
<1>2. ASSUME NEW r \in Requests, Step(r) PROVE Inv'
  BY <1>2, LoginMintKeeps, RefreshSpendKeeps, RefreshCheckKeeps, RefreshMintKeeps,
     SweepStartKeeps, SweepEndKeeps, KeySweepStartKeeps, FlushKeeps, CommitKeeps,
     ApiKeyCommitKeeps DEF Step
<1>3. ASSUME NEW r \in Requests, Victim(r) PROVE Inv'
  BY <1>3, EndsIdle DEF Victim
<1>4. now \in Nat /\ now + 1 \in Nat  BY DEF Inv, TypeOK
<1>5. ASSUME NEW w \in Users, NEW k \in DOMAIN keys, RevokeApiKey(w, k) PROVE Inv'
  BY <1>4, <1>5, OnlyLess DEF RevokeApiKey, Without
<1>6. CASE Purge  BY <1>6, PurgeKeeps
<1>7. CASE Tick  BY <1>4, <1>7, OnlyLess DEF Tick
<1>8. CASE UNCHANGED vars  BY <1>4, <1>8, OnlyLess DEF vars
<1> QED BY <1>1, <1>2, <1>3, <1>5, <1>6, <1>7, <1>8 DEF Next

\* The invariant holds throughout, for any number of accounts, requests and tokens.
THEOREM Invariance == Spec => []Inv
BY InitInv, NextInv, PTL DEF Spec

\* refresh's conditional UPDATE leaves one live token per family, however often
\* and at whatever moment its tokens are presented.
THEOREM FamiliesNeverFork == Spec => []FamilyNeverForks
<1>1. Inv => FamilyNeverForks  BY DEF Inv
<1> QED BY <1>1, Invariance, PTL

\* What a logout, a reuse, a password change, a reset or a deactivation revoked
\* stays revoked, except what was being issued while it ran.
THEOREM RevocationsHold == Spec => []RevokedStaysRevoked
<1>1. Inv => RevokedStaysRevoked  BY DEF Inv
<1> QED BY <1>1, Invariance, PTL

\* No step takes an unspent token in its lifetime from the table but the commit
\* of a revocation that is about it: the cleanup, the refresh of an expired token
\* and the revocations of other accounts do not.
THEOREM SessionsLast == Spec => SignedInUntilExpiry
<1> DEFINE Lasts == \A t \in Tokens \ DOMAIN tokens' :
                      Live(t) /\ now <= tokens[t].expires =>
                        \E r \in Requests : tx[r].at = "commit" /\ tx'[r].at = "idle"
                                          /\ Covers(tx[r], tokens[t])
<1>1. Inv /\ [Next]_vars => [Lasts]_vars
  <2> SUFFICES ASSUME Inv, Next, NEW t \in Tokens, t \notin DOMAIN tokens', now <= tokens[t].expires
               PROVE  \E r \in Requests : tx[r].at = "commit" /\ tx'[r].at = "idle"
                                        /\ Covers(tx[r], tokens[t])
    OBVIOUS
  <2>1. now \in Nat /\ tokens[t].expires \in Nat /\ Slack \in Nat
    BY BoundsAssumption DEF Inv, TypeOK, Token
  <2>2. ASSUME NEW r \in Requests, Arrive(r) PROVE FALSE
    <3>1. ASSUME NEW v \in Tokens, Refresh(r, v) PROVE FALSE
      <4>1. CASE tokens' = tokens  BY <4>1 DEF Tokens
      <4>2. CASE tokens[v].expires < now /\ tokens' = Without(tokens, {v})
        BY <2>1, <4>2 DEF Without, Tokens
      <4> QED BY <3>1, <4>1, <4>2 DEF Refresh
    <3>2. tokens' = tokens \/ \E v \in Tokens : Refresh(r, v)
      BY <2>2 DEF Arrive, Login, ChangePassword, Logout, ResetPassword, Deactivate, Reactivate,
                  CreateApiKey, Begin
    <3> QED BY <3>1, <3>2 DEF Tokens
  <2>3. ASSUME NEW r \in Requests, Step(r)
        PROVE  tx[r].at = "commit" /\ tx'[r].at = "idle" /\ Covers(tx[r], tokens[t])
    <3>1. CASE Commit(r)
      <4>1. tx'[r] = Idle  BY <3>1, MarkedIs DEF Commit, Inv
      <4>2. t \in tx[r].seen  BY <3>1 DEF Commit, Insert, Without, Tokens
      <4>3. Covers(tx[r], tokens[t])  BY <4>2 DEF Inv, Sound, SeesNoOther
      <4> QED BY <3>1, <4>1, <4>3 DEF Commit, Idle
    <3>2. CASE LoginMint(r) \/ RefreshMint(r) \/ RefreshCheck(r)
      BY <3>2 DEF LoginMint, RefreshMint, RefreshCheck, Insert, Consumed, Tokens
    <3>3. CASE \/ RefreshSpend(r) \/ SweepStart(r) \/ SweepEnd(r) \/ KeySweepStart(r)
               \/ KeySweepEnd(r) \/ FlushInsert(r) \/ FlushUpdate(r) \/ ApiKeyCommit(r)
      BY <3>3 DEF RefreshSpend, SweepStart, SweepEnd, KeySweepStart, KeySweepEnd, FlushInsert,
                  FlushUpdate, ApiKeyCommit, Tokens
    <3> QED BY <2>3, <3>1, <3>2, <3>3 DEF Step
  <2>4. CASE Purge  BY <2>1, <2>4 DEF Purge, Without, Lapsed, Tokens
  <2>5. tokens' = tokens \/ Purge \/ \E r \in Requests : Arrive(r) \/ Step(r)
    BY DEF Next, Victim, RevokeApiKey, Tick
  <2> QED BY <2>2, <2>3, <2>4, <2>5 DEF Tokens
<1>2. [][Lasts]_vars => SignedInUntilExpiry  BY DEF SignedInUntilExpiry
<1> QED BY <1>1, <1>2, Invariance, PTL DEF Spec

\* A circle of waiting requests has two password changes of one account in it.
\* Nobody waits at the commit, so nobody in a circle waits for a row the flush has
\* written or a key that is deleted, nor then for a deleted token.  What is left to
\* wait for is the share of an account's row that a change's new token holds, and
\* nobody else asks for the row once they have it but another change.
LEMMA CircleNeedsChanges ==
    ASSUME \A r \in Requests : Fits(tx[r]), NEW S \in SUBSET Requests, Circle(S)
    PROVE  \E r, s \in S : /\ r # s /\ tx[r].user = tx[s].user
                           /\ tx[r].op = "change" /\ tx[s].op = "change"
<1>1. \A r \in S : r \in Requests /\ Fits(tx[r]) /\ \E s \in S : s \in Blockers(r)
  BY DEF Circle
<1>2. ASSUME NEW r \in S, NEW s \in S, s \in Blockers(r)
      PROVE  /\ s # r /\ tx[r].at \in {"spend", "sweeping", "keysweeping", "mint", "checked", "key",
                                      "insert", "inserted", "update"}
             /\ \/ tx[r].at = "spend" /\ Holds(tx[s], tx[r].tok)
                \/ tx[r].at = "sweeping" /\ \E t \in tx[r].seen : Holds(tx[s], t)
                \/ tx[r].at = "keysweeping" /\ \E k \in tx[r].keysSeen : HoldsKey(tx[s], k)
                \/ tx[r].at \in {"mint", "checked", "key", "insert"} /\ tx[s].at = "commit"
                \/ tx[r].at \in {"inserted", "update"} /\ tx[s].at = "commit"
                \/ tx[r].at \in {"inserted", "update"} /\ Shares(tx[s], tx[r].user)
  BY <1>1, <1>2 DEF Blockers, Rotates, Writes
<1>3. \A r \in S : tx[r].at \notin {"commit", "spent", "keys", "idle", "sweep"}
  BY <1>1, <1>2
<1>4. \A r \in S : tx[r].at \notin {"mint", "checked", "key", "insert"}
  BY <1>1, <1>2, <1>3
<1>5. CASE \E r \in S : tx[r].at = "inserted"
  <2>1. PICK r \in S : tx[r].at = "inserted"  BY <1>5
  <2>2. PICK s \in S : s \in Blockers(r)  BY <1>1
  <2>3. s # r /\ tx[s].at = "inserted" /\ tx[s].user = tx[r].user
    BY <1>2, <1>3, <2>1, <2>2 DEF Shares
  <2> QED BY <1>1, <2>1, <2>3 DEF Fits
<1>6. CASE \A r \in S : tx[r].at # "inserted"
  <2>1. \A r \in S : tx[r].at # "update"  BY <1>1, <1>2, <1>3, <1>6 DEF Shares
  <2>2. \A r \in S : tx[r].at # "keysweeping"  BY <1>1, <1>2, <1>3, <2>1 DEF HoldsKey
  <2>3. \A r \in S : \A n : ~Holds(tx[r], n)
    BY <1>3, <1>4, <1>6, <2>1, <2>2 DEF Holds, Deleted
  <2>4. ASSUME NEW r \in S PROVE FALSE
    <3>1. PICK s \in S : s \in Blockers(r)  BY <1>1
    <3>2. tx[r].at \in {"spend", "sweeping"}  BY <1>2, <1>4, <1>6, <2>1, <2>2, <3>1
    <3>3. \E n : Holds(tx[s], n)  BY <1>2, <3>1, <3>2
    <3> QED BY <2>3, <3>3
  <2> QED BY <2>4 DEF Circle
<1> QED BY <1>5, <1>6

\* However many requests meet in whatever rows, they wait for each other in a circle
\* only over two password changes of one account.
THEOREM CirclesAreChanges == Spec => []OnlyChangesMeetInACircle
<1>1. Inv => OnlyChangesMeetInACircle
  BY CircleNeedsChanges DEF Inv, TypeOK, OnlyChangesMeetInACircle
<1> QED BY <1>1, Invariance, PTL
=============================================================================
