----------------------------- MODULE MCSockets ------------------------------
(***************************************************************************)
(* Two parts for TLC that share no state: the sockets of two instances     *)
(* (Sockets) and the keys of retried requests (Idempotency).  A behaviour  *)
(* looks at one of them and leaves the other where it began.               *)
(***************************************************************************)
EXTENDS Sockets, Idempotency

CONSTANTS i1, i2, p1, c1, c2, t1, k1, h1, h2, r1, r2

VARIABLE side

allVars == <<side, vars, keyVars>>

BothInit == Init /\ KeyInit /\ side \in {"sockets", "keys"}

OnSockets == side = "sockets" /\ UNCHANGED <<side, keyVars>>
OnKeys == side = "keys" /\ UNCHANGED <<side, vars>>

BothNext == (OnSockets /\ Next) \/ (OnKeys /\ KeyNext)

BothSpec == BothInit /\ [][BothNext]_allVars
=============================================================================
