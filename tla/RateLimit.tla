------------------------------ MODULE RateLimit ------------------------------
(***************************************************************************)
(* core/rate_limit.py: one budget of one caller, in Redis.  guard reads    *)
(* the count, the request does its work, spend counts it: three round      *)
(* trips, the last of which sets the expiry only where the key has none.   *)
(* A process may die, or Redis go away, between any two.                   *)
(*                                                                         *)
(* Time is what is left of the key's expiry.                               *)
(***************************************************************************)
EXTENDS Integers, FiniteSets

CONSTANTS
    Callers,     \* requests of the caller that are in flight at once
    Limit,       \* the budget; 0 would switch it off
    Window,      \* the seconds after which the budget refills
    MaxLost,     \* bound: how many expiries are lost
    MaxSlips,    \* bound: how many guards cannot reach Redis
    NoExpiry     \* TTL of a key that has none

ASSUME BudgetAssumption ==
    /\ Limit \in Nat \ {0} /\ Window \in Nat \ {0} /\ {MaxLost, MaxSlips} \subseteq Nat
    /\ NoExpiry \notin Nat /\ IsFiniteSet(Callers)

VARIABLES
    count,    \* the counter; 0 where the key is not there
    ttl,      \* its expiry
    calls,    \* how far each request has come
    lost,     \* how many expiries were never set
    slipped   \* how many requests passed because Redis was away

budget == <<count, ttl, calls, lost, slipped>>

BudgetInit ==
    /\ count = 0 /\ ttl = NoExpiry
    /\ calls = [c \in Callers |-> "idle"]
    /\ lost = 0 /\ slipped = 0
-----------------------------------------------------------------------------
\* Mutant: the budget is one request too wide.
WithinThrough == count <= Limit

\* guard lets the request go on.
Within == count < Limit

\* A request that is refused changes nothing.
Guard(c) ==
    /\ calls[c] = "idle" /\ Within
    /\ calls' = [calls EXCEPT ![c] = "guarded"]
    /\ UNCHANGED <<count, ttl, lost, slipped>>

\* guard fails open.
GuardUnreachable(c) ==
    /\ calls[c] = "idle" /\ slipped < MaxSlips
    /\ calls' = [calls EXCEPT ![c] = "guarded"]
    /\ slipped' = slipped + 1
    /\ UNCHANGED <<count, ttl, lost>>

\* The request is not charged: a right password, Redis away, or a process that dies.
NotCounted(c) ==
    /\ calls[c] = "guarded"
    /\ calls' = [calls EXCEPT ![c] = "idle"]
    /\ UNCHANGED <<count, ttl, lost, slipped>>

\* Mutant: the first request of a window sets the expiry, and no other.
WantsExpiryFirst == count = 0

\* spend finds no expiry, on a new key or on one that lost it.
WantsExpiry == ttl = NoExpiry

\* spend: INCR and TTL in one round trip.
Spend(c) ==
    /\ calls[c] = "guarded"
    /\ count' = count + 1
    /\ calls' = [calls EXCEPT ![c] = IF WantsExpiry THEN "expiring" ELSE "idle"]
    /\ UNCHANGED <<ttl, lost, slipped>>

\* spend: EXPIRE, which does nothing to a key that has gone.
Expire(c) ==
    /\ calls[c] = "expiring"
    /\ ttl' = IF count = 0 THEN NoExpiry ELSE Window
    /\ calls' = [calls EXCEPT ![c] = "idle"]
    /\ UNCHANGED <<count, lost, slipped>>

\* It dies here, or Redis does not hear it.
Lose(c) ==
    /\ calls[c] = "expiring" /\ lost < MaxLost
    /\ calls' = [calls EXCEPT ![c] = "idle"]
    /\ lost' = lost + 1
    /\ UNCHANGED <<count, ttl, slipped>>

\* A second passes on the key.
Lapse ==
    /\ ttl # NoExpiry
    /\ ttl' = IF ttl = 1 THEN NoExpiry ELSE ttl - 1
    /\ count' = IF ttl = 1 THEN 0 ELSE count
    /\ UNCHANGED <<calls, lost, slipped>>

BudgetNext ==
    \/ \E c \in Callers : \/ Guard(c) \/ GuardUnreachable(c) \/ NotCounted(c)
                          \/ Spend(c) \/ Expire(c) \/ Lose(c)
    \/ Lapse

BudgetSpec == BudgetInit /\ [][BudgetNext]_budget
-----------------------------------------------------------------------------
\* "The overshoot is bounded by how many requests one caller can have in
\* flight at once": guards that all read the same count let no more through
\* than there are, and nothing else does but Redis being away.
OvershootBounded == count <= Limit - 1 + Cardinality(Callers) + slipped

\* A spent budget refills, although fewer than Limit expiries may be lost
\* between the two halves of spend: the next spend of a budget not yet used up
\* sets what an earlier one did not.
BudgetRefills == count >= Limit ~> count < Limit
=============================================================================
