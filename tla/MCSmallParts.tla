----------------------------- MODULE MCSmallParts -----------------------------
(***************************************************************************)
(* Two parts for TLC that share no state: a caller's budget (RateLimit)    *)
(* and the visits at the door (GuestVisits).  A behaviour looks at one of  *)
(* them and leaves the other where it began.                               *)
(***************************************************************************)
EXTENDS RateLimit, GuestVisits

CONSTANTS v1, c1, c2, d1, d2, p1, p2

VARIABLE side

vars == <<side, budget, door>>

Init == BudgetInit /\ VisitInit /\ side \in {"budget", "visits"}

OnBudget == side = "budget" /\ UNCHANGED <<side, door>>
OnVisits == side = "visits" /\ UNCHANGED <<side, budget>>

Next == (OnBudget /\ BudgetNext) \/ (OnVisits /\ VisitNext)

\* Redis counts a key's seconds down, a process that lives sends its EXPIRE,
\* and the scheduler starts a pass every five minutes and goes through with it.
Fairness ==
    /\ WF_vars(OnBudget /\ Lapse)
    /\ \A c \in Callers : WF_vars(OnBudget /\ (Expire(c) \/ Lose(c)))
    /\ \A p \in Replicas : WF_vars(OnVisits /\ Announce(p))

Spec == Init /\ [][Next]_vars /\ Fairness
=============================================================================
