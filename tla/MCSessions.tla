----------------------------- MODULE MCSessions -----------------------------
(***************************************************************************)
(* Instances of Sessions for TLC: an administrator of the organization,    *)
(* and a member of a unit.  The requests may change places.                *)
(***************************************************************************)
EXTENDS Sessions, TLC

CONSTANTS root, ann, lab

MCRole == (root :> "ORG_ADMIN") @@ (ann :> "MEMBER")
MCUnit == (root :> NULL) @@ (ann :> lab)

Symmetry == Permutations(Requests)
=============================================================================
