---------------------------- MODULE MCDirectory ----------------------------
(***************************************************************************)
(* Instances of Directory for TLC: an organization admin, two people of    *)
(* whom one manages the other, and room for one more; one issuer, whose    *)
(* notes name a stranger, twice, and carry a free or a taken address.      *)
(***************************************************************************)
EXTENDS Directory, TLC

CONSTANTS root, ann, bob, new, new2, lab, iss, kid, grp

Person(role, email, mgr, unit) ==
    [role |-> role, email |-> email, mgr |-> mgr, unit |-> unit, out |-> FALSE, by |-> NULL]

MCFirst ==
    (root :> Person("ORG_ADMIN", "e1", NULL, NULL)) @@ (ann :> Person("UNIT_ADMIN", "e2", bob, lab))
    @@ (bob :> Person("STAFF", "e3", root, lab))

Vouch(sub, email, groups) ==
    [iss |-> iss, kid |-> kid, sub |-> sub, email |-> email, groups |-> groups, exp |-> 1,
     verifies |-> TRUE]

MCNotes == {Vouch("s", "e4", {grp}), Vouch("s", "e4", {})}

MCCreates ==
    {[id |-> new, email |-> "e4", role |-> "STAFF", unit |-> lab, mgr |-> bob],
     [id |-> new2, email |-> "e4", role |-> "ORG_ADMIN", unit |-> NULL, mgr |-> NULL]}

Same == [email |-> "unset", mgr |-> "unset", unit |-> "unset"]

MCUpdates ==
    {[id |-> bob] @@ [Same EXCEPT !.email = "e4"], [id |-> root] @@ [Same EXCEPT !.mgr = ann],
     [id |-> bob] @@ [Same EXCEPT !.mgr = NULL, !.unit = NULL]}

MCAsserts ==
    {[id |-> new, role |-> "STAFF", email |-> "e4", unit |-> "unset"],
     [id |-> bob, role |-> "UNIT_ADMIN", email |-> "e4", unit |-> lab]}

Alike == Permutations(Requests)
=============================================================================
