---------------------------- MODULE MCWebhooks -----------------------------
(***************************************************************************)
(* Instances of Webhooks for TLC.  Workers and rows are interchangeable.   *)
(***************************************************************************)
EXTENDS Webhooks, TLC

Alike == Permutations(Workers) \cup Permutations(Rows)
=============================================================================
