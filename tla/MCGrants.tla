------------------------------ MODULE MCGrants ------------------------------
(* Grants on a small instance. *)
EXTENDS Grants, TLC

Interchangeable ==
  Permutations(Identities) \cup Permutations(Objects) \cup Permutations(Calls)
    \cup Permutations(GrantIds)
=============================================================================
