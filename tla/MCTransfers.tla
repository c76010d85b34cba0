---------------------------- MODULE MCTransfers ----------------------------
(* Transfers on small instances. *)
EXTENDS Transfers, TLC

Interchangeable == Permutations(Tasks) \cup Permutations(Offers)
=============================================================================
