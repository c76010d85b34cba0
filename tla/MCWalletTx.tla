----------------------------- MODULE MCWalletTx -----------------------------
(* The wallet's transactions on a small instance. *)
EXTENDS WalletTx, TLC

Symmetry == Permutations(Calls)
=============================================================================
