---------------------------- MODULE MCQrApproval ----------------------------
(* QrApproval on a small instance.  A temporal property is checked, so no symmetry. *)
EXTENDS QrApproval
=============================================================================
