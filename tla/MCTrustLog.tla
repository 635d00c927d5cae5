----------------------------- MODULE MCTrustLog -----------------------------
(* Model of TrustLog for TLC: the constants are given in the .cfg files. *)
EXTENDS TrustLog
=============================================================================
