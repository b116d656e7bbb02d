---------------------------- MODULE MCInsurance ----------------------------
(* Insurance on small instances for TLC. *)
EXTENDS Insurance, TLC

ReqSymmetry == Permutations(Reqs)
=============================================================================
