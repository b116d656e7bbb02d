--------------------------- MODULE MCIdempotency ---------------------------
(* Idempotency for TLC; requests are interchangeable.                       *)
EXTENDS Idempotency, TLC

ReqSymmetry == Permutations(Reqs)
=============================================================================
