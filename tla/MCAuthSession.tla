--------------------------- MODULE MCAuthSession ---------------------------
(* AuthSession for TLC; logins and nonces are interchangeable.              *)
EXTENDS AuthSession, TLC

Symmetry == Permutations(Reqs) \cup Permutations(Nonces)
=============================================================================
