-------------------------------- MODULE Sums --------------------------------
(***************************************************************************)
(* Sums of integer functions over 1..n.  The insurance ledger's invariant  *)
(* is stated with SumTo; the sum is a recursive function, not a RECURSIVE  *)
(* operator, so that InsuranceProofs can prove how it changes when one     *)
(* entry changes.                                                          *)
(***************************************************************************)
EXTENDS Integers

\* Prefix sums of f: PrefixSum(f, n)[i] = f[1] + ... + f[i].
PrefixSum(f, n) ==
    LET ps[i \in 0..n] == IF i = 0 THEN 0 ELSE ps[i - 1] + f[i] IN ps

\* f[1] + ... + f[n].
SumTo(f, n) == PrefixSum(f, n)[n]
=============================================================================
