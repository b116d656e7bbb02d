----------------------------- MODULE MCAccounts -----------------------------
(* Accounts for TLC.  Users and contracts have no rows in common, so TLC     *)
(* looks at the requests for one of them at a time.                          *)
EXTENDS Accounts, TLC

CONSTANTS w1, c1, c2, r1, r2, r3

NoContracts == created = {} /\ admin = 0
NoUsers ==
    /\ \A w \in Wallet : user[w] = NoRow /\ setting[w] = NoRow
    /\ \A r \in Request : req[r].key \notin Wallet
OneTable == NoContracts \/ NoUsers

Symmetry == Permutations(Request)
=============================================================================
