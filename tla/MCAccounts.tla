----------------------------- MODULE MCAccounts -----------------------------
(* Instances of Accounts for TLC. *)
EXTENDS Accounts, TLC

CONSTANTS r1, r2

Symmetry == Permutations(Requests)
Couple == {{1, 2}}
=============================================================================
