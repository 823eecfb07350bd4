----------------------------- MODULE MCAccounts -----------------------------
(* Instances of Accounts for TLC. *)
EXTENDS Accounts, TLC

CONSTANTS u1, u2, b1, b2, c1

Symmetric == Permutations(Browsers)
=============================================================================
