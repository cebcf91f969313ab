------------------------------ MODULE MCVault ------------------------------
(* A small instance of Vault: two secrets, one account, one command line. *)
EXTENDS Vault, TLC

CONSTANTS n1, n2, a1, p1

MCSymmetry == Permutations(Names)
=============================================================================
