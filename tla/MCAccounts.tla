----------------------------- MODULE MCAccounts -----------------------------
(* A small instance of Accounts: the first user and one more. *)
EXTENDS Accounts, TLC

CONSTANTS a1, u1, u2, c1, c2

MCSymmetry == Permutations(Clients)
=============================================================================
