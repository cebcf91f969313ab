------------------------------ MODULE MCSignIn ------------------------------
(* A small instance of SignIn: one email, two logins at a time. *)
EXTENDS SignIn, TLC

CONSTANTS e1, c1, c2

MCSymmetry == Permutations(Clients)
=============================================================================
