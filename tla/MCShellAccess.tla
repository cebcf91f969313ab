--------------------------- MODULE MCShellAccess ---------------------------
(* A small instance of ShellAccess: the shared shell and a created one. *)
EXTENDS ShellAccess, TLC

CONSTANTS u1, u2, forge, new, c1, c2, p1

MCSymmetry == Permutations(Clients)
=============================================================================
