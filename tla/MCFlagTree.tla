----------------------------- MODULE MCFlagTree -----------------------------
(* A small instance of FlagTree: three flags, two requests at a time. *)
EXTENDS FlagTree, TLC

CONSTANTS f1, f2, f3, c1, c2

Symmetry == Permutations({f1, f2, f3}) \cup Permutations({c1, c2})
=============================================================================
