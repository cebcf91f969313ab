--------------------------- MODULE MCBootDocument ---------------------------
(* One shell whose session s1 has no document yet; s2 can be opened. *)
EXTENDS BootDocument, TLC

CONSTANTS sh1, s1, s2, c1, c2, m1, m2

MCShells == {sh1}
MCSessions == {s1, s2}
MCOldSessions == {s1}
MCClients == {c1, c2}
MCShellOf == [s \in MCSessions |-> sh1]

Symmetry == Permutations(MCClients) \cup Permutations(Texts)
=============================================================================
