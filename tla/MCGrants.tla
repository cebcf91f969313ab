------------------------------ MODULE MCGrants ------------------------------
(* A small instance of Grants: the two seeded shells and a new one, a shipped *)
(* skill for each tool but the general one, and a skill of an admin.          *)
EXTENDS Grants

CONSTANTS forge, prime, new, createShell, createFlag, own, flagCreate, apiGet

MCRequires == [k \in Shipped |-> IF k = createFlag THEN {flagCreate} ELSE {}]
=============================================================================
