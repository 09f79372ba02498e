------------------------------ MODULE MCStore ------------------------------
(***************************************************************************)
(* Store on two schemas and two VM ids.                                    *)
(***************************************************************************)
EXTENDS Store, TLC

CONSTANTS a, b, v1, v2

Schemas == {a, b}
Sandboxes == {v1, v2}
Interchangeable == Permutations(Schemas) \cup Permutations(Sandboxes)
=============================================================================
