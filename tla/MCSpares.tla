------------------------------ MODULE MCSpares ------------------------------
(***************************************************************************)
(* Spares on two schemas and two sandboxes.                                *)
(***************************************************************************)
EXTENDS Spares, TLC

CONSTANTS s1, s2, i1, i2

Schemas == {s1, s2}
Ids == {i1, i2}
Interchangeable == Permutations(Schemas) \cup Permutations(Ids)
=============================================================================
