------------------------------ MODULE MCFleet ------------------------------
(***************************************************************************)
(* Fleet on two sandboxes.                                                 *)
(***************************************************************************)
EXTENDS Fleet

CONSTANTS i1, i2

Ids == {i1, i2}
=============================================================================
