----------------------------- MODULE MCReclaim -----------------------------
(***************************************************************************)
(* Reclaim on two boots, one disk or two, and two passes.                  *)
(***************************************************************************)
EXTENDS Reclaim, TLC

CONSTANTS b1, b2, d1, d2

Boots == {b1, b2}
Disks == {d1, d2}
OneDisk == {d1}
Interchangeable == Permutations(Boots) \cup Permutations(Disks)
============================================================================
