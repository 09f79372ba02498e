----------------------------- MODULE MCOffload -----------------------------
(***************************************************************************)
(* Offload on two schemas with each of some configurations of tiers.               *)
(***************************************************************************)
EXTENDS Offload, TLC

CONSTANTS s1, s2

One == {s1}
Two == {s1, s2}

\* Compaction and S3, S3 with images under pressure, freezing alone.
Compacting == [compact |-> 1, freeze |-> Off, archive |-> 1, image |-> FALSE]
Imaging == [compact |-> Off, freeze |-> Off, archive |-> 1, image |-> TRUE]
Freezing == [compact |-> Off, freeze |-> 1, archive |-> Off, image |-> FALSE]
AllTiers == {Compacting, Imaging, Freezing}
NoCompaction == {Imaging, Freezing}

\* Compaction without S3, and a dump that is archived after a second rest.
Shelving == [compact |-> 1, freeze |-> Off, archive |-> Off, image |-> FALSE]
Staging == [compact |-> Off, freeze |-> 1, archive |-> 2, image |-> FALSE]
Gradual == {Shelving, Staging}
Mixed == {Shelving, Staging, Imaging}
Interchangeable == Permutations(Two)
=============================================================================
