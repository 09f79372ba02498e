----------------------------- MODULE DurableLog -----------------------------
(***************************************************************************)
(* The contract of the pooler's registry file, as its users see it.        *)
(*                                                                         *)
(* Every change of the in-memory registry that is sent to disk is a        *)
(* version.  The file holds one version; the ones stamped after it are     *)
(* pending.  The file only moves forward, possibly skipping versions, and  *)
(* a restart forgets whatever the file had not reached.  Store implements  *)
(* this contract; SchemaLife relies on nothing more.                       *)
(***************************************************************************)
EXTENDS Naturals, Sequences

CONSTANT Version    \* what one version of the registry can be

VARIABLES
    file,           \* the durable version
    pending         \* versions stamped since, oldest first

vars == <<file, pending>>

Init ==
    /\ file \in Version
    /\ pending = <<>>

\* The last element is named through pending', so that Version may be infinite.
Stamp ==
    /\ Len(pending') = Len(pending) + 1
    /\ LET v == pending'[Len(pending) + 1]
       IN  v \in Version /\ pending' = Append(pending, v)
    /\ UNCHANGED file

Persist ==
    \E i \in 1..Len(pending) :
        /\ file' = pending[i]
        /\ pending' = SubSeq(pending, i + 1, Len(pending))

Restart ==
    /\ pending' = <<>>
    /\ UNCHANGED file

Next == Stamp \/ Persist \/ Restart

Spec == Init /\ [][Next]_vars
=============================================================================
