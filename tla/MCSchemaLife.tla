---------------------------- MODULE MCSchemaLife ----------------------------
(***************************************************************************)
(* SchemaLife on two clients, with a choice of what goes wrong.            *)
(***************************************************************************)
EXTENDS SchemaLife, TLC

CONSTANTS c1, c2

Pair == {c1, c2}
Single == {c1}
Interchangeable == Permutations(Pair)

\* Budgets of faults; the ones not named never happen.
None == [f \in Fault |-> 0]
Both == [None EXCEPT !.overlap = 1]
OffloadFaults == [Both EXCEPT !.jobBoot = 1, !.dump = 1, !.undump = 1, !.rm = 1]
AnyFault == [None EXCEPT !.boot = 1, !.dump = 1, !.kill = 1, !.reap = 1]

\* Two clients at once against offload jobs, or one after the other with any fault.
SafeBudgets == {OffloadFaults, AnyFault}
Crashes == {[None EXCEPT !.head = 1, !.reattach = 1, !.write = 1, !.crash = 1]}
LiveFaults == {[Both EXCEPT !.boot = 1, !.reap = 1, !.dump = 1]}
NoFaults == {Both}
Reaps == {[Both EXCEPT !.reap = 1]}
ReattachFails == {[Both EXCEPT !.reattach = 1, !.reap = 1]}
=============================================================================
