------------------------------ MODULE MCParts ------------------------------
(***************************************************************************)
(* Components on small sets.                                               *)
(***************************************************************************)
EXTENDS Components, TLC

CONSTANTS t1, t2, t3, a1, a2, v1, v2, h1, h2

Threads == {t1, t2, t3}
Schemas == {a1, a2}
Sandboxes == {v1, v2}

Routes == {"freeze", "archive", "direct"}

\* Two requests at once, and two databases of which each may be the other's role: three
\* requests with a fault and a restart, or two beside a connection.
Names == 1..3
Identifiers == 1..2
Passes == {11, 12}
UnsetOrOne == {0, 10}
Handlers == {h1, h2}
Scenarios == {[ops |-> 3, conns |-> 0, faults |-> 1, crashes |-> 1],
              [ops |-> 2, conns |-> 1, faults |-> 0, crashes |-> 1]}

\* One rule, as two edits leave it.
One == {1}

Interchangeable == Permutations(Handlers)
=============================================================================
