---------------------------- MODULE MCDedicated -----------------------------
(***************************************************************************)
(* Dedicated with two requests at once: three requests with a fault and a  *)
(* restart, or two beside a connection.                                    *)
(***************************************************************************)
EXTENDS Dedicated

CONSTANTS h1, h2

Handlers == {h1, h2}
Scenarios == {[ops |-> 3, conns |-> 0, faults |-> 1, crashes |-> 1],
              [ops |-> 2, conns |-> 1, faults |-> 0, crashes |-> 0]}
=============================================================================
