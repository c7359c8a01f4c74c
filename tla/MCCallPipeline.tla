--------------------------- MODULE MCCallPipeline ---------------------------
(* Instances of CallPipeline for TLC: the arguments of the calls.          *)
EXTENDS CallPipeline

CONSTANTS a1, p1, p2

Ask(op, payload, await, agent) ==
    [op |-> op, from |-> a1, payload |-> payload, await |-> await, agent |-> agent,
     bytecodeOnly |-> FALSE, known |-> TRUE]

\* Every mode: two contracts, with a collector and without, awaited or not, a method that the
\* contract does not have, and a call for the bytecode alone.
AllRequests ==
    { Ask("tx", p1, TRUE, TRUE), Ask("tx", p1, FALSE, TRUE), Ask("tx", p2, TRUE, FALSE),
      Ask("deploy", p1, TRUE, TRUE), Ask("deploy", p2, FALSE, TRUE),
      [Ask("tx", p1, TRUE, TRUE) EXCEPT !.known = FALSE],
      [Ask("tx", p1, TRUE, FALSE) EXCEPT !.bytecodeOnly = TRUE] }

=============================================================================
