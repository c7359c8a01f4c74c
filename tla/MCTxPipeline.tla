---------------------------- MODULE MCTxPipeline ----------------------------
(* Instances of TxPipeline for TLC: arguments of the calls, and symmetry.  *)
EXTENDS TxPipeline, TLC

CONSTANTS a1, p1, p2

Ask(op, payload, await, agent) ==
    [op |-> op, from |-> a1, payload |-> payload, await |-> await, agent |-> agent,
     bytecodeOnly |-> FALSE, known |-> TRUE]

\* Three calls that compete for one account.
RacingRequests ==
    { Ask("tx", p1, TRUE, FALSE), Ask("deploy", p2, TRUE, FALSE) }

CallSymmetry == Permutations(Calls)

=============================================================================
