------------------------------ MODULE TxOutcome ------------------------------
(***************************************************************************)
(* What Deployer.Tx and Deployer.Deploy promise, without a word of clients, *)
(* requests, deadlines and pools: a call signs one transaction or none; the *)
(* chain settles what was signed, one transaction for each nonce of an      *)
(* account; and a call reports once, nothing that the chain contradicts.    *)
(* TxPipeline implements this specification.                                *)
(***************************************************************************)

CONSTANTS
    Calls,     \* the calls
    Orders,    \* transactions: records with the sender and the nonce among their fields
    None       \* no transaction

VARIABLES
    order,     \* order[c]: the transaction that call c signed
    good,      \* transactions the chain has executed
    bad,       \* transactions the chain has reverted
    result     \* result[c]: what c reported to its caller

vars == <<order, good, bad, result>>

Init ==
    /\ order = [c \in Calls |-> None]
    /\ good = {}
    /\ bad = {}
    /\ result = [c \in Calls |-> "none"]

\* The signed transaction may reach the node from here on, whatever the call learns of it.
Sign(c) ==
    /\ result[c] = "none" /\ order[c] = None
    /\ order'[c] \in Orders
    /\ order' = [order EXCEPT ![c] = order'[c]]
    /\ UNCHANGED <<good, bad, result>>

Taken(t) == \E u \in good \union bad : u.from = t.from /\ u.nonce = t.nonce

Settle(c) ==
    /\ order[c] # None /\ ~Taken(order[c])
    /\ \/ good' = good \union {order[c]} /\ UNCHANGED bad
       \/ bad' = bad \union {order[c]} /\ UNCHANGED good
    /\ UNCHANGED <<order, result>>

\* A call that has signed never claims that nothing was sent; one that has no answer from
\* the chain says that it does not know, or that it did not ask.
May(c, r) ==
    CASE r = "unsent" -> order[c] = None
      [] r \in {"sent", "unknown"} -> order[c] # None
      [] r = "confirmed" -> order[c] \in good
      [] r = "reverted" -> order[c] \in bad

Report(c) ==
    /\ result[c] = "none"
    /\ \E r \in {"unsent", "sent", "unknown", "confirmed", "reverted"} :
          May(c, r) /\ result' = [result EXCEPT ![c] = r]
    /\ UNCHANGED <<order, good, bad>>

Next == \E c \in Calls : Sign(c) \/ Settle(c) \/ Report(c)

Spec == Init /\ [][Next]_vars

=============================================================================
