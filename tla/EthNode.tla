------------------------------ MODULE EthNode ------------------------------
(***************************************************************************)
(* The Ethereum node behind the JSON-RPC endpoint, as far as etherman can  *)
(* tell: an account nonce, a pool of accepted transactions and the         *)
(* receipts.  None of it is code of this repository: it is modelled from   *)
(* the calls that deployer/util.go and deployer/client.go make and from    *)
(* the answers they distinguish.                                           *)
(*                                                                         *)
(* A transaction is the record of the fields that make it unique.  Its     *)
(* hash is the record itself: signing is deterministic, so two calls that  *)
(* sign equal fields send the same transaction.                            *)
(***************************************************************************)
EXTENDS Naturals

CONSTANTS
    Accounts,    \* sender addresses
    Payloads,    \* call data (or creation code) with the destination
    Prices,      \* gas prices, ordered as numbers: a higher one may replace a lower one
    MaxForeign   \* bound: transactions sent for an account by other programs

ASSUME NodeAssumption ==
    /\ Prices \subseteq Nat
    /\ MaxForeign \in Nat

Tx == [from: Accounts, nonce: Nat, payload: Payloads, price: Prices]

VARIABLES
    count,       \* count[a]: transactions of a in the chain, eth_getTransactionCount "latest"
    pool,        \* transactions accepted and not yet in a block
    succeeded,   \* transactions with a receipt of status 1
    reverted,    \* transactions with a receipt of status 0
    foreign      \* transactions of other programs so far

nodeVars == <<count, pool, succeeded, reverted, foreign>>

NodeTypeOK ==
    /\ count \in [Accounts -> Nat]
    /\ pool \in SUBSET Tx
    /\ succeeded \in SUBSET Tx
    /\ reverted \in SUBSET Tx
    /\ foreign \in 0..MaxForeign

NodeInit ==
    /\ count = [a \in Accounts |-> 0]
    /\ pool = {}
    /\ succeeded = {}
    /\ reverted = {}
    /\ foreign = 0

Mined == succeeded \union reverted

SameSlot(t) == {u \in pool : u.from = t.from /\ u.nonce = t.nonce}

(***************************************************************************)
(* eth_sendRawTransaction accepts a transaction whose nonce is not used    *)
(* yet and that outbids whatever waits in the pool under the same nonce;   *)
(* an equal transaction is "already known".                                *)
(***************************************************************************)
Acceptable(t) ==
    /\ t.nonce >= count[t.from]
    /\ \A u \in SameSlot(t) : u.price < t.price

Accept(t) ==
    /\ Acceptable(t)
    /\ pool' = (pool \ SameSlot(t)) \union {t}
    /\ UNCHANGED <<count, succeeded, reverted, foreign>>

\* The transaction t enters the chain, from the pool or as it arrives.
Include(t, status) ==
    /\ t.nonce = count[t.from]
    /\ count' = [count EXCEPT ![t.from] = @ + 1]
    /\ pool' = pool \ SameSlot(t)
    /\ succeeded' = IF status = 1 THEN succeeded \union {t} ELSE succeeded
    /\ reverted' = IF status = 0 THEN reverted \union {t} ELSE reverted
    /\ UNCHANGED foreign

Mine(t, status) == t \in pool /\ Include(t, status)

\* The node forgets a pooled transaction (eviction, restart).
Evict(t) ==
    /\ t \in pool
    /\ pool' = pool \ {t}
    /\ UNCHANGED <<count, succeeded, reverted, foreign>>

\* Another program uses the account.
ForeignTx(a) ==
    /\ foreign < MaxForeign
    /\ foreign' = foreign + 1
    /\ count' = [count EXCEPT ![a] = @ + 1]
    /\ UNCHANGED <<pool, succeeded, reverted>>

=============================================================================
