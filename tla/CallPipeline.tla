---------------------------- MODULE CallPipeline ----------------------------
(***************************************************************************)
(* Deployer.Call (deployer/deployer_call.go) beside the calls of Tx and    *)
(* Deploy of TxPipeline, on the same deployer, node and collector.         *)
(*                                                                         *)
(* A plain call asks the node for the values.  With coverage the events of *)
(* an eth_call would be lost: Call then sends the method as a transaction, *)
(* by a Tx of its own, and asks for the values when that is confirmed, at  *)
(* the block of its receipt.                                               *)
(*                                                                         *)
(* at[c] is where the Call c stands, and "none" for a Tx or Deploy; what   *)
(* the Tx within does is pc[c] and the rest of TxPipeline's state.         *)
(***************************************************************************)
EXTENDS TxPipeline

VARIABLES
    at,      \* at[c]: the answer or the moment the Call c waits for
    ret,     \* ret[c]: what it returned, values or an error
    read     \* read[c]: transactions of its account in the chain its values are from

callVars == <<at, ret, read>>
allVars == <<vars, callVars>>

Places == {"none", "idle", "backend", "dialing", "chain", "cover", "tx", "receipt",
           "values", "plain", "done"}

Returns == {"none", "values", "calldata", "nothing", "ErrNoSigner", "ErrCall"} \union Errors

IsCall(c) == at[c] # "none"

\* Call makes its Tx with Await, the bytecode being its own business, and with no deadline:
\* context.Background() in place of the context it was given.
CallInit ==
    /\ Init
    /\ at \in [Calls -> {"none", "idle"}]
    /\ \A c \in Calls :
          IsCall(c) => req[c].op = "tx" /\ req[c].await /\ c \notin CallerDeadline
    /\ ret = [c \in Calls |-> "none"]
    /\ read = [c \in Calls |-> 0]

-----------------------------------------------------------------------------
(* The steps of a Call                                                     *)

\* No panic has ended the process.
Alive == \A c \in Calls : pc[c] # "crashed"

To(c, l) == at' = [at EXCEPT ![c] = l] /\ UNCHANGED ret
Answered(c, r) == at' = [at EXCEPT ![c] = "done"] /\ ret' = [ret EXCEPT ![c] = r]

\* getCompiledContract, and all of a Call that only wants the call data; a method that is not
\* there gives neither data nor an error.
CallStart(c) ==
    /\ at[c] = "idle"
    /\ \/ Answered(c, "ErrCompilationFailed")
       \/ /\ req[c].bytecodeOnly
          /\ \E r \in {"ErrLocal", IF req[c].known THEN "calldata" ELSE "nothing"} : Answered(c, r)
       \/ ~req[c].bytecodeOnly /\ To(c, "backend")
    /\ UNCHANGED <<once, loaded, reverts, read>>

CallBackend(c) ==
    /\ at[c] = "backend"
    /\ \/ DialIsDue /\ once' = "dialing" /\ To(c, "dialing")
       \/ once = "up" /\ To(c, "chain") /\ UNCHANGED once
       \/ once = "down" /\ Answered(c, "ErrClientNotAvailable") /\ UNCHANGED once
    /\ UNCHANGED <<loaded, reverts, read>>

CallDialEnds(c) ==
    /\ at[c] = "dialing"
    /\ \/ once' = "up" /\ To(c, "chain")
       \/ once' = "down" /\ Answered(c, "ErrClientNotAvailable")
    /\ UNCHANGED <<loaded, reverts, read>>

\* ChainID, BindContract, and the method: one that is not there returns a nil err.
CallChainID(c) ==
    /\ at[c] = "chain"
    /\ \/ \E e \in {"ErrNoChainID", "ErrLocal"} : Answered(c, e)
       \/ ~req[c].known /\ Answered(c, "nothing")
       \/ req[c].known /\ To(c, IF EnableCoverage THEN "cover" ELSE "plain")
    /\ UNCHANGED <<once, loaded, reverts, read>>

\* GetCoverageEventInfo, LoadContract, AddStatement; with a collector it takes a signer, which
\* the caller may not have given.
CallCover(c) ==
    /\ at[c] = "cover"
    /\ \/ /\ \E e \in {"ErrNoCoverageInContract", "ErrRPC"} : Answered(c, e)
          /\ UNCHANGED loaded
       \/ /\ ~Covered(c) /\ To(c, "plain") /\ UNCHANGED loaded
       \/ /\ Covered(c) /\ Load(c)
          /\ To(c, "tx") \/ Answered(c, "ErrNoSigner")
    /\ UNCHANGED <<once, reverts, read>>

\* CollectCoverageRevert with the error of the Tx, which has trimmed what it collected.
CollectTagged_Dropped(c) == UNCHANGED reverts
CollectTagged(c) ==
    reverts' = IF err[c] = "ErrTagged" /\ req[c].agent /\ req[c].payload \in loaded
               THEN [reverts EXCEPT ![c] = @ + 1] ELSE reverts

Trimmed(e) == IF e = "ErrTagged" THEN "ErrCall" ELSE e

TxFailed_Ignored(c) == FALSE
TxFailed(c) == err[c] # "nil"

\* The Tx has returned: its error is the Call's, or the receipt is waited for once more.
CallTxReturned(c) ==
    /\ at[c] = "tx" /\ pc[c] = "done"
    /\ IF TxFailed(c) THEN Answered(c, Trimmed(err[c])) /\ CollectTagged(c)
                      ELSE To(c, "receipt") /\ UNCHANGED reverts
    /\ UNCHANGED <<once, loaded, read>>

\* awaitTx again: its error is not looked at, and leaves no block number, which is the latest.
\* At the block of the receipt, later transactions of that block count as well.
CallReceipt(c) ==
    /\ at[c] = "receipt"
    /\ \/ /\ Receipt(hash[c]) # "NotFound"
          /\ \E n \in (tx[c].nonce + 1)..count[req[c].from] : read' = [read EXCEPT ![c] = n]
       \/ read' = read
    /\ To(c, "values")
    /\ UNCHANGED <<once, loaded, reverts>>

\* The values, under the deadline set before the Tx, which may have passed since: a covered
\* call may fail with its transaction in the chain.  The error keeps its tag, if it has one.
CallValues(c) ==
    /\ at[c] = "values"
    /\ \/ /\ read' = [read EXCEPT ![c] = IF @ = 0 THEN count[req[c].from] ELSE @]
          /\ Answered(c, "values")
       \/ /\ \E e \in {"ErrCall", "ErrTagged"} : Answered(c, e)
          /\ UNCHANGED read
    /\ UNCHANGED <<once, loaded, reverts>>

\* A plain call, at the latest block.  A tag in its error is collected, for a contract that
\* another call has loaded, and trimmed.
CallPlain(c) ==
    /\ at[c] = "plain"
    /\ \/ /\ read' = [read EXCEPT ![c] = count[req[c].from]]
          /\ Answered(c, "values") /\ UNCHANGED reverts
       \/ /\ \E tagged \in BOOLEAN :
                reverts' = IF tagged /\ req[c].agent /\ req[c].payload \in loaded
                           THEN [reverts EXCEPT ![c] = @ + 1] ELSE reverts
          /\ Answered(c, "ErrCall") /\ UNCHANGED read
    /\ UNCHANGED <<once, loaded>>

\* What Call does by itself; each of its requests has a deadline, CallTimeout or TxTimeout.
Outer(c) ==
    /\ Alive
    /\ \/ CallBackend(c) \/ CallDialEnds(c) \/ CallChainID(c) \/ CallCover(c)
       \/ CallTxReturned(c) \/ CallReceipt(c) \/ CallValues(c) \/ CallPlain(c)
    /\ UNCHANGED <<nodeVars, pc, req, nonce, tx, wire, outcome, events>>

CallBegins(c) ==
    /\ Alive /\ CallStart(c)
    /\ UNCHANGED <<nodeVars, pc, req, nonce, tx, wire, outcome, events>>

\* A Tx or a Deploy, or the Tx within a Call.
Inner(c) == at[c] \in {"none", "tx"} /\ UNCHANGED callVars

CallClient(c) == CallBegins(c) \/ Outer(c) \/ (Inner(c) /\ Client(c))

CallNode == Node /\ UNCHANGED callVars

\* Everyone has returned, or the process is gone.
CallTerminated ==
    /\ Alive => \A c \in Calls : IF IsCall(c) THEN at[c] = "done" ELSE pc[c] = "done"
    /\ UNCHANGED allVars

CallNext == (\E c \in Calls : CallClient(c)) \/ CallNode \/ CallTerminated

CallSpec == CallInit /\ [][CallNext]_allVars

\* As in TxPipeline.
InnerBounded(c) == Inner(c) /\ Bounded(c) /\ UNCHANGED <<nodeVars, req>>

CallFairTo(c) == WF_allVars(Outer(c)) /\ WF_allVars(InnerBounded(c))

CallFairness == \A c \in Calls : CallFairTo(c)

FairCallSpec == CallSpec /\ CallFairness

-----------------------------------------------------------------------------
(* What a Call guarantees                                                  *)

\* Every variable keeps to its domain.
CallTypeOK ==
    /\ TypeOK
    /\ at \in [Calls -> Places]
    /\ ret \in [Calls -> Returns]
    /\ read \in [Calls -> Nat]

\* A covered call that returns values has them from a chain that holds its own transaction,
\* executed, whether or not the second wait found the receipt (deployer_call.go:175-204).
ReadsOwnWrite ==
    \A c \in Calls :
        at[c] = "done" /\ ret[c] = "values" /\ Covered(c)
        => tx[c] \in succeeded /\ read[c] > tx[c].nonce

\* The tag that a Tx leaves in a reason it fetched is counted by the Call around it, once,
\* and kept from the user (deployer_call.go:177-187).
FetchedTagCounted ==
    \A c \in Calls :
        at[c] = "done" /\ err[c] = "ErrTagged"
        => ret[c] # "ErrTagged" /\ (SourcesReadable => reverts[c] = 1)

\* One goroutine dials, be it in a Call, a Tx or a Deploy, and whoever is past Backend has the
\* client that it left.
Dialing == {c \in Calls : pc[c] = "dialing"} \union {c \in Calls : at[c] = "dialing"}
OneDialer ==
    /\ Cardinality(Dialing) <= 1
    /\ \A c \in Calls :
          pc[c] \in Past \/ at[c] \in {"chain", "cover", "tx", "receipt", "values", "plain"}
          => once = "up"

\* Whatever the node does, a call under way waits for nobody but the goroutine that dials:
\* each of its requests has a deadline, but for the search for a reason, which has only the
\* caller's (client.go:46, deployer_tx.go:79, 150, 199 and 208, deployer_call.go:84, 98, 183).
WaitsForDialerOnly ==
    \A c \in Calls :
        /\ /\ at[c] \in {"none", "tx"} /\ pc[c] \notin {"idle", "done", "crashed"}
           /\ pc[c] = "backend" => once # "dialing"
           /\ pc[c] = "reason" => c \in CallerDeadline
           => ENABLED <<InnerBounded(c)>>_allVars
        /\ /\ Alive /\ at[c] \notin {"none", "idle", "done"}
           /\ at[c] = "backend" => once # "dialing"
           /\ at[c] = "tx" => pc[c] = "done"
           => ENABLED <<Outer(c)>>_allVars

\* A Call that has its contract comes back, wherever it stands, or is held up in one of two
\* places that nothing ends: the compiler, if the Tx within needs it again, and the search for
\* the reason of a revert, which no context of the caller reaches.
HeldUp(c) == at[c] = "tx" /\ pc[c] \in {"idle", "reason"}

CallReturns ==
    \A c \in Calls :
        at[c] \notin {"none", "idle", "done"} ~> at[c] = "done" \/ HeldUp(c) \/ ~Alive

=============================================================================
