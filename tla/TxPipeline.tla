----------------------------- MODULE TxPipeline -----------------------------
(***************************************************************************)
(* The transaction pipeline of etherman: Deployer.Tx and Deployer.Deploy   *)
(* (deployer/deployer_tx.go, deployer/deployer_deploy.go) with the helpers *)
(* they run on (deployer/util.go, deployer/client.go), any number of calls *)
(* on one deployer at the same time, against the node of EthNode.          *)
(*                                                                         *)
(* A step is the code between two RPCs: it takes the answer of the one and *)
(* runs up to the request of the next.  Every RPC but one runs under a     *)
(* deadline and may fail at any moment, its deadline included; the one     *)
(* without is the eth_call that looks for a revert reason.                 *)
(***************************************************************************)
EXTENDS EthNode, FiniteSets

CONSTANTS
    Calls,             \* the calls of Tx and Deploy under way on one deployer
    Requests,          \* the arguments a call may be made with
    EnableCoverage,    \* option EnableCoverage
    SourcesReadable,   \* the coverage collector can read the contracts' sources
    CallerDeadline,    \* the calls whose caller gave a context with a deadline
    NoTx               \* the zero hash, noHash

Request == [op: {"tx", "deploy"}, from: Accounts, payload: Payloads,
            await: BOOLEAN, agent: BOOLEAN, bytecodeOnly: BOOLEAN,
            known: BOOLEAN]   \* the contract has the method

ASSUME PipelineAssumption ==
    /\ Requests \subseteq Request
    /\ EnableCoverage \in BOOLEAN
    /\ SourcesReadable \in BOOLEAN
    /\ CallerDeadline \subseteq Calls
    /\ NoTx \notin Tx

VARIABLES
    once,      \* the deployer's client: initClientOnce and what it left behind
    loaded,    \* contracts whose sources the coverage collector has loaded
    pc,        \* pc[c]: the answer or the moment call c waits for
    req,       \* req[c]: the arguments of the call
    nonce,     \* nonce[c]: the nonce read for it
    tx,        \* tx[c]: the transaction it signed
    wire,      \* wire[c]: its eth_sendRawTransaction, seen from the node
    hash,      \* hash[c]: the named result txHash
    err,       \* err[c]: the named result err
    events,    \* events[c]: coverage events it gave to the collector
    reverts    \* reverts[c]: coverage reverts it gave to the collector

outcome == <<hash, err>>
coverage == <<loaded, events, reverts>>
vars == <<nodeVars, once, loaded, pc, req, nonce, tx, wire, hash, err, events, reverts>>

Locations == {"idle", "backend", "dialing", "chain", "nonce", "cover", "prepare",
              "send", "await", "reason", "collect", "done", "crashed"}

Errors == {"nil", "ErrCompilationFailed", "ErrClientNotAvailable", "ErrNoChainID",
           "ErrNoNonce", "ErrLocal", "ErrSend", "ErrAwaitTimeout", "ErrRPC",
           "ErrTransactionReverted", "ErrNoRevertReason", "ErrTagged",
           "ErrNoCoverageInContract", "ErrTxNotFound"}

Init ==
    /\ NodeInit
    /\ once = "idle"
    /\ loaded = {}
    /\ pc = [c \in Calls |-> "idle"]
    /\ req \in [Calls -> Requests]
    /\ nonce = [c \in Calls |-> 0]
    /\ tx = [c \in Calls |-> NoTx]
    /\ wire = [c \in Calls |-> "none"]
    /\ hash = [c \in Calls |-> NoTx]
    /\ err = [c \in Calls |-> "nil"]
    /\ events = [c \in Calls |-> 0]
    /\ reverts = [c \in Calls |-> 0]

-----------------------------------------------------------------------------
(* What the steps are made of                                              *)

Move(c, l, h, e) ==
    /\ pc' = [pc EXCEPT ![c] = l]
    /\ hash' = [hash EXCEPT ![c] = h]
    /\ err' = [err EXCEPT ![c] = e]

Goto(c, l) == Move(c, l, hash[c], err[c])
Return(c, h, e) == Move(c, "done", h, e)

Covered(c) == EnableCoverage /\ req[c].agent
MethodMissing(c) == req[c].op = "tx" /\ ~req[c].known

\* Whether the call waits for the receipt of its transaction.
MustAwait_OnlyWhenAsked(c) == req[c].await
MustAwait(c) == req[c].await \/ Covered(c)

\* Where a call goes once its transaction is sent and, if it must be, confirmed.
AfterConfirmation(c) ==
    IF ~Covered(c) THEN "done"
    ELSE IF req[c].op = "deploy" THEN "cover" ELSE "collect"

\* The sender's nonce, as eth_getTransactionCount "latest" answers.
NextNonce_Pending(a) == count[a] + Cardinality({t \in pool : t.from = a})
NextNonce_OffByOne(a) == count[a] - 1
NextNonce_NeverMoves(a) == 0
NextNonce(a) == count[a]

\* The hash a failed send leaves in txHash: the transaction may be on its way all the same.
HashOfFailedSend_Dropped(c) == NoTx
HashOfFailedSend(c) == tx[c]

\* crypto.CreateAddress(opts.From, tx.Nonce()): where a deployment puts its code.
Address_AfterNonce(c) == <<tx[c].from, tx[c].nonce + 1>>
Address(c) == <<tx[c].from, tx[c].nonce>>

\* What awaitTx makes of eth_getTransactionReceipt.
Receipt_StatusIgnored(t) == IF t \in Mined THEN "success" ELSE "NotFound"
Receipt_OfTheNonce(t) ==
    IF count[t.from] > t.nonce THEN "success" ELSE "NotFound"
Receipt(t) ==
    IF t \in succeeded THEN "success"
    ELSE IF t \in reverted THEN "reverted" ELSE "NotFound"

\* initClientOnce lets one caller in, once.
DialIsDue_NoOnce == once # "up"
DialIsDue == once = "idle"

\* LoadContract of the collector; a contract built without coverage is refused.
Load(c) ==
    \E readable \in (IF SourcesReadable THEN {TRUE} ELSE BOOLEAN) :
        loaded' = IF Covered(c) /\ readable
                  THEN loaded \union {req[c].payload} ELSE loaded

\* CollectCoverageRevert, with the contracts known to the collector by then.
CollectRevert_Always(c, known) == reverts' = [reverts EXCEPT ![c] = @ + 1]
CollectRevert(c, known) ==
    reverts' = IF wire[c] = "tagged" /\ req[c].agent /\ req[c].payload \in known
               THEN [reverts EXCEPT ![c] = @ + 1] ELSE reverts

-----------------------------------------------------------------------------
(* The steps of a call                                                     *)

\* getCompiledContract, and all of a call that only wants the bytecode.
Start(c) ==
    /\ pc[c] = "idle"
    /\ \/ Return(c, NoTx, "ErrCompilationFailed")
       \/ /\ req[c].bytecodeOnly
          /\ \E e \in {"nil", "ErrLocal"} : Return(c, NoTx, e)
       \/ ~req[c].bytecodeOnly /\ Goto(c, "backend")
    /\ UNCHANGED <<once, coverage, nonce, tx, wire>>

\* Backend: the first caller dials, those that come meanwhile wait in Once.Do.
Backend(c) ==
    /\ pc[c] = "backend"
    /\ \/ DialIsDue /\ once' = "dialing" /\ Goto(c, "dialing")
       \/ once = "up" /\ Goto(c, "chain") /\ UNCHANGED once
       \/ once = "down" /\ Return(c, NoTx, "ErrClientNotAvailable") /\ UNCHANGED once
    /\ UNCHANGED <<coverage, nonce, tx, wire>>

DialEnds(c) ==
    /\ pc[c] = "dialing"
    /\ \/ once' = "up" /\ Goto(c, "chain")
       \/ once' = "down" /\ Return(c, NoTx, "ErrClientNotAvailable")
    /\ UNCHANGED <<coverage, nonce, tx, wire>>

GetChainID(c) ==
    /\ pc[c] = "chain"
    /\ Goto(c, "nonce") \/ Return(c, NoTx, "ErrNoChainID")
    /\ UNCHANGED <<once, coverage, nonce, tx, wire>>

\* NonceAt, then BindContract; Tx asks for the coverage event before it sends.
ReadNonce(c) ==
    /\ pc[c] = "nonce"
    /\ \/ /\ nonce' = [nonce EXCEPT ![c] = NextNonce(req[c].from)]
          /\ \/ Goto(c, IF req[c].op = "tx" /\ EnableCoverage THEN "cover" ELSE "prepare")
             \/ Return(c, NoTx, "ErrLocal")
       \/ Return(c, NoTx, "ErrNoNonce") /\ UNCHANGED nonce
    /\ UNCHANGED <<once, coverage, tx, wire>>

\* GetCoverageEventInfo, LoadContract, AddStatement: before the send in Tx, after the
\* confirmation in Deploy.
Cover(c) ==
    /\ pc[c] = "cover"
    /\ \/ Goto(c, IF req[c].op = "tx" THEN "prepare" ELSE "collect") /\ Load(c)
       \/ /\ \E e \in {"ErrNoCoverageInContract", "ErrRPC"} : Return(c, hash[c], e)
          /\ UNCHANGED loaded
    /\ UNCHANGED <<once, events, reverts, nonce, tx, wire>>

\* The method is looked up, the signer made, the price asked for, the transaction packed,
\* signed and put on the wire.  A method that is not there returns the nil of an older err.
Prepare(c) ==
    /\ pc[c] = "prepare"
    /\ \/ /\ \/ MethodMissing(c) /\ Return(c, NoTx, "nil")
             \/ Return(c, NoTx, "ErrLocal")
          /\ UNCHANGED <<tx, wire>>
       \/ /\ ~MethodMissing(c)
          /\ \E p \in Prices :
               tx' = [tx EXCEPT ![c] = [from |-> req[c].from, nonce |-> nonce[c],
                                        payload |-> req[c].payload, price |-> p]]
          /\ wire' = [wire EXCEPT ![c] = "inflight"]
          /\ Goto(c, "send")
    /\ UNCHANGED <<once, coverage, nonce>>

SendAccepted(c) ==
    /\ pc[c] = "send" /\ wire[c] = "ok"
    /\ Move(c, IF MustAwait(c) THEN "await" ELSE AfterConfirmation(c), tx[c], "nil")
    /\ UNCHANGED <<once, coverage, nonce, tx, wire>>

\* Deploy loads the contract only now that it has a revert to report, Tx has done it before.
SendRefused(c) ==
    /\ pc[c] = "send" /\ wire[c] \in {"error", "tagged"}
    /\ IF req[c].op = "deploy" /\ wire[c] = "tagged" THEN Load(c) ELSE UNCHANGED loaded
    /\ CollectRevert(c, loaded')
    /\ Return(c, HashOfFailedSend(c), "ErrSend")
    /\ UNCHANGED <<once, events, nonce, tx, wire>>

\* RPCTimeout, or a connection lost: the node may have the transaction, or get it later.
SendTimeout(c) ==
    /\ pc[c] = "send"
    /\ Return(c, HashOfFailedSend(c), "ErrSend")
    /\ UNCHANGED <<once, coverage, nonce, tx, wire>>

\* awaitTx: a receipt that is not there yet is asked for again, any other answer ends it.
AwaitTx(c) ==
    /\ pc[c] = "await"
    /\ \/ Receipt(hash[c]) = "success" /\ Goto(c, AfterConfirmation(c))
       \/ /\ Receipt(hash[c]) = "reverted"
          /\ IF req[c].op = "tx" THEN Goto(c, "reason")
             ELSE Return(c, hash[c], "ErrTransactionReverted")
       \/ Return(c, hash[c], "ErrRPC")
    /\ UNCHANGED <<once, coverage, nonce, tx, wire>>

AwaitTimeout_Never(c) == FALSE /\ UNCHANGED vars
AwaitTimeout(c) ==
    /\ pc[c] = "await"
    /\ Return(c, hash[c], "ErrAwaitTimeout")
    /\ UNCHANGED <<once, coverage, nonce, tx, wire>>

\* getRevertReason: the eth_call fails, or answers nothing that looks like Error(string).  If
\* it fails with the reason of the revert, a coverage tag in it stays: Tx looks for none.
RevertReason(c) ==
    /\ pc[c] = "reason"
    /\ \E e \in {"ErrRPC", "ErrTagged", "ErrNoRevertReason"} : Return(c, hash[c], e)
    /\ UNCHANGED <<once, coverage, nonce, tx, wire>>

\* It answers Error(string).  errorABI is empty, because errorABIJSON is not JSON (a comma
\* before the closing bracket) and the error of abi.JSON is dropped; values is then empty
\* and values[3] ends the process.
RevertReasonPanics(c) ==
    /\ pc[c] = "reason"
    /\ pc' = [d \in Calls |-> IF pc[d] = "done" THEN "done" ELSE "crashed"]
    /\ UNCHANGED <<outcome, once, coverage, nonce, tx, wire>>

\* The eth_call runs under the caller's context and no other deadline.
ReasonDeadline(c) ==
    /\ pc[c] = "reason" /\ c \in CallerDeadline
    /\ Return(c, hash[c], "ErrRPC")
    /\ UNCHANGED <<once, coverage, nonce, tx, wire>>

\* The receipt is fetched once more and its coverage logs go to the collector.
CollectEvents(c) ==
    /\ pc[c] = "collect"
    /\ \/ /\ Receipt(hash[c]) # "NotFound"
          /\ events' = IF hash[c] \in succeeded /\ req[c].payload \in loaded
                       THEN [events EXCEPT ![c] = @ + 1] ELSE events
          /\ Return(c, hash[c], "nil")
       \/ /\ Receipt(hash[c]) = "NotFound"
          /\ Return(c, hash[c], "ErrTxNotFound") /\ UNCHANGED events
       \/ Return(c, hash[c], "ErrRPC") /\ UNCHANGED events
    /\ UNCHANGED <<once, loaded, reverts, nonce, tx, wire>>

\* The steps that wait for nothing, or that a deadline of the deployer's own brings about.
Bounded(c) ==
    \/ Backend(c) \/ DialEnds(c) \/ GetChainID(c) \/ ReadNonce(c) \/ Cover(c)
    \/ Prepare(c) \/ SendAccepted(c) \/ SendRefused(c) \/ SendTimeout(c)
    \/ AwaitTimeout(c) \/ ReasonDeadline(c) \/ CollectEvents(c)

Client(c) ==
    /\ Start(c) \/ Bounded(c) \/ AwaitTx(c) \/ RevertReason(c) \/ RevertReasonPanics(c)
    /\ UNCHANGED <<nodeVars, req>>

-----------------------------------------------------------------------------
(* The node                                                                *)

Answer(c, a) == wire' = [wire EXCEPT ![c] = a]

NodeAccepts(c) ==
    /\ wire[c] = "inflight"
    /\ Accept(tx[c])
    /\ Answer(c, "ok")

NodeRefuses(c) ==
    /\ wire[c] = "inflight"
    /\ Answer(c, "error")
    /\ UNCHANGED nodeVars

\* A development node mines what it is sent and answers with the revert, if it reverted.
NodeMinesAtOnce(c) ==
    /\ wire[c] = "inflight"
    /\ Acceptable(tx[c])
    /\ \/ Include(tx[c], 1) /\ Answer(c, "ok")
       \/ Include(tx[c], 0) /\ \E a \in {"error", "tagged"} : Answer(c, a)

NodeAlone ==
    /\ \/ \E t \in pool, status \in {0, 1} : Mine(t, status)
       \/ \E t \in pool : Evict(t)
       \/ \E a \in Accounts : ForeignTx(a)
    /\ UNCHANGED wire

Node ==
    /\ NodeAlone \/ \E c \in Calls : NodeAccepts(c) \/ NodeRefuses(c) \/ NodeMinesAtOnce(c)
    /\ UNCHANGED <<once, loaded, pc, req, nonce, tx, hash, err, events, reverts>>

\* Every call has returned, or the process is gone.
Terminated ==
    /\ \A c \in Calls : pc[c] \in {"done", "crashed"}
    /\ UNCHANGED vars

Next ==
    \/ \E c \in Calls : Client(c)
    \/ Node
    \/ Terminated

Spec == Init /\ [][Next]_vars

\* A goroutine runs on, and a context with a deadline ends what it was given to.
Fairness == \A c \in Calls : WF_vars(Bounded(c) /\ UNCHANGED <<nodeVars, req>>)

FairSpec == Spec /\ Fairness

-----------------------------------------------------------------------------
(* What the pipeline guarantees                                            *)

\* Every variable keeps to its domain.
TypeOK ==
    /\ NodeTypeOK
    /\ once \in {"idle", "dialing", "up", "down"}
    /\ loaded \in SUBSET Payloads
    /\ pc \in [Calls -> Locations]
    /\ req \in [Calls -> Requests]
    /\ nonce \in [Calls -> Nat]
    /\ tx \in [Calls -> Tx \union {NoTx}]
    /\ wire \in [Calls -> {"none", "inflight", "ok", "error", "tagged"}]
    /\ hash \in [Calls -> Tx \union {NoTx}]
    /\ err \in [Calls -> Errors]
    /\ events \in [Calls -> Nat]
    /\ reverts \in [Calls -> Nat]

Returned(c) == pc[c] = "done"
Succeeded(c) == Returned(c) /\ err[c] = "nil" /\ hash[c] # NoTx
Confirmed(c) == Succeeded(c) /\ req[c].await

\* A call asked to await that returns a hash and no error reports a transaction of the
\* chain that did not revert (awaitTx, util.go:98-133).
ConfirmedIsMined == \A c \in Calls : Confirmed(c) => hash[c] \in succeeded

\* Whatever a call returns, an error too, once it has signed a transaction that may have
\* reached the node it returns that transaction's hash: the caller can find out what
\* became of it (getTransactFn, util.go:320-327, SendTransactionWithRet, client.go:35-37).
HashTracksTransaction ==
    \A c \in Calls : Returned(c) => hash[c] = tx[c]

\* Calls that raced for one nonce of one account do not both report a confirmation, unless
\* they signed the very same transaction (NonceAt "latest", deployer_tx.go:91).
OneWinnerPerNonce ==
    \A c, d \in Calls :
        /\ Confirmed(c) /\ Confirmed(d)
        /\ req[c].from = req[d].from /\ tx[c].nonce = tx[d].nonce
        => hash[c] = hash[d]

\* A call made after another of the same account was confirmed signs with a later nonce.
NonceAfterConfirmed ==
    [][\A c, d \in Calls :
          /\ Confirmed(c) /\ req[c].from = req[d].from
          /\ pc[d] = "nonce" /\ pc'[d] \in {"cover", "prepare"}
          => nonce'[d] > tx[c].nonce]_vars

\* No call signs past the end of the account's chain: its transaction never waits in the
\* pool for one that may have been dropped (NonceAt "latest" and not PendingNonceAt).
NoGap == \A c \in Calls : tx[c] # NoTx => tx[c].nonce <= count[tx[c].from]

\* The address returned by an awaited deployment holds the code this call deployed, even
\* when calls of the same account compete (DeployContract, contract.go:106).
AddressHoldsOwnCode ==
    \A c \in Calls :
        Confirmed(c) /\ req[c].op = "deploy"
        => \E t \in succeeded : <<t.from, t.nonce>> = Address(c) /\ t.payload = req[c].payload

\* One goroutine dials, and who is past Backend has the client it left: the field is
\* written without a lock (client.go:45-62).
Past == {"chain", "nonce", "cover", "prepare", "send", "await", "reason", "collect"}
OneClient ==
    /\ \A c, d \in Calls : pc[c] = "dialing" /\ pc[d] = "dialing" => c = d
    /\ \A c \in Calls : pc[c] \in Past => once = "up"

\* The collector counts events of transactions that succeeded and reverts of transactions
\* that reverted, each once per call.
CoverageMatchesChain ==
    \A c \in Calls :
        /\ events[c] + reverts[c] <= 1
        /\ events[c] > 0 => tx[c] \in succeeded
        /\ reverts[c] > 0 => tx[c] \in reverted

\* A covered call that finds nothing wrong has its events counted, awaited or not, and none
\* misses the receipt it has already seen (deployer_tx.go:198 and 249).
CoverageComplete ==
    \A c \in Calls :
        /\ SourcesReadable /\ Covered(c) /\ Returned(c) /\ hash[c] # NoTx
        /\ err[c] \in {"nil", "ErrTxNotFound"}
        => events[c] = 1

\* Under a caller's deadline every call that has its contract comes back.
EveryCallReturns ==
    \A c \in CallerDeadline : pc[c] = "backend" ~> pc[c] \in {"done", "crashed"}

-----------------------------------------------------------------------------
(* The promise, and how the pipeline keeps it                              *)

\* What a caller can conclude from the results of a call: no hash, nothing was sent; the
\* errors that follow a receipt of status 0; no error, with or without a wait.
ResultOf(c) ==
    IF ~Returned(c) THEN "none"
    ELSE IF hash[c] = NoTx THEN "unsent"
    ELSE IF err[c] \in {"ErrTransactionReverted", "ErrNoRevertReason", "ErrTagged"} THEN "reverted"
    ELSE IF err[c] # "nil" THEN "unknown"
    ELSE IF MustAwait(c) THEN "confirmed" ELSE "sent"

Promise == INSTANCE TxOutcome WITH
    Orders <- Tx, None <- NoTx, order <- tx, good <- succeeded, bad <- reverted,
    result <- [c \in Calls |-> ResultOf(c)]

\* Tx and Deploy keep their promise: whatever the node, the deadlines and the other calls do,
\* a call reports once, after it signed at most one transaction, and truly: "unsent" of
\* nothing that is or will be on its way, "reverted" and "confirmed" as the chain has it.
KeepsPromise == Promise!Spec

-----------------------------------------------------------------------------
(* What is said of it and does not hold                                    *)

\* "Specify overall timeout of a Transaction, including confirmation await" (options.go:102):
\* with the timeouts of the deployer alone, every call comes back.
TxTimeoutIsOverall ==
    \A c \in Calls : pc[c] = "backend" ~> pc[c] \in {"done", "crashed"}

=============================================================================
