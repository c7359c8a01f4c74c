-------------------------- MODULE TxPipelineProofs --------------------------
(* Theorems about TxPipeline, for any number of calls, accounts and prices. *)
EXTENDS TxPipeline, TLAPS

-----------------------------------------------------------------------------
(* Type correctness                                                        *)

\* The initial state is well typed.
LEMMA InitTypeOK == Init => TypeOK
  BY PipelineAssumption, NodeAssumption
  DEF Init, NodeInit, TypeOK, NodeTypeOK, Locations, Errors

\* The collector only learns of contracts.
LEMMA LoadType ==
    ASSUME TypeOK, NEW c \in Calls, Load(c)
    PROVE  loaded' \in SUBSET Payloads
  BY PipelineAssumption DEF Load, TypeOK, Request

\* A step of a call keeps the types.
LEMMA ClientTypeOK ==
    ASSUME TypeOK, NEW c \in Calls, Client(c)
    PROVE  TypeOK'
<1> USE PipelineAssumption, NodeAssumption DEF TypeOK, Locations, Errors
<1>0. NodeTypeOK' /\ req' \in [Calls -> Requests]
  BY DEF Client, nodeVars, NodeTypeOK
<1> USE DEF Move, Goto, Return, outcome, coverage
<1>1. CASE Start(c)
  BY <1>0, <1>1 DEF Start
<1>2. CASE Backend(c)
  BY <1>0, <1>2 DEF Backend
<1>3. CASE DialEnds(c)
  BY <1>0, <1>3 DEF DialEnds
<1>4. CASE GetChainID(c)
  BY <1>0, <1>4 DEF GetChainID
<1>5. CASE ReadNonce(c)
  <2>1. count[req[c].from] \in Nat
    BY DEF Request, NodeTypeOK
  <2>. QED BY <1>0, <1>5, <2>1 DEF ReadNonce, NextNonce
<1>6. CASE Cover(c)
  <2>1. loaded' \in SUBSET Payloads
    BY <1>6, LoadType DEF Cover
  <2>. QED BY <1>0, <1>6, <2>1 DEF Cover
<1>7. CASE Prepare(c)
  <2>1. \A p \in Prices : [from |-> req[c].from, nonce |-> nonce[c],
                           payload |-> req[c].payload, price |-> p] \in Tx
    BY DEF Request, Tx
  <2>2. CASE UNCHANGED <<tx, wire>>
    BY <1>0, <1>7, <2>2 DEF Prepare
  <2>3. CASE ~UNCHANGED <<tx, wire>>
    BY <1>0, <1>7, <2>1, <2>3 DEF Prepare
  <2>. QED BY <2>2, <2>3
<1>8. CASE SendAccepted(c)
  BY <1>0, <1>8 DEF SendAccepted, AfterConfirmation
<1>9. CASE SendRefused(c)
  <2>1. loaded' \in SUBSET Payloads
    BY <1>9, LoadType DEF SendRefused
  <2>2. reverts' \in [Calls -> Nat]
    BY <1>9 DEF SendRefused, CollectRevert
  <2>. QED BY <1>0, <1>9, <2>1, <2>2 DEF SendRefused, HashOfFailedSend
<1>10. CASE SendTimeout(c)
  BY <1>0, <1>10 DEF SendTimeout, HashOfFailedSend
<1>11. CASE AwaitTx(c)
  BY <1>0, <1>11 DEF AwaitTx, AfterConfirmation
<1>12. CASE AwaitTimeout(c)
  BY <1>0, <1>12 DEF AwaitTimeout
<1>13. CASE RevertReason(c)
  BY <1>0, <1>13 DEF RevertReason
<1>14. CASE RevertReasonPanics(c)
  BY <1>0, <1>14 DEF RevertReasonPanics
<1>15. CASE ReasonDeadline(c)
  BY <1>0, <1>15 DEF ReasonDeadline
<1>16. CASE CollectEvents(c)
  BY <1>0, <1>16 DEF CollectEvents
<1>. QED
  BY <1>1, <1>2, <1>3, <1>4, <1>5, <1>6, <1>7, <1>8, <1>9, <1>10, <1>11, <1>12, <1>13,
     <1>14, <1>15, <1>16 DEF Client, Bounded

\* A step of the node keeps the types; what it takes off the wire has been signed.
LEMMA NodeStepTypeOK ==
    ASSUME TypeOK, \A c \in Calls : wire[c] = "inflight" => tx[c] # NoTx, Node
    PROVE  TypeOK'
<1> USE NodeAssumption DEF TypeOK, NodeTypeOK, nodeVars, Tx
<1>1. \A t \in Tx, s \in {0, 1} : Include(t, s) => NodeTypeOK'
  BY DEF Include, SameSlot
<1>2. ASSUME NodeAlone PROVE TypeOK'
  <2>1. CASE \E t \in pool, s \in {0, 1} : Mine(t, s)
    BY <1>1, <1>2, <2>1 DEF NodeAlone, Mine, Node
  <2>2. CASE \E t \in pool : Evict(t)
    BY <1>2, <2>2 DEF NodeAlone, Evict, Node
  <2>3. CASE \E a \in Accounts : ForeignTx(a)
    BY <1>2, <2>3 DEF NodeAlone, ForeignTx, Node
  <2>. QED BY <1>2, <2>1, <2>2, <2>3 DEF NodeAlone
<1>3. ASSUME NEW c \in Calls, NodeAccepts(c) PROVE TypeOK'
  BY <1>3 DEF NodeAccepts, Accept, SameSlot, Answer, Node
<1>4. ASSUME NEW c \in Calls, NodeRefuses(c) PROVE TypeOK'
  BY <1>4 DEF NodeRefuses, Answer, Node
<1>5. ASSUME NEW c \in Calls, NodeMinesAtOnce(c) PROVE TypeOK'
  BY <1>1, <1>5 DEF NodeMinesAtOnce, Answer, Node
<1>. QED BY <1>2, <1>3, <1>4, <1>5 DEF Node

-----------------------------------------------------------------------------
(* The inductive invariant.  What is confirmed is read off the chain, so it *)
(* takes the chain's own order (ChainInv) and, for each call, where its     *)
(* transaction, its hash and its nonce are at each point (CallInv).         *)

\* A nonce of an account is used once, in order.
ChainInv ==
    /\ \A t \in Mined : t.nonce < count[t.from]
    /\ \A t, u \in Mined : t.from = u.from /\ t.nonce = u.nonce => t = u

Unsigned(c) ==
    \/ pc[c] \in {"idle", "backend", "dialing", "chain", "nonce", "prepare"}
    \/ pc[c] = "cover" /\ req[c].op = "tx"

InConfirmed(c) == pc[c] = "collect" \/ (pc[c] = "cover" /\ req[c].op = "deploy")

CallInv(c) ==
    /\ Unsigned(c) => tx[c] = NoTx /\ hash[c] = NoTx
    /\ Unsigned(c) /\ pc[c] \in {"cover", "prepare"} => nonce[c] <= count[req[c].from]
    /\ pc[c] = "send" => tx[c] # NoTx
    /\ pc[c] \in {"await", "reason"} \/ InConfirmed(c) => tx[c] # NoTx /\ hash[c] = tx[c]
    /\ pc[c] = "done" => hash[c] = tx[c]
    /\ wire[c] = "inflight" => tx[c] # NoTx
    /\ tx[c] # NoTx => /\ tx[c].from = req[c].from
                       /\ tx[c].payload = req[c].payload
                       /\ tx[c].nonce <= count[tx[c].from]
    /\ InConfirmed(c) \/ (Succeeded(c) /\ MustAwait(c)) => hash[c] \in succeeded

IInv == TypeOK /\ ChainInv /\ \A c \in Calls : CallInv(c)

\* Nothing has been sent at first.
LEMMA InitIInv == Init => IInv
<1> SUFFICES ASSUME Init PROVE IInv
  OBVIOUS
<1>1. TypeOK
  BY InitTypeOK
<1>2. ChainInv
  BY DEF Init, NodeInit, ChainInv, Mined
<1>3. \A c \in Calls : CallInv(c)
  BY DEF Init, NodeInit, CallInv, Unsigned, InConfirmed, Succeeded, Returned
<1>. QED BY <1>1, <1>2, <1>3 DEF IInv

\* A step of a call leaves the other calls as they were, unless it ends the process.
LEMMA OthersUntouched ==
    ASSUME TypeOK, NEW c \in Calls, Client(c), ~RevertReasonPanics(c),
           NEW d \in Calls, d # c
    PROVE  /\ pc'[d] = pc[d] /\ nonce'[d] = nonce[d] /\ tx'[d] = tx[d]
           /\ wire'[d] = wire[d] /\ hash'[d] = hash[d] /\ err'[d] = err[d]
<1> USE DEF TypeOK, Move, Goto, Return, outcome, coverage
<1>1. CASE Bounded(c)
  BY <1>1 DEF Bounded, Backend, DialEnds, GetChainID, ReadNonce, Cover, Prepare,
     SendAccepted, SendRefused, SendTimeout, AwaitTimeout, ReasonDeadline, CollectEvents
<1>2. CASE Start(c)
  BY <1>2 DEF Start
<1>3. CASE AwaitTx(c)
  BY <1>3 DEF AwaitTx
<1>4. CASE RevertReason(c)
  BY <1>4 DEF RevertReason
<1>. QED BY <1>1, <1>2, <1>3, <1>4 DEF Client

\* A step of a call keeps what the invariant says of that call.
LEMMA ClientCallInv ==
    ASSUME IInv, NEW c \in Calls, Client(c)
    PROVE  CallInv(c)'
<1> USE PipelineAssumption DEF IInv, TypeOK, CallInv, Unsigned, InConfirmed, Succeeded, Returned
<1> USE DEF Move, Goto, Return, outcome, coverage, Client, nodeVars, MustAwait, Covered
<1>0. req[c].op \in {"tx", "deploy"}
  BY DEF Request
<1>1. CASE Start(c)
  BY <1>1 DEF Start
<1>2. CASE Backend(c)
  BY <1>2 DEF Backend
<1>3. CASE DialEnds(c)
  BY <1>3 DEF DialEnds
<1>4. CASE GetChainID(c)
  BY <1>4 DEF GetChainID
<1>5. CASE ReadNonce(c)
  <2>1. count[req[c].from] \in Nat
    BY DEF Request, NodeTypeOK
  <2>. QED BY <1>5, <2>1 DEF ReadNonce, NextNonce
<1>6. CASE Cover(c)
  BY <1>0, <1>6 DEF Cover
<1>7. CASE Prepare(c)
  <2>1. CASE UNCHANGED <<tx, wire>>
    BY <1>7, <2>1 DEF Prepare
  <2>2. CASE ~UNCHANGED <<tx, wire>>
    <3>1. PICK p \in Prices :
             tx' = [tx EXCEPT ![c] = [from |-> req[c].from, nonce |-> nonce[c],
                                      payload |-> req[c].payload, price |-> p]]
      BY <1>7, <2>2 DEF Prepare
    <3>2. tx'[c] \in Tx
      BY <3>1, NodeAssumption DEF Request, Tx
    <3>. QED BY <1>7, <2>2, <3>1, <3>2 DEF Prepare
  <2>. QED BY <2>1, <2>2
<1>8. CASE SendAccepted(c)
  BY <1>8 DEF SendAccepted, AfterConfirmation
<1>9. CASE SendRefused(c)
  BY <1>9 DEF SendRefused, HashOfFailedSend
<1>10. CASE SendTimeout(c)
  BY <1>10 DEF SendTimeout, HashOfFailedSend
<1>11. CASE AwaitTx(c)
  BY <1>0, <1>11 DEF AwaitTx, AfterConfirmation, Receipt
<1>12. CASE AwaitTimeout(c)
  BY <1>12 DEF AwaitTimeout
<1>13. CASE RevertReason(c)
  BY <1>13 DEF RevertReason
<1>14. CASE RevertReasonPanics(c)
  BY <1>14 DEF RevertReasonPanics
<1>15. CASE ReasonDeadline(c)
  BY <1>15 DEF ReasonDeadline
<1>16. CASE CollectEvents(c)
  BY <1>16 DEF CollectEvents
<1>. QED
  BY <1>1, <1>2, <1>3, <1>4, <1>5, <1>6, <1>7, <1>8, <1>9, <1>10, <1>11, <1>12, <1>13,
     <1>14, <1>15, <1>16 DEF Bounded

\* A step of a call keeps the invariant.
LEMMA ClientIInv ==
    ASSUME IInv, NEW c \in Calls, Client(c)
    PROVE  IInv'
<1>1. TypeOK'
  BY ClientTypeOK DEF IInv
<1>2. ChainInv'
  BY DEF IInv, ChainInv, Client, nodeVars, Mined
<1>3. ASSUME NEW d \in Calls PROVE CallInv(d)'
  <2>1. CASE d = c
    BY <2>1, ClientCallInv
  <2>2. CASE d # c /\ ~RevertReasonPanics(c)
    BY <2>2, OthersUntouched DEF IInv, CallInv, Unsigned, InConfirmed, Succeeded, Returned,
       MustAwait, Covered, Client, nodeVars
  <2>3. CASE d # c /\ RevertReasonPanics(c)
    BY <2>3 DEF RevertReasonPanics, outcome, IInv, CallInv, Unsigned, InConfirmed, Succeeded,
       Returned, MustAwait, Covered, Client, nodeVars
  <2>. QED BY <2>1, <2>2, <2>3
<1>. QED BY <1>1, <1>2, <1>3 DEF IInv

\* A transaction enters the chain in the order of its account's nonces.
LEMMA IncludeChainInv ==
    ASSUME NodeTypeOK, ChainInv, NEW t \in Tx, NEW s \in {0, 1}, Include(t, s)
    PROVE  /\ ChainInv'
           /\ succeeded \subseteq succeeded'
           /\ \A a \in Accounts : count[a] <= count'[a]
<1>1. /\ Mined' = Mined \union {t}
      /\ \A u \in Mined : u \in Tx
      /\ count' = [count EXCEPT ![t.from] = @ + 1]
      /\ t.nonce = count[t.from] /\ t.from \in Accounts
  BY DEF Include, Mined, NodeTypeOK, Tx
<1>2. \A u \in Mined : u.nonce \in Nat /\ u.from \in Accounts /\ u.nonce < count[u.from]
  BY <1>1 DEF ChainInv, Tx
<1>3. \A a \in Accounts : count[a] \in Nat /\ count[a] <= count'[a]
  BY <1>1 DEF NodeTypeOK
<1>4. count'[t.from] = t.nonce + 1
  BY <1>1 DEF NodeTypeOK
<1>5. \A u \in Mined' : u.nonce < count'[u.from]
  BY <1>1, <1>2, <1>3, <1>4
<1>6. \A u, v \in Mined' : u.from = v.from /\ u.nonce = v.nonce => u = v
  BY <1>1, <1>2 DEF ChainInv
<1>7. succeeded \subseteq succeeded'
  BY DEF Include
<1>. QED BY <1>3, <1>5, <1>6, <1>7 DEF ChainInv

\* A step of the node keeps the chain in order, drops no receipt and uses no nonce twice.
LEMMA NodeChainInv ==
    ASSUME IInv, Node
    PROVE  /\ ChainInv'
           /\ succeeded \subseteq succeeded'
           /\ \A a \in Accounts : count[a] <= count'[a]
<1> USE DEF IInv
<1>0. /\ NodeTypeOK
      /\ \A c \in Calls : wire[c] = "inflight" => tx[c] \in Tx
      /\ \A a \in Accounts : count[a] <= count[a]
      /\ \A t \in Mined : t \in Tx
  BY DEF TypeOK, NodeTypeOK, CallInv, Mined
<1>1. CASE \E t \in pool, s \in {0, 1} : Mine(t, s)
  BY <1>0, <1>1, IncludeChainInv DEF Mine, NodeTypeOK
<1>2. CASE \E t \in pool : Evict(t)
  BY <1>0, <1>2 DEF Evict, ChainInv, Mined
<1>3. CASE \E a \in Accounts : ForeignTx(a)
  BY <1>0, <1>3 DEF ForeignTx, ChainInv, Mined, NodeTypeOK, Tx
<1>4. CASE \E c \in Calls : NodeAccepts(c)
  BY <1>0, <1>4 DEF NodeAccepts, Accept, ChainInv, Mined
<1>5. CASE \E c \in Calls : NodeRefuses(c)
  BY <1>0, <1>5 DEF NodeRefuses, nodeVars, ChainInv, Mined
<1>6. CASE \E c \in Calls : NodeMinesAtOnce(c)
  BY <1>0, <1>6, IncludeChainInv DEF NodeMinesAtOnce
<1>. QED BY <1>1, <1>2, <1>3, <1>4, <1>5, <1>6 DEF Node, NodeAlone

\* A step of the node keeps the invariant.
LEMMA NodeIInv ==
    ASSUME IInv, Node
    PROVE  IInv'
<1>1. TypeOK'
  BY NodeStepTypeOK DEF IInv, CallInv
<1>2. /\ ChainInv'
      /\ succeeded \subseteq succeeded'
      /\ \A a \in Accounts : count[a] <= count'[a]
  BY NodeChainInv
<1>3. UNCHANGED <<pc, req, nonce, tx, hash, err>>
  BY DEF Node
<1>4. \A c \in Calls : wire'[c] = "inflight" => wire[c] = "inflight"
  BY DEF IInv, TypeOK, Node, NodeAlone, NodeAccepts, NodeRefuses, NodeMinesAtOnce, Answer
<1>5. ASSUME NEW c \in Calls PROVE CallInv(c)'
  <2>1. /\ req[c].from \in Accounts
        /\ tx[c] # NoTx => tx[c] \in Tx /\ tx[c].from \in Accounts /\ tx[c].nonce \in Nat
        /\ nonce[c] \in Nat
        /\ \A a \in Accounts : count[a] \in Nat /\ count'[a] \in Nat
    BY <1>1, PipelineAssumption DEF IInv, TypeOK, NodeTypeOK, Request, Tx
  <2>2. Unsigned(c)' = Unsigned(c) /\ InConfirmed(c)' = InConfirmed(c)
        /\ Succeeded(c)' = Succeeded(c) /\ MustAwait(c)' = MustAwait(c)
    BY <1>3 DEF Unsigned, InConfirmed, Succeeded, Returned, MustAwait, Covered
  <2>. QED BY <1>2, <1>3, <1>4, <2>1, <2>2 DEF IInv, CallInv
<1>. QED BY <1>1, <1>2, <1>5 DEF IInv

\* The invariant holds of every reachable state.
THEOREM Invariance == Spec => []IInv
<1>1. Init => IInv
  BY InitIInv
<1>2. IInv /\ [Next]_vars => IInv'
  <2> SUFFICES ASSUME IInv, [Next]_vars PROVE IInv'
    OBVIOUS
  <2>1. CASE \E c \in Calls : Client(c)
    BY <2>1, ClientIInv
  <2>2. CASE Node
    BY <2>2, NodeIInv
  <2>3. CASE UNCHANGED vars
    BY <2>3 DEF vars, nodeVars, IInv, TypeOK, NodeTypeOK, ChainInv, Mined, CallInv, Unsigned,
       InConfirmed, Succeeded, Returned, MustAwait, Covered
  <2>. QED BY <2>1, <2>2, <2>3 DEF Next, Terminated
<1>. QED BY <1>1, <1>2, PTL DEF Spec

-----------------------------------------------------------------------------
(* The theorems                                                            *)

\* Every variable keeps to its domain.
THEOREM TypeCorrect == Spec => []TypeOK
<1>1. IInv => TypeOK
  BY DEF IInv
<1>. QED BY <1>1, Invariance, PTL

\* What is reported as confirmed is in the chain and did not revert.
THEOREM ConfirmedMined == Spec => []ConfirmedIsMined
<1>1. IInv => ConfirmedIsMined
  BY DEF IInv, CallInv, ConfirmedIsMined, Confirmed, MustAwait
<1>. QED BY <1>1, Invariance, PTL

\* Every call returns the hash of what it signed, if it signed anything.
THEOREM HashTracked == Spec => []HashTracksTransaction
<1>1. IInv => HashTracksTransaction
  BY DEF IInv, CallInv, HashTracksTransaction, Returned
<1>. QED BY <1>1, Invariance, PTL

\* No transaction is signed past the end of its account's chain.
THEOREM NoGapLeft == Spec => []NoGap
<1>1. IInv => NoGap
  BY DEF IInv, CallInv, NoGap
<1>. QED BY <1>1, Invariance, PTL

\* A nonce has one winner, however many calls race for it.
THEOREM OneWinner == Spec => []OneWinnerPerNonce
<1>1. ASSUME IInv PROVE OneWinnerPerNonce
  <2> SUFFICES ASSUME NEW c \in Calls, NEW d \in Calls, Confirmed(c), Confirmed(d),
                      req[c].from = req[d].from, tx[c].nonce = tx[d].nonce
               PROVE  hash[c] = hash[d]
    BY DEF OneWinnerPerNonce
  <2>1. \A e \in {c, d} : /\ hash[e] \in Mined /\ hash[e] = tx[e]
                          /\ tx[e].from = req[e].from
    BY <1>1 DEF IInv, CallInv, Confirmed, Succeeded, Returned, MustAwait, Mined
  <2>. QED BY <1>1, <2>1 DEF IInv, ChainInv
<1>. QED BY <1>1, Invariance, PTL

\* An awaited deployment returns the address of its own code.
THEOREM AddressOwned == Spec => []AddressHoldsOwnCode
<1>1. ASSUME IInv, NEW c \in Calls, Confirmed(c)
      PROVE  hash[c] \in succeeded /\ <<hash[c].from, hash[c].nonce>> = Address(c)
                                   /\ hash[c].payload = req[c].payload
  BY <1>1 DEF IInv, CallInv, Confirmed, Succeeded, Returned, MustAwait, Address
<1>2. IInv => AddressHoldsOwnCode
  BY <1>1 DEF AddressHoldsOwnCode
<1>. QED BY <1>2, Invariance, PTL

\* A call made after a confirmation signs with a later nonce.
THEOREM NonceMovesOn == Spec => NonceAfterConfirmed
<1>1. ASSUME IInv, [Next]_vars, NEW c \in Calls, NEW d \in Calls,
             Confirmed(c), req[c].from = req[d].from,
             pc[d] = "nonce", pc'[d] \in {"cover", "prepare"}
      PROVE  nonce'[d] > tx[c].nonce
  <2> USE <1>1 DEF IInv
  <2>1. hash[c] \in Mined /\ hash[c] = tx[c] /\ tx[c].from = req[d].from
    BY DEF CallInv, Confirmed, Succeeded, Returned, MustAwait, Mined
  <2>2. tx[c].nonce < count[req[d].from]
    BY <2>1 DEF ChainInv
  <2>3. \E e \in Calls : Client(e)
    BY DEF Next, Node, Terminated, vars
  <2>4. Client(d) /\ ~RevertReasonPanics(d)
    BY <2>3, OthersUntouched DEF TypeOK, RevertReasonPanics
  <2>5. ReadNonce(d)
    BY <2>4 DEF Client, Bounded, Start, Backend, DialEnds, GetChainID, Cover, Prepare,
       SendAccepted, SendRefused, SendTimeout, AwaitTx, AwaitTimeout, RevertReason,
       ReasonDeadline, CollectEvents
  <2>6. nonce'[d] = count[req[d].from]
    BY <2>5 DEF ReadNonce, NextNonce, Move, Return, TypeOK
  <2>7. tx[c].nonce \in Nat /\ count[req[d].from] \in Nat
    BY <2>1, PipelineAssumption DEF TypeOK, NodeTypeOK, Mined, Tx, Request
  <2>. QED BY <2>2, <2>6, <2>7
<1>2. IInv /\ [Next]_vars =>
        [\A c, d \in Calls :
          /\ Confirmed(c) /\ req[c].from = req[d].from
          /\ pc[d] = "nonce" /\ pc'[d] \in {"cover", "prepare"}
          => nonce'[d] > tx[c].nonce]_vars
  BY <1>1
<1>. QED BY <1>2, Invariance, PTL DEF Spec, NonceAfterConfirmed

-----------------------------------------------------------------------------
(* One client: who dials is alone, and the flag says so                    *)

ClientInv ==
    /\ OneClient
    /\ \A c \in Calls : pc[c] = "dialing" => once = "dialing"

\* A step of a call keeps the client's invariant.
LEMMA ClientStepClientInv ==
    ASSUME TypeOK, ClientInv, NEW c \in Calls, Client(c)
    PROVE  ClientInv'
<1> USE DEF TypeOK, ClientInv, OneClient, Past, Move, Goto, Return, outcome, coverage
<1>1. CASE Backend(c)
  BY <1>1 DEF Backend, DialIsDue
<1>2. CASE DialEnds(c)
  BY <1>2 DEF DialEnds
<1>3. CASE Start(c) \/ GetChainID(c) \/ ReadNonce(c)
  BY <1>3 DEF Start, GetChainID, ReadNonce
<1>4. CASE Cover(c) \/ Prepare(c) \/ CollectEvents(c)
  BY <1>4 DEF Cover, Prepare, CollectEvents
<1>5. CASE SendAccepted(c) \/ SendRefused(c) \/ SendTimeout(c)
  BY <1>5 DEF SendAccepted, SendRefused, SendTimeout, AfterConfirmation
<1>6. CASE AwaitTx(c) \/ AwaitTimeout(c)
  BY <1>6 DEF AwaitTx, AwaitTimeout, AfterConfirmation
<1>7. CASE RevertReason(c) \/ ReasonDeadline(c) \/ RevertReasonPanics(c)
  BY <1>7 DEF RevertReason, ReasonDeadline, RevertReasonPanics
<1>. QED BY <1>1, <1>2, <1>3, <1>4, <1>5, <1>6, <1>7 DEF Client, Bounded

\* One goroutine dials, and nobody goes past Backend without the client.
THEOREM OneClientEver == Spec => []OneClient
<1>1. Init => ClientInv
  BY DEF Init, ClientInv, OneClient, Past
<1>2. TypeOK /\ ClientInv /\ [Next]_vars => ClientInv'
  <2> SUFFICES ASSUME TypeOK, ClientInv, [Next]_vars PROVE ClientInv'
    OBVIOUS
  <2>1. CASE \E c \in Calls : Client(c)
    BY <2>1, ClientStepClientInv
  <2>2. CASE UNCHANGED <<once, pc>>
    BY <2>2 DEF ClientInv, OneClient
  <2>. QED BY <2>1, <2>2 DEF Next, Node, Terminated, vars
<1>3. ClientInv => OneClient
  BY DEF ClientInv
<1>. QED BY <1>1, <1>2, <1>3, TypeCorrect, PTL DEF Spec

-----------------------------------------------------------------------------
(* TxPipeline implements TxOutcome.  What the refinement needs beside      *)
(* IInv: where the pool's transactions come from, that a reason is looked  *)
(* for only after a revert, and that a call under way has no error yet.    *)

PoolInv == \A t \in pool : \E c \in Calls : tx[c] = t

ReasonInv == \A c \in Calls : pc[c] = "reason" => hash[c] \in reverted

NoErrorYet == \A c \in Calls : pc[c] \notin {"done", "crashed"} => err[c] = "nil"

PInv == IInv /\ PoolInv /\ ReasonInv /\ NoErrorYet

RevertErrors == {"ErrTransactionReverted", "ErrNoRevertReason", "ErrTagged"}

\* A transaction once signed stays; a call signs when it has none.
LEMMA SignsOnce ==
    ASSUME IInv, NEW c \in Calls, Client(c)
    PROVE  \/ tx' = tx
           \/ /\ pc[c] = "prepare" /\ pc'[c] = "send" /\ tx[c] = NoTx
              /\ tx'[c] \in Tx /\ tx' = [tx EXCEPT ![c] = tx'[c]]
<1> USE DEF outcome, coverage, Client, Bounded
<1>1. CASE ~Prepare(c)
  BY <1>1 DEF Start, Backend, DialEnds, GetChainID, ReadNonce, Cover, SendAccepted,
     SendRefused, SendTimeout, AwaitTx, AwaitTimeout, RevertReason, RevertReasonPanics,
     ReasonDeadline, CollectEvents
<1>2. CASE Prepare(c)
  <2>1. CASE tx' = tx
    BY <2>1
  <2>2. CASE tx' # tx
    <3>1. PICK p \in Prices :
             tx' = [tx EXCEPT ![c] = [from |-> req[c].from, nonce |-> nonce[c],
                                      payload |-> req[c].payload, price |-> p]]
      BY <1>2, <2>2 DEF Prepare
    <3>2. tx'[c] \in Tx /\ tx' = [tx EXCEPT ![c] = tx'[c]]
      BY <3>1, PipelineAssumption, NodeAssumption DEF IInv, TypeOK, Request, Tx
    <3>3. pc[c] = "prepare" /\ pc'[c] = "send"
      BY <1>2, <2>2 DEF Prepare, Goto, Move, IInv, TypeOK
    <3>4. tx[c] = NoTx
      BY <3>3 DEF IInv, CallInv, Unsigned
    <3>. QED BY <3>2, <3>3, <3>4
  <2>. QED BY <2>1, <2>2
<1>. QED BY <1>1, <1>2

\* What a call returns is true of the chain.
LEMMA ReturnsTruly ==
    ASSUME PInv, NEW c \in Calls, Client(c), pc'[c] = "done"
    PROVE  /\ pc[c] # "done" /\ tx' = tx /\ hash'[c] = tx[c]
           /\ err'[c] \in RevertErrors => tx[c] \in reverted
           /\ err'[c] = "nil" /\ MustAwait(c) /\ tx[c] # NoTx => tx[c] \in succeeded
<1>1. IInv /\ IInv'
  BY ClientIInv DEF PInv
<1>2. pc[c] # "done"
  BY DEF Client, Bounded, Start, Backend, DialEnds, GetChainID, ReadNonce, Cover, Prepare,
     SendAccepted, SendRefused, SendTimeout, AwaitTx, AwaitTimeout, RevertReason,
     RevertReasonPanics, ReasonDeadline, CollectEvents
<1>3. tx' = tx
  BY <1>1, SignsOnce
<1>4. hash'[c] = tx[c]
  BY <1>1, <1>3 DEF IInv, CallInv
<1>5. ASSUME err'[c] \in RevertErrors PROVE tx[c] \in reverted
  <2> USE <1>1, <1>5 DEF PInv, IInv, TypeOK, NoErrorYet, RevertErrors, Move, Goto, Return
  <2>1. CASE AwaitTx(c)
    <3>1. hash[c] = tx[c]
      BY <2>1 DEF AwaitTx, CallInv
    <3>2. Receipt(hash[c]) = "reverted"
      BY <2>1 DEF AwaitTx
    <3>. QED BY <3>1, <3>2 DEF Receipt
  <2>2. CASE RevertReason(c)
    BY <2>2 DEF RevertReason, PInv, ReasonInv, CallInv
  <2>3. CASE Start(c) \/ Backend(c) \/ DialEnds(c) \/ GetChainID(c) \/ ReadNonce(c)
    BY <2>3 DEF Start, Backend, DialEnds, GetChainID, ReadNonce
  <2>4. CASE Cover(c) \/ Prepare(c) \/ CollectEvents(c)
    BY <2>4 DEF Cover, Prepare, CollectEvents
  <2>5. CASE SendAccepted(c) \/ SendRefused(c) \/ SendTimeout(c)
    BY <2>5 DEF SendAccepted, SendRefused, SendTimeout
  <2>6. CASE AwaitTimeout(c) \/ ReasonDeadline(c) \/ RevertReasonPanics(c)
    BY <2>6 DEF AwaitTimeout, ReasonDeadline, RevertReasonPanics
  <2>. QED BY <2>1, <2>2, <2>3, <2>4, <2>5, <2>6 DEF Client, Bounded
<1>6. ASSUME err'[c] = "nil", MustAwait(c), tx[c] # NoTx PROVE tx[c] \in succeeded
  <2>1. req' = req /\ succeeded' = succeeded
    BY DEF Client, nodeVars
  <2>2. (Succeeded(c) /\ MustAwait(c))'
    BY <1>4, <1>6, <2>1 DEF Succeeded, Returned, MustAwait, Covered
  <2>. QED BY <1>1, <1>4, <2>1, <2>2 DEF IInv, CallInv
<1>. QED BY <1>2, <1>3, <1>4, <1>5, <1>6

\* A step of a call keeps the invariant.
LEMMA ClientPInv ==
    ASSUME PInv, NEW c \in Calls, Client(c)
    PROVE  PInv'
<1>1. IInv'
  BY ClientIInv DEF PInv
<1>2. PoolInv'
  <2>1. UNCHANGED pool /\ (\A t \in pool : t # NoTx)
    BY PipelineAssumption DEF Client, nodeVars, PInv, IInv, TypeOK, NodeTypeOK
  <2>2. \A d \in Calls : tx[d] # NoTx => tx'[d] = tx[d]
    BY SignsOnce DEF PInv, IInv, TypeOK
  <2>. QED BY <2>1, <2>2 DEF PInv, PoolInv
<1>3. ReasonInv'
  <2> USE DEF PInv, ReasonInv, IInv, TypeOK, Move, Goto, Return, outcome, coverage
  <2>0. reverted' = reverted
    BY DEF Client, nodeVars
  <2>1. ASSUME NEW d \in Calls, d # c, pc'[d] = "reason"
        PROVE  pc[d] = "reason" /\ hash'[d] = hash[d]
    <3>1. CASE RevertReasonPanics(c)
      BY <2>1, <3>1 DEF RevertReasonPanics
    <3>2. CASE ~RevertReasonPanics(c)
      BY <2>1, <3>2, OthersUntouched
    <3>. QED BY <3>1, <3>2
  <2>2. ASSUME pc'[c] = "reason" PROVE hash'[c] \in reverted
    <3> USE <2>2
    <3>1. CASE AwaitTx(c)
      BY <3>1 DEF AwaitTx, AfterConfirmation, Receipt
    <3>2. CASE Start(c) \/ Backend(c) \/ DialEnds(c) \/ GetChainID(c) \/ ReadNonce(c)
      BY <3>2 DEF Start, Backend, DialEnds, GetChainID, ReadNonce
    <3>3. CASE Cover(c) \/ Prepare(c) \/ CollectEvents(c) \/ RevertReason(c)
      BY <3>3 DEF Cover, Prepare, CollectEvents, RevertReason
    <3>4. CASE SendAccepted(c) \/ SendRefused(c) \/ SendTimeout(c)
      BY <3>4 DEF SendAccepted, SendRefused, SendTimeout, AfterConfirmation
    <3>5. CASE AwaitTimeout(c) \/ ReasonDeadline(c) \/ RevertReasonPanics(c)
      BY <3>5 DEF AwaitTimeout, ReasonDeadline, RevertReasonPanics
    <3>. QED BY <3>1, <3>2, <3>3, <3>4, <3>5 DEF Client, Bounded
  <2>. QED BY <2>0, <2>1, <2>2
<1>4. NoErrorYet'
  <2> USE DEF PInv, NoErrorYet, IInv, TypeOK, Move, Goto, Return, outcome, coverage
  <2>1. ASSUME NEW d \in Calls, d # c, pc'[d] \notin {"done", "crashed"} PROVE err'[d] = "nil"
    <3>1. CASE RevertReasonPanics(c)
      BY <2>1, <3>1 DEF RevertReasonPanics
    <3>2. CASE ~RevertReasonPanics(c)
      BY <2>1, <3>2, OthersUntouched
    <3>. QED BY <3>1, <3>2
  <2>2. ASSUME pc'[c] \notin {"done", "crashed"} PROVE err'[c] = "nil"
    <3> USE <2>2
    <3>1. CASE Start(c) \/ Backend(c) \/ DialEnds(c) \/ GetChainID(c) \/ ReadNonce(c)
      BY <3>1 DEF Start, Backend, DialEnds, GetChainID, ReadNonce
    <3>2. CASE Cover(c) \/ Prepare(c) \/ CollectEvents(c) \/ RevertReason(c)
      BY <3>2 DEF Cover, Prepare, CollectEvents, RevertReason
    <3>3. CASE SendAccepted(c) \/ SendRefused(c) \/ SendTimeout(c)
      BY <3>3 DEF SendAccepted, SendRefused, SendTimeout
    <3>4. CASE AwaitTx(c) \/ AwaitTimeout(c) \/ ReasonDeadline(c) \/ RevertReasonPanics(c)
      BY <3>4 DEF AwaitTx, AwaitTimeout, ReasonDeadline, RevertReasonPanics
    <3>. QED BY <3>1, <3>2, <3>3, <3>4 DEF Client, Bounded
  <2>. QED BY <2>1, <2>2
<1>. QED BY <1>1, <1>2, <1>3, <1>4 DEF PInv

\* A step of the node keeps the invariant: what it pools was on the wire of a call.
LEMMA NodePInv ==
    ASSUME PInv, Node
    PROVE  PInv'
<1>1. IInv'
  BY NodeIInv DEF PInv
<1>2. UNCHANGED <<pc, req, tx, hash, err>>
  BY DEF Node
<1>3. pool' \subseteq pool \union {tx[c] : c \in Calls} /\ reverted \subseteq reverted'
  BY DEF Node, NodeAlone, Mine, Include, Evict, ForeignTx, NodeAccepts, NodeRefuses,
     NodeMinesAtOnce, Accept, nodeVars
<1>4. PoolInv' /\ ReasonInv' /\ NoErrorYet'
  BY <1>2, <1>3 DEF PInv, PoolInv, ReasonInv, NoErrorYet
<1>. QED BY <1>1, <1>4 DEF PInv

\* Nothing is pooled and nobody has returned at first.
LEMMA InitPInv == Init => PInv
  BY InitIInv DEF PInv, PoolInv, ReasonInv, NoErrorYet, Init, NodeInit

-----------------------------------------------------------------------------
(* The refinement, step by step                                            *)

\* A call that has not moved has reported what it had.
LEMMA OthersKeepResults ==
    ASSUME PInv, NEW c \in Calls, Client(c), NEW d \in Calls, d # c
    PROVE  ResultOf(d)' = ResultOf(d)
<1>1. req' = req
  BY DEF Client
<1>2. CASE RevertReasonPanics(c)
  BY <1>1, <1>2 DEF RevertReasonPanics, outcome, ResultOf, Returned, MustAwait, Covered, PInv,
     IInv, TypeOK
<1>3. CASE ~RevertReasonPanics(c)
  BY <1>1, <1>3, OthersUntouched DEF ResultOf, Returned, MustAwait, Covered, PInv, IInv
<1>. QED BY <1>2, <1>3

\* Each step of a call signs, reports, or is none of the promise's business.
LEMMA ClientKeepsPromise ==
    ASSUME PInv, NEW c \in Calls, Client(c)
    PROVE  [Promise!Next]_(Promise!vars)
<1>0. succeeded' = succeeded /\ reverted' = reverted /\ req' = req
  BY DEF Client, nodeVars
<1>1. CASE pc'[c] = "done"
  <2>1. /\ pc[c] # "done" /\ tx' = tx /\ hash'[c] = tx[c]
        /\ err'[c] \in RevertErrors => tx[c] \in reverted
        /\ err'[c] = "nil" /\ MustAwait(c) /\ tx[c] # NoTx => tx[c] \in succeeded
    BY <1>1, ReturnsTruly
  <2>2. ResultOf(c) = "none"
    BY <2>1 DEF ResultOf, Returned
  <2>3. MustAwait(c)' = MustAwait(c)
    BY <1>0 DEF MustAwait, Covered
  <2>4. /\ ResultOf(c)' \in {"unsent", "sent", "unknown", "confirmed", "reverted"}
        /\ Promise!May(c, ResultOf(c)')
    BY <1>1, <2>1, <2>3 DEF ResultOf, Returned, RevertErrors, Promise!May
  <2>5. [d \in Calls |-> ResultOf(d)]'
          = [[d \in Calls |-> ResultOf(d)] EXCEPT ![c] = ResultOf(c)']
    BY OthersKeepResults
  <2>6. Promise!Report(c)
    BY <1>0, <2>1, <2>2, <2>4, <2>5 DEF Promise!Report
  <2>. QED BY <2>6 DEF Promise!Next
<1>2. CASE pc'[c] # "done"
  <2>1. pc[c] # "done"
    BY DEF Client, Bounded, Start, Backend, DialEnds, GetChainID, ReadNonce, Cover, Prepare,
       SendAccepted, SendRefused, SendTimeout, AwaitTx, AwaitTimeout, RevertReason,
       RevertReasonPanics, ReasonDeadline, CollectEvents
  <2>2. ResultOf(c) = "none" /\ ResultOf(c)' = "none"
    BY <1>2, <2>1 DEF ResultOf, Returned
  <2>3. [d \in Calls |-> ResultOf(d)]' = [d \in Calls |-> ResultOf(d)]
    BY <2>2, OthersKeepResults
  <2>4. CASE tx' = tx
    BY <1>0, <2>3, <2>4 DEF Promise!vars
  <2>5. CASE tx' # tx
    <3>1. tx[c] = NoTx /\ tx'[c] \in Tx /\ tx' = [tx EXCEPT ![c] = tx'[c]]
      BY <2>5, SignsOnce DEF PInv
    <3>2. Promise!Sign(c)
      BY <1>0, <2>2, <2>3, <3>1 DEF Promise!Sign
    <3>. QED BY <3>2 DEF Promise!Next
  <2>. QED BY <2>4, <2>5
<1>. QED BY <1>1, <1>2

\* A transaction that enters the chain takes a slot that is free.
LEMMA IncludeSettles ==
    ASSUME PInv, NEW c \in Calls, tx[c] # NoTx, NEW s \in {0, 1}, Include(tx[c], s),
           UNCHANGED <<pc, req, tx, hash, err>>
    PROVE  Promise!Settle(c)
<1>1. \A u \in Mined : u.nonce \in Nat /\ count[u.from] \in Nat /\ u.nonce < count[u.from]
  BY DEF PInv, IInv, TypeOK, NodeTypeOK, ChainInv, Mined, Tx
<1>2. ~Promise!Taken(tx[c])
  BY <1>1 DEF Promise!Taken, Include, Mined
<1>3. [d \in Calls |-> ResultOf(d)]' = [d \in Calls |-> ResultOf(d)]
  BY DEF ResultOf, Returned, MustAwait, Covered
<1>. QED BY <1>2, <1>3 DEF Include, Promise!Settle

\* Each step of the node settles a call's transaction, or is none of the promise's business.
LEMMA NodeKeepsPromise ==
    ASSUME PInv, Node
    PROVE  [Promise!Next]_(Promise!vars)
<1>1. UNCHANGED <<pc, req, tx, hash, err>>
  BY DEF Node
<1>2. CASE UNCHANGED <<succeeded, reverted>>
  BY <1>1, <1>2 DEF Promise!vars, ResultOf, Returned, MustAwait, Covered
<1>3. CASE ~UNCHANGED <<succeeded, reverted>>
  <2>1. CASE \E t \in pool, s \in {0, 1} : Mine(t, s)
    <3>1. PICK t \in pool, s \in {0, 1} : Include(t, s)
      BY <2>1 DEF Mine
    <3>2. PICK c \in Calls : tx[c] = t
      BY DEF PInv, PoolInv
    <3>3. tx[c] # NoTx
      BY <3>2, PipelineAssumption DEF PInv, IInv, TypeOK, NodeTypeOK
    <3>4. Promise!Settle(c)
      BY <1>1, <3>1, <3>2, <3>3, IncludeSettles
    <3>. QED BY <3>4 DEF Promise!Next
  <2>2. CASE \E c \in Calls : NodeMinesAtOnce(c)
    <3>1. PICK c \in Calls, s \in {0, 1} : wire[c] = "inflight" /\ Include(tx[c], s)
      BY <2>2 DEF NodeMinesAtOnce
    <3>2. tx[c] # NoTx
      BY <3>1 DEF PInv, IInv, CallInv
    <3>3. Promise!Settle(c)
      BY <1>1, <3>1, <3>2, IncludeSettles
    <3>. QED BY <3>3 DEF Promise!Next
  <2>. QED BY <1>3, <2>1, <2>2 DEF Node, NodeAlone, Evict, ForeignTx, NodeAccepts, NodeRefuses,
              Accept, nodeVars
<1>. QED BY <1>2, <1>3

\* The strengthened invariant holds of every reachable state.
THEOREM PipelineInvariance == Spec => []PInv
<1>1. PInv /\ [Next]_vars => PInv'
  <2> SUFFICES ASSUME PInv, [Next]_vars PROVE PInv'
    OBVIOUS
  <2>1. CASE \E c \in Calls : Client(c)
    BY <2>1, ClientPInv
  <2>2. CASE Node
    BY <2>2, NodePInv
  <2>3. CASE UNCHANGED vars
    BY <2>3 DEF vars, nodeVars, PInv, PoolInv, ReasonInv, NoErrorYet, IInv, TypeOK, NodeTypeOK,
       ChainInv, Mined, CallInv, Unsigned, InConfirmed, Succeeded, Returned, MustAwait, Covered
  <2>. QED BY <2>1, <2>2, <2>3 DEF Next, Terminated
<1>. QED BY <1>1, InitPInv, PTL DEF Spec

\* Tx and Deploy keep the promise of TxOutcome, with any number of calls on any node.
THEOREM PipelineKeepsPromise == Spec => KeepsPromise
<1>1. Init => Promise!Init
  BY DEF Init, NodeInit, Promise!Init, ResultOf, Returned
<1>2. PInv /\ [Next]_vars => [Promise!Next]_(Promise!vars)
  <2> SUFFICES ASSUME PInv, [Next]_vars PROVE [Promise!Next]_(Promise!vars)
    OBVIOUS
  <2>1. CASE \E c \in Calls : Client(c)
    BY <2>1, ClientKeepsPromise
  <2>2. CASE Node
    BY <2>2, NodeKeepsPromise
  <2>3. CASE UNCHANGED vars
    BY <2>3 DEF vars, nodeVars, Promise!vars, ResultOf, Returned, MustAwait, Covered
  <2>. QED BY <2>1, <2>2, <2>3 DEF Next, Terminated
<1>. QED BY <1>1, <1>2, PipelineInvariance, PTL DEF Spec, KeepsPromise, Promise!Spec

=============================================================================
