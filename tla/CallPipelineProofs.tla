------------------------- MODULE CallPipelineProofs -------------------------
(* Theorems about CallPipeline: what the collector counts and what a        *)
(* covered call reads, with any number of calls of Call, Tx and Deploy.     *)
EXTENDS CallPipeline, TxPipelineProofs, FiniteSetTheorems

-----------------------------------------------------------------------------
(* The inductive invariant.                                                *)

\* Where a covered call has its contract's sources with the collector
Through(c) == pc[c] = "collect" \/ (req[c].op = "tx" /\ pc[c] \in {"prepare", "send", "await"})

\* A call reports to the collector once, as it returns, and what it has the chain's word for.
CountInv(c) ==
    /\ wire[c] = "tagged" => tx[c] \in reverted
    /\ events[c] \in {0, 1} /\ reverts[c] \in {0, 1}
    /\ events[c] = 1 => pc[c] = "done" /\ err[c] = "nil" /\ tx[c] \in succeeded
    /\ reverts[c] = 1 => pc[c] = "done" /\ err[c] # "nil" /\ tx[c] \in reverted
    /\ pc[c] = "done" /\ err[c] \in RevertErrors => tx[c] \in reverted
    /\ SourcesReadable /\ Covered(c) /\ Through(c) => req[c].payload \in loaded
    /\ /\ SourcesReadable /\ Covered(c) /\ Returned(c) /\ hash[c] # NoTx
       /\ err[c] \in {"nil", "ErrTxNotFound"}
       => events[c] = 1
    /\ pc[c] = "done" /\ err[c] = "nil" /\ ~req[c].bytecodeOnly /\ ~MethodMissing(c)
       => hash[c] # NoTx

\* The Tx within a Call has not begun, or is over.
Before(c) == at[c] \in {"idle", "backend", "dialing", "chain", "cover", "plain"}
After(c) == at[c] \in {"receipt", "values"}

OuterInv(c) ==
    /\ IsCall(c) => req[c].op = "tx" /\ req[c].await
    /\ at[c] \notin {"none", "idle", "done"} => ~req[c].bytecodeOnly
    /\ at[c] \in {"cover", "plain", "tx"} \/ After(c) => req[c].known
    /\ Before(c) => pc[c] \in {"idle", "crashed"} /\ err[c] = "nil"
    /\ at[c] = "plain" => ~Covered(c)
    /\ at[c] = "tx" \/ After(c) => Covered(c) /\ (SourcesReadable => req[c].payload \in loaded)
    /\ After(c) => pc[c] = "done" /\ err[c] = "nil"
    /\ at[c] \notin {"values", "done"} => read[c] = 0
    /\ at[c] = "values" => read[c] = 0 \/ read[c] > tx[c].nonce
    /\ reverts[c] = 1 => err[c] = "ErrSend" \/ at[c] = "done"
    /\ at[c] = "done" /\ ret[c] = "values" /\ Covered(c)
       => tx[c] \in succeeded /\ read[c] > tx[c].nonce
    /\ at[c] = "done" /\ err[c] = "ErrTagged"
       => ret[c] # "ErrTagged" /\ (SourcesReadable => reverts[c] = 1)

Dials(c) == pc[c] = "dialing" \/ at[c] = "dialing"
HasClient(c) ==
    pc[c] \in Past \/ at[c] \in {"chain", "cover", "tx", "receipt", "values", "plain"}

DialerInv ==
    /\ \A c, d \in Calls : Dials(c) /\ Dials(d) => c = d
    /\ \A c \in Calls : Dials(c) => once = "dialing"
    /\ \A c \in Calls : HasClient(c) => once = "up"

CInv ==
    /\ PInv
    /\ CallTypeOK
    /\ DialerInv
    /\ ~EnableCoverage => loaded = {}
    /\ \A c \in Calls : CountInv(c) /\ OuterInv(c)

\* Nothing has begun at first.
LEMMA InitCInv == CallInit => CInv
<1> SUFFICES ASSUME CallInit PROVE CInv
  OBVIOUS
<1>1. PInv /\ TypeOK
  BY InitPInv, InitTypeOK DEF CallInit
<1>2. CallTypeOK
  BY <1>1 DEF CallInit, CallTypeOK, Places, Returns
<1>3. DialerInv
  BY DEF CallInit, Init, DialerInv, Dials, HasClient, Past
<1>4. ASSUME NEW c \in Calls PROVE CountInv(c) /\ OuterInv(c)
  <2>1. at[c] \in {"none", "idle"} /\ pc[c] = "idle" /\ events[c] = 0 /\ reverts[c] = 0
        /\ wire[c] = "none" /\ read[c] = 0 /\ err[c] = "nil"
    BY DEF CallInit, Init
  <2>2. CountInv(c)
    BY <2>1 DEF CountInv, Through, Returned
  <2>3. IsCall(c) => req[c].op = "tx" /\ req[c].await
    BY DEF CallInit
  <2>. QED BY <2>1, <2>2, <2>3 DEF OuterInv, Before, After
<1>. QED BY <1>1, <1>2, <1>3, <1>4 DEF CInv, CallInit, Init

\* The collector forgets no contract, and learns of that of a covered call.
LEMMA LoadKnows ==
    ASSUME NEW c \in Calls, Load(c)
    PROVE  /\ loaded \subseteq loaded'
           /\ SourcesReadable /\ Covered(c) => req[c].payload \in loaded'
           /\ ~EnableCoverage => loaded' = loaded
  BY DEF Load, Covered

LEMMA ClientLoaded ==
    ASSUME NEW c \in Calls, Client(c)
    PROVE  loaded \subseteq loaded' /\ (~EnableCoverage => loaded' = loaded)
<1> USE DEF coverage
<1>1. CASE Cover(c) \/ SendRefused(c)
  BY <1>1, LoadKnows DEF Cover, SendRefused
<1>2. CASE ~(Cover(c) \/ SendRefused(c))
  BY <1>2 DEF Client, Bounded, Start, Backend, DialEnds, GetChainID, ReadNonce, Prepare,
     SendAccepted, SendTimeout, AwaitTx, AwaitTimeout, RevertReason, RevertReasonPanics,
     ReasonDeadline, CollectEvents
<1>. QED BY <1>1, <1>2

\* A step of a call counts nothing for another.
LEMMA OthersUncounted ==
    ASSUME TypeOK, NEW c \in Calls, Client(c), NEW d \in Calls, d # c
    PROVE  events'[d] = events[d] /\ reverts'[d] = reverts[d]
<1> USE DEF TypeOK, coverage
<1>1. CASE SendRefused(c) \/ CollectEvents(c)
  BY <1>1 DEF SendRefused, CollectRevert, CollectEvents
<1>2. CASE ~(SendRefused(c) \/ CollectEvents(c))
  BY <1>2 DEF Client, Bounded, Start, Backend, DialEnds, GetChainID, ReadNonce, Cover, Prepare,
     SendAccepted, SendTimeout, AwaitTx, AwaitTimeout, RevertReason, RevertReasonPanics,
     ReasonDeadline
<1>. QED BY <1>1, <1>2

-----------------------------------------------------------------------------
(* A step of a Tx, a Deploy, or the Tx within a Call                       *)

\* What the collector is told at the steps that tell it something
LEMMA CountingSteps ==
    ASSUME PInv, NEW c \in Calls, CountInv(c), Client(c)
    PROVE  \/ UNCHANGED <<events, reverts>>
           \/ /\ pc'[c] = "done" /\ err'[c] = "nil" /\ tx' = tx /\ tx[c] \in succeeded
              /\ events' = [events EXCEPT ![c] = @ + 1] /\ reverts' = reverts
           \/ /\ pc'[c] = "done" /\ err'[c] = "ErrSend" /\ tx' = tx /\ tx[c] \in reverted
              /\ reverts' = [reverts EXCEPT ![c] = @ + 1] /\ events' = events
<1> USE DEF PInv, IInv, TypeOK, coverage, Move, Return, CallInv, InConfirmed
<1>1. CASE SendRefused(c)
  BY <1>1 DEF SendRefused, CollectRevert, CountInv
<1>2. CASE CollectEvents(c)
  BY <1>2 DEF CollectEvents
<1>3. CASE ~(SendRefused(c) \/ CollectEvents(c))
  BY <1>3 DEF Client, Bounded, Start, Backend, DialEnds, GetChainID, ReadNonce, Cover, Prepare,
     SendAccepted, SendTimeout, AwaitTx, AwaitTimeout, RevertReason, RevertReasonPanics,
     ReasonDeadline
<1>. QED BY <1>1, <1>2, <1>3

\* The sources are with the collector where the invariant says so.
LEMMA ClientThrough ==
    ASSUME PInv, NEW c \in Calls, CountInv(c), Client(c), SourcesReadable, Covered(c), Through(c)'
    PROVE  req[c].payload \in loaded'
<1>0. req' = req /\ loaded \subseteq loaded' /\ req[c].op \in {"tx", "deploy"}
  BY ClientLoaded, PipelineAssumption DEF Client, PInv, IInv, TypeOK, Request
<1> USE DEF PInv, IInv, TypeOK, Move, Goto, Return, Through, outcome, coverage, CountInv
<1>1. CASE Start(c) \/ Backend(c) \/ DialEnds(c) \/ GetChainID(c)
  BY <1>0, <1>1 DEF Start, Backend, DialEnds, GetChainID
<1>2. CASE ReadNonce(c)
  BY <1>0, <1>2 DEF ReadNonce, Covered
<1>3. CASE Cover(c)
  BY <1>0, <1>3, LoadKnows DEF Cover
<1>4. CASE Prepare(c) \/ CollectEvents(c)
  BY <1>0, <1>4 DEF Prepare, CollectEvents
<1>5. CASE SendAccepted(c) \/ SendRefused(c) \/ SendTimeout(c)
  BY <1>0, <1>5 DEF SendAccepted, SendRefused, SendTimeout, AfterConfirmation
<1>6. CASE AwaitTx(c) \/ AwaitTimeout(c)
  BY <1>0, <1>6 DEF AwaitTx, AwaitTimeout, AfterConfirmation
<1>7. CASE RevertReason(c) \/ ReasonDeadline(c) \/ RevertReasonPanics(c)
  BY <1>0, <1>7 DEF RevertReason, ReasonDeadline, RevertReasonPanics
<1>. QED BY <1>1, <1>2, <1>3, <1>4, <1>5, <1>6, <1>7 DEF Client, Bounded

\* A call that returns well has had its events counted, and has a hash unless it was asked for
\* none.
LEMMA ReturnsWell ==
    ASSUME PInv, NEW c \in Calls, CountInv(c), Client(c), pc'[c] = "done"
    PROVE  /\ /\ SourcesReadable /\ Covered(c) /\ hash'[c] # NoTx
              /\ err'[c] \in {"nil", "ErrTxNotFound"}
              => events'[c] = 1
           /\ err'[c] = "nil" /\ ~req[c].bytecodeOnly /\ ~MethodMissing(c) => hash'[c] # NoTx
<1> USE DEF PInv, IInv, TypeOK, Move, Goto, Return, outcome, coverage
<1>1. CASE Start(c) \/ Backend(c) \/ DialEnds(c) \/ GetChainID(c) \/ ReadNonce(c)
  BY <1>1 DEF Start, Backend, DialEnds, GetChainID, ReadNonce
<1>2. CASE Cover(c) \/ Prepare(c)
  BY <1>2 DEF Cover, Prepare
<1>3. CASE SendAccepted(c) \/ SendRefused(c) \/ SendTimeout(c)
  BY <1>3 DEF SendAccepted, SendRefused, SendTimeout, AfterConfirmation, MustAwait, CallInv
<1>4. CASE AwaitTx(c) \/ AwaitTimeout(c)
  BY <1>4 DEF AwaitTx, AwaitTimeout, AfterConfirmation, CallInv
<1>5. CASE CollectEvents(c)
  <2>1. hash[c] \in succeeded /\ tx[c] # NoTx /\ hash[c] = tx[c] /\ pc[c] = "collect"
    BY <1>5 DEF CollectEvents, CallInv, InConfirmed
  <2>2. SourcesReadable /\ Covered(c) => req[c].payload \in loaded
    BY <2>1 DEF CountInv, Through
  <2>3. events[c] = 0
    BY <2>1 DEF CountInv
  <2>. QED BY <1>5, <2>1, <2>2, <2>3 DEF CollectEvents, Receipt
<1>6. CASE RevertReason(c) \/ ReasonDeadline(c) \/ RevertReasonPanics(c)
  BY <1>6 DEF RevertReason, ReasonDeadline, RevertReasonPanics
<1>. QED BY <1>1, <1>2, <1>3, <1>4, <1>5, <1>6 DEF Client, Bounded

\* A signed transaction stays, and the others' transactions anyway.
LEMMA KeepsSigned ==
    ASSUME PInv, NEW c \in Calls, Client(c), NEW d \in Calls
    PROVE  /\ tx[d] # NoTx => tx'[d] = tx[d]
           /\ pc'[d] = "done" => tx'[d] = tx[d]
           /\ wire'[d] \in {wire[d], "inflight"}
<1>1. IInv /\ TypeOK
  BY DEF PInv, IInv
<1>2. wire'[d] \in {wire[d], "inflight"}
  BY <1>1 DEF TypeOK, Client, Bounded, Start, Backend, DialEnds, GetChainID, ReadNonce, Cover,
     Prepare, SendAccepted, SendRefused, SendTimeout, AwaitTx, AwaitTimeout, RevertReason,
     RevertReasonPanics, ReasonDeadline, CollectEvents
<1>3. CASE tx' = tx
  BY <1>2, <1>3
<1>4. CASE tx' # tx
  <2>1. tx[c] = NoTx /\ pc'[c] = "send" /\ tx' = [tx EXCEPT ![c] = tx'[c]]
    BY <1>1, <1>4, SignsOnce
  <2>. QED BY <1>1, <1>2, <2>1 DEF TypeOK
<1>. QED BY <1>3, <1>4

LEMMA ClientCountInv ==
    ASSUME PInv, \A d \in Calls : CountInv(d), NEW c \in Calls, Client(c), NEW d \in Calls
    PROVE  CountInv(d)'
<1>0. /\ TypeOK /\ IInv
      /\ UNCHANGED <<req, succeeded, reverted>> /\ loaded \subseteq loaded'
      /\ NoTx \notin reverted
  BY ClientLoaded, PipelineAssumption DEF PInv, IInv, TypeOK, NodeTypeOK, Client, nodeVars
<1>1. wire'[d] = "tagged" => tx'[d] \in reverted
  BY <1>0, KeepsSigned DEF CountInv
<1>2. CASE d # c
  <2>1. events'[d] = events[d] /\ reverts'[d] = reverts[d]
    BY <1>0, <1>2, OthersUncounted
  <2>2. hash'[d] = hash[d] /\ err'[d] = err[d]
        /\ (pc'[d] = pc[d] \/ (pc[d] # "done" /\ pc'[d] = "crashed")) /\ tx'[d] = tx[d]
    <3>1. CASE RevertReasonPanics(c)
      BY <1>0, <3>1 DEF RevertReasonPanics, outcome, TypeOK
    <3>2. CASE ~RevertReasonPanics(c)
      BY <1>0, <1>2, <3>2, OthersUntouched
    <3>. QED BY <3>1, <3>2
  <2>. QED BY <1>0, <1>1, <2>1, <2>2 DEF CountInv, Through, Returned, Covered, MethodMissing
<1>3. CASE d = c
  <2> USE <1>3
  <2>1. pc[c] # "done"
    BY DEF Client, Bounded, Start, Backend, DialEnds, GetChainID, ReadNonce, Cover, Prepare,
       SendAccepted, SendRefused, SendTimeout, AwaitTx, AwaitTimeout, RevertReason,
       RevertReasonPanics, ReasonDeadline, CollectEvents
  <2>2. events[c] = 0 /\ reverts[c] = 0
    BY <2>1 DEF CountInv
  <2>3. /\ events'[c] \in {0, 1} /\ reverts'[c] \in {0, 1}
        /\ events'[c] = 1 => pc'[c] = "done" /\ err'[c] = "nil" /\ tx'[c] \in succeeded'
        /\ reverts'[c] = 1 => pc'[c] = "done" /\ err'[c] # "nil" /\ tx'[c] \in reverted'
    BY <1>0, <2>2, CountingSteps DEF TypeOK
  <2>4. pc'[c] = "done" /\ err'[c] \in RevertErrors => tx'[c] \in reverted'
    BY <1>0, ReturnsTruly
  <2>5. SourcesReadable /\ Covered(c) /\ Through(c)' => req[c].payload \in loaded'
    BY ClientThrough
  <2>6. Covered(c)' = Covered(c) /\ MethodMissing(c)' = MethodMissing(c) /\ req' = req
    BY <1>0 DEF Covered, MethodMissing
  <2>7. pc'[c] = "done"
        => /\ /\ SourcesReadable /\ Covered(c) /\ hash'[c] # NoTx
              /\ err'[c] \in {"nil", "ErrTxNotFound"}
              => events'[c] = 1
           /\ err'[c] = "nil" /\ ~req[c].bytecodeOnly /\ ~MethodMissing(c) => hash'[c] # NoTx
    BY ReturnsWell
  <2>8. CountInv(c)'
    BY <1>0, <1>1, <2>3, <2>4, <2>5, <2>6, <2>7 DEF CountInv, Returned
  <2>. QED BY <2>8
<1>. QED BY <1>2, <1>3

\* A step within a Call: it stands at its Tx.
LEMMA InnerOuterInv ==
    ASSUME CInv, NEW c \in Calls, Inner(c), Client(c), NEW d \in Calls
    PROVE  OuterInv(d)'
<1>0. /\ TypeOK /\ PInv /\ CountInv(c) /\ CountInv(d) /\ OuterInv(d) /\ OuterInv(c)
      /\ UNCHANGED <<req, succeeded, reverted, at, ret, read>> /\ loaded \subseteq loaded'
      /\ at[c] \in {"none", "tx"}
  BY ClientLoaded DEF CInv, PInv, IInv, Client, nodeVars, Inner, callVars
<1>1. Covered(d)' = Covered(d) /\ IsCall(d)' = IsCall(d) /\ Before(d)' = Before(d) /\ After(d)' = After(d)
  BY <1>0 DEF Covered, IsCall, Before, After
<1>2. CASE d # c
  <2>1. events'[d] = events[d] /\ reverts'[d] = reverts[d]
    BY <1>0, <1>2, OthersUncounted
  <2>2. err'[d] = err[d] /\ tx'[d] = tx[d]
        /\ (pc'[d] = pc[d] \/ (pc[d] # "done" /\ pc'[d] = "crashed"))
    <3>1. CASE RevertReasonPanics(c)
      BY <1>0, <3>1 DEF RevertReasonPanics, outcome, TypeOK
    <3>2. CASE ~RevertReasonPanics(c)
      BY <1>0, <1>2, <3>2, OthersUntouched
    <3>. QED BY <3>1, <3>2
  <2>. QED BY <1>0, <1>1, <2>1, <2>2 DEF OuterInv
<1>3. CASE d = c
  <2>1. pc[c] # "done"
    BY DEF Client, Bounded, Start, Backend, DialEnds, GetChainID, ReadNonce, Cover, Prepare,
       SendAccepted, SendRefused, SendTimeout, AwaitTx, AwaitTimeout, RevertReason,
       RevertReasonPanics, ReasonDeadline, CollectEvents
  <2>2. reverts'[c] = 1 => err'[c] = "ErrSend"
    BY <1>0, <2>1, CountingSteps DEF CountInv, TypeOK
  <2>3. ~Before(c) /\ ~After(c) /\ at[c] # "done"
    BY <1>0 DEF Before, After
  <2>. QED BY <1>0, <1>1, <1>3, <2>2, <2>3 DEF OuterInv
<1>. QED BY <1>2, <1>3

LEMMA InnerDialerInv ==
    ASSUME CInv, NEW c \in Calls, Inner(c), Client(c)
    PROVE  DialerInv'
<1>0. /\ TypeOK /\ DialerInv /\ UNCHANGED at /\ at[c] \in {"none", "tx"}
      /\ once \in {"idle", "dialing", "up", "down"}
  BY DEF CInv, PInv, IInv, TypeOK, Inner, callVars
<1> USE DEF DialerInv, Dials, HasClient, Past, TypeOK, Move, Goto, Return, outcome, coverage
<1>1. CASE Backend(c)
  BY <1>0, <1>1 DEF Backend, DialIsDue
<1>2. CASE DialEnds(c)
  BY <1>0, <1>2 DEF DialEnds
<1>3. CASE Start(c) \/ GetChainID(c) \/ ReadNonce(c)
  BY <1>0, <1>3 DEF Start, GetChainID, ReadNonce
<1>4. CASE Cover(c) \/ Prepare(c) \/ CollectEvents(c)
  BY <1>0, <1>4 DEF Cover, Prepare, CollectEvents
<1>5. CASE SendAccepted(c) \/ SendRefused(c) \/ SendTimeout(c)
  BY <1>0, <1>5 DEF SendAccepted, SendRefused, SendTimeout, AfterConfirmation
<1>6. CASE AwaitTx(c) \/ AwaitTimeout(c)
  BY <1>0, <1>6 DEF AwaitTx, AwaitTimeout, AfterConfirmation
<1>7. CASE RevertReason(c) \/ ReasonDeadline(c) \/ RevertReasonPanics(c)
  BY <1>0, <1>7 DEF RevertReason, ReasonDeadline, RevertReasonPanics
<1>. QED BY <1>1, <1>2, <1>3, <1>4, <1>5, <1>6, <1>7 DEF Client, Bounded

LEMMA InnerCInv ==
    ASSUME CInv, NEW c \in Calls, Inner(c), Client(c)
    PROVE  CInv'
<1>1. PInv' /\ TypeOK'
  BY ClientPInv DEF CInv, PInv, IInv
<1>2. CallTypeOK'
  BY <1>1 DEF CInv, CallTypeOK, Inner, callVars
<1>3. ~EnableCoverage => loaded' = {}
  BY ClientLoaded DEF CInv
<1>4. \A d \in Calls : CountInv(d)' /\ OuterInv(d)'
  BY ClientCountInv, InnerOuterInv DEF CInv
<1>. QED BY <1>1, <1>2, <1>3, <1>4, InnerDialerInv DEF CInv

-----------------------------------------------------------------------------
(* A step of the node                                                      *)

LEMMA NodeCInv == ASSUME CInv, CallNode PROVE CInv'
<1>0. /\ Node /\ PInv /\ IInv /\ TypeOK
      /\ UNCHANGED <<once, loaded, pc, req, nonce, tx, hash, err, events, reverts, at, ret, read>>
  BY DEF CallNode, callVars, CInv, Node, PInv, IInv
<1>1. PInv' /\ TypeOK'
  BY <1>0, NodePInv DEF PInv, IInv
<1>2. succeeded \subseteq succeeded' /\ reverted \subseteq reverted'
  BY <1>0 DEF Node, NodeAlone, Mine, Include, Evict, ForeignTx, NodeAccepts, NodeRefuses,
     NodeMinesAtOnce, Accept, nodeVars
<1>3. ASSUME NEW d \in Calls, wire'[d] = "tagged" PROVE tx[d] \in reverted'
  <2>1. CASE wire[d] = "tagged"
    BY <1>2, <2>1 DEF CInv, CountInv
  <2>2. CASE wire[d] # "tagged"
    <3>1. PICK c \in Calls : NodeMinesAtOnce(c) /\ d = c
      BY <1>0, <1>3, <2>2 DEF TypeOK, Node, NodeAlone, NodeAccepts, NodeRefuses, NodeMinesAtOnce,
         Answer
    <3>. QED BY <1>0, <1>3, <3>1 DEF NodeMinesAtOnce, Include, Answer, TypeOK
  <2>. QED BY <2>1, <2>2
<1>4. CallTypeOK' /\ DialerInv'
  BY <1>0, <1>1 DEF CInv, CallTypeOK, DialerInv, Dials, HasClient
<1>5. ASSUME NEW d \in Calls PROVE CountInv(d)' /\ OuterInv(d)'
  <2>1. CountInv(d) /\ OuterInv(d)
    BY DEF CInv
  <2>2. CountInv(d)'
    BY <1>0, <1>2, <1>3, <2>1 DEF CountInv, Through, Returned, Covered, MethodMissing
  <2>3. OuterInv(d)'
    BY <1>0, <1>2, <2>1 DEF OuterInv, IsCall, Covered, Before, After
  <2>. QED BY <2>2, <2>3
<1>. QED BY <1>0, <1>1, <1>4, <1>5 DEF CInv

-----------------------------------------------------------------------------
(* A step of a Call by itself                                              *)

\* After its Tx, a covered call has a transaction that the chain has executed.
LEMMA AfterExecuted ==
    ASSUME CInv, NEW c \in Calls, \/ After(c)
                                  \/ at[c] = "tx" /\ pc[c] = "done" /\ err[c] = "nil"
    PROVE  tx[c] \in succeeded /\ tx[c].nonce \in Nat /\ tx[c].nonce < count[req[c].from]
<1>1. /\ PInv /\ IInv /\ CallInv(c) /\ CountInv(c) /\ OuterInv(c) /\ ChainInv /\ NodeTypeOK
  BY DEF CInv, PInv, IInv, TypeOK
<1>2. pc[c] = "done" /\ err[c] = "nil" /\ at[c] \notin {"none", "idle", "done"}
  BY <1>1 DEF OuterInv, After
<1>3. ~req[c].bytecodeOnly /\ req[c].known /\ req[c].op = "tx" /\ req[c].await
  BY <1>1, <1>2 DEF OuterInv, After, IsCall
<1>4. hash[c] # NoTx /\ hash[c] = tx[c]
  BY <1>1, <1>2, <1>3 DEF CountInv, CallInv, MethodMissing
<1>5. tx[c] \in succeeded /\ tx[c].from = req[c].from
  BY <1>1, <1>2, <1>3, <1>4 DEF CallInv, Succeeded, Returned, MustAwait
<1>. QED BY <1>1, <1>5 DEF ChainInv, Mined, NodeTypeOK, Tx

\* What such a step leaves alone
Aside(c) ==
    /\ UNCHANGED <<nodeVars, pc, req, nonce, tx, wire, hash, err, events>>
    /\ once' \in {"idle", "dialing", "up", "down"}
    /\ loaded \subseteq loaded' /\ loaded' \subseteq Payloads
    /\ ~EnableCoverage => loaded' = loaded
    /\ at' = [at EXCEPT ![c] = at'[c]] /\ at'[c] \in Places
    /\ ret' = [ret EXCEPT ![c] = ret'[c]] /\ ret'[c] \in Returns
    /\ read' = [read EXCEPT ![c] = read'[c]] /\ read'[c] \in Nat
    /\ reverts' = [reverts EXCEPT ![c] = reverts'[c]] /\ reverts'[c] \in Nat

LEMMA StepsAside ==
    ASSUME CInv, NEW c \in Calls, Outer(c) \/ CallBegins(c)
    PROVE  Aside(c)
<1>0. /\ TypeOK /\ CallTypeOK /\ req[c] \in Request
      /\ UNCHANGED <<nodeVars, pc, req, nonce, tx, wire, hash, err, events>>
  BY PipelineAssumption DEF CInv, PInv, IInv, TypeOK, Outer, CallBegins, outcome
<1>1. count[req[c].from] \in Nat
  BY <1>0 DEF TypeOK, NodeTypeOK, Request
<1> USE <1>0 DEF Aside, TypeOK, CallTypeOK, Places, Returns, Errors, To, Answered
<1>2. CASE CallStart(c) \/ CallBackend(c) \/ CallDialEnds(c) \/ CallChainID(c)
  BY <1>2 DEF CallStart, CallBackend, CallDialEnds, CallChainID
<1>3. CASE CallCover(c)
  <2>1. loaded \subseteq loaded' /\ loaded' \subseteq Payloads /\ (~EnableCoverage => loaded' = loaded)
    BY <1>3, LoadKnows, LoadType DEF CallCover
  <2>. QED BY <1>3, <2>1 DEF CallCover
<1>4. CASE CallTxReturned(c)
  BY <1>4 DEF CallTxReturned, CollectTagged, Trimmed
<1>5. CASE CallReceipt(c)
  <2>1. tx[c].nonce \in Nat
    BY <1>5, AfterExecuted DEF CallReceipt, After
  <2>2. \A n \in (tx[c].nonce + 1)..count[req[c].from] : n \in Nat
    BY <1>1, <2>1
  <2>. QED BY <1>5, <2>1, <2>2 DEF CallReceipt
<1>6. CASE CallValues(c)
  BY <1>1, <1>6 DEF CallValues
<1>7. CASE CallPlain(c)
  BY <1>1, <1>7 DEF CallPlain
<1>. QED BY <1>2, <1>3, <1>4, <1>5, <1>6, <1>7 DEF Outer, CallBegins

\* Who was not asked is where it was.
LEMMA AsideOthers ==
    ASSUME CInv, NEW c \in Calls, Aside(c), NEW d \in Calls, d # c
    PROVE  CountInv(d)' /\ OuterInv(d)'
<1>1. /\ CountInv(d) /\ OuterInv(d) /\ CallTypeOK /\ TypeOK
      /\ at'[d] = at[d] /\ ret'[d] = ret[d] /\ read'[d] = read[d] /\ reverts'[d] = reverts[d]
  BY DEF CInv, CallTypeOK, TypeOK, Aside
<1>. QED BY <1>1 DEF Aside, nodeVars, CountInv, OuterInv, Through, Returned, Covered, MethodMissing,
            IsCall, Before, After

\* A tag is counted for a call whose Tx has left one, and for no plain call.
LEMMA AsideCountInv ==
    ASSUME CInv, NEW c \in Calls, Outer(c) \/ CallBegins(c)
    PROVE  CountInv(c)'
<1>1. Aside(c) /\ CountInv(c) /\ OuterInv(c) /\ CallTypeOK /\ TypeOK
  BY StepsAside DEF CInv, CallTypeOK
<1>2. CASE reverts' = reverts
  BY <1>1, <1>2 DEF Aside, nodeVars, CountInv, Through, Returned, Covered, MethodMissing
<1>3. CASE reverts' # reverts
  <2>1. \/ /\ at[c] = "tx" /\ pc[c] = "done" /\ err[c] = "ErrTagged"
           /\ reverts' = [reverts EXCEPT ![c] = @ + 1]
        \/ at[c] = "plain" /\ req[c].agent /\ req[c].payload \in loaded
    BY <1>3 DEF Outer, CallBegins, CallStart, CallBackend, CallDialEnds, CallChainID, CallCover,
       CallTxReturned, CollectTagged, CallReceipt, CallValues, CallPlain
  <2>2. at[c] # "plain" \/ ~req[c].agent \/ req[c].payload \notin loaded
    BY <1>1 DEF OuterInv, Covered, CInv
  <2>3. /\ at[c] = "tx" /\ pc[c] = "done" /\ err[c] = "ErrTagged"
        /\ reverts' = [reverts EXCEPT ![c] = @ + 1]
    BY <2>1, <2>2
  <2>4. reverts[c] = 0 /\ tx[c] \in reverted /\ events[c] = 0
    BY <1>1, <2>3 DEF OuterInv, CountInv, RevertErrors
  <2>5. reverts'[c] = 1
    BY <1>1, <2>3, <2>4 DEF TypeOK
  <2>. QED BY <1>1, <2>3, <2>4, <2>5 DEF Aside, nodeVars, CountInv, Through, Returned, Covered, MethodMissing
<1>. QED BY <1>2, <1>3

LEMMA AsideOuterInv ==
    ASSUME CInv, NEW c \in Calls, Outer(c) \/ CallBegins(c)
    PROVE  OuterInv(c)'
<1>1. Aside(c) /\ CountInv(c) /\ OuterInv(c) /\ CallTypeOK /\ TypeOK
  BY StepsAside DEF CInv, CallTypeOK
<1>2. UNCHANGED <<nodeVars, pc, req, nonce, tx, wire, hash, err, events>>
      /\ Covered(c)' = Covered(c) /\ loaded \subseteq loaded'
  BY <1>1 DEF Aside, Covered
<1> USE <1>1, <1>2 DEF CallTypeOK, OuterInv, To, Answered, IsCall, Before, After, nodeVars
<1>3. CASE CallStart(c) \/ CallBackend(c) \/ CallDialEnds(c)
  BY <1>3 DEF CallStart, CallBackend, CallDialEnds
<1>4. CASE CallChainID(c)
  BY <1>4 DEF CallChainID, Covered
<1>5. CASE CallCover(c)
  BY <1>5, LoadKnows DEF CallCover
<1>6. CASE CallTxReturned(c)
  <2>1. CASE err[c] # "nil"
    <3>0. at[c] = "tx" /\ pc[c] = "done"
      BY <1>6 DEF CallTxReturned
    <3>1. at'[c] = "done" /\ ret'[c] = Trimmed(err[c]) /\ CollectTagged(c) /\ read' = read
      BY <1>6, <2>1 DEF CallTxReturned, TxFailed
    <3>2. ret'[c] # "ErrTagged" /\ (ret'[c] = "values" => FALSE)
      BY <2>1, <3>1 DEF Trimmed, TypeOK, Errors
    <3>3. err[c] = "ErrTagged" /\ SourcesReadable => reverts'[c] = 1
      <4>1. err[c] = "ErrTagged" => reverts[c] = 0
        BY <3>0 DEF CountInv
      <4>2. SourcesReadable => req[c].agent /\ req[c].payload \in loaded
        BY <3>0 DEF Covered
      <4>. QED BY <3>1, <4>1, <4>2 DEF CollectTagged, TypeOK
    <3>. QED BY <3>0, <3>1, <3>2, <3>3
  <2>2. CASE err[c] = "nil"
    BY <1>6, <2>2 DEF CallTxReturned, TxFailed
  <2>. QED BY <2>1, <2>2
<1>7. CASE CallReceipt(c)
  <2>1. tx[c].nonce \in Nat /\ count[req[c].from] \in Nat
    BY <1>7, AfterExecuted, PipelineAssumption DEF CallReceipt, TypeOK, NodeTypeOK, Request
  <2>2. at[c] = "receipt" /\ at'[c] = "values" /\ reverts' = reverts
    BY <1>7 DEF CallReceipt
  <2>3. read'[c] = read[c] \/ \E n \in (tx[c].nonce + 1)..count[req[c].from] : read'[c] = n
    BY <1>7 DEF CallReceipt
  <2>4. read'[c] = 0 \/ read'[c] > tx[c].nonce
    BY <2>1, <2>2, <2>3
  <2>. QED BY <2>2, <2>4
<1>8. CASE CallValues(c)
  <2>1. tx[c] \in succeeded /\ tx[c].nonce \in Nat /\ tx[c].nonce < count[req[c].from]
    BY <1>8, AfterExecuted DEF CallValues
  <2>2. at[c] = "values" /\ at'[c] = "done" /\ reverts' = reverts /\ err[c] = "nil"
    BY <1>8 DEF CallValues
  <2>3. ret'[c] = "values" => read'[c] > tx[c].nonce
    <3>1. ret'[c] = "values" => read'[c] = IF read[c] = 0 THEN count[req[c].from] ELSE read[c]
      BY <1>8 DEF CallValues
    <3>2. count[req[c].from] \in Nat
      BY PipelineAssumption DEF TypeOK, NodeTypeOK, Request
    <3>. QED BY <2>1, <2>2, <3>1, <3>2
  <2>. QED BY <2>1, <2>2, <2>3
<1>9. CASE CallPlain(c)
  BY <1>9 DEF CallPlain
<1>. QED BY <1>3, <1>4, <1>5, <1>6, <1>7, <1>8, <1>9 DEF Outer, CallBegins

LEMMA AsideDialerInv ==
    ASSUME CInv, NEW c \in Calls, Outer(c) \/ CallBegins(c)
    PROVE  DialerInv'
<1>1. /\ Aside(c) /\ DialerInv /\ OuterInv(c) /\ CallTypeOK
      /\ pc' = pc
  BY StepsAside DEF CInv, Aside
<1>2. \A d \in Calls : d # c => Dials(d)' = Dials(d) /\ HasClient(d)' = HasClient(d)
  BY <1>1 DEF Aside, CallTypeOK, Dials, HasClient
<1> USE <1>1, <1>2 DEF To, Answered, CallTypeOK
<1>3. CASE CallBackend(c)
  <2>1. pc[c] \in {"idle", "crashed"}
    BY <1>3 DEF CallBackend, OuterInv, Before
  <2>2. CASE once = "idle" /\ once' = "dialing" /\ at'[c] = "dialing"
    BY <2>1, <2>2 DEF DialerInv, Dials, HasClient, Past
  <2>3. CASE once = "up" /\ at'[c] = "chain" /\ once' = once
    BY <2>1, <2>3 DEF DialerInv, Dials, HasClient, Past
  <2>4. CASE once = "down" /\ at'[c] = "done" /\ once' = once
    BY <2>1, <2>4 DEF DialerInv, Dials, HasClient, Past
  <2>. QED BY <1>3, <2>2, <2>3, <2>4 DEF CallBackend, DialIsDue
<1>4. CASE CallDialEnds(c)
  <2>1. pc[c] \in {"idle", "crashed"} /\ at[c] = "dialing"
    BY <1>4 DEF CallDialEnds, OuterInv, Before
  <2>2. \A d \in Calls : ~Dials(d)'
    BY <1>4, <2>1 DEF CallDialEnds, DialerInv, Dials
  <2>3. \A d \in Calls : d # c => ~HasClient(d)
    BY <2>1 DEF DialerInv, Dials, HasClient
  <2>4. HasClient(c)' => once' = "up"
    BY <1>4, <2>1 DEF CallDialEnds, HasClient, Past
  <2>. QED BY <2>2, <2>3, <2>4 DEF DialerInv
<1>5. CASE UNCHANGED once /\ ~CallBackend(c) /\ ~CallDialEnds(c)
  <2>1. ~Dials(c)' \/ Dials(c)
    BY <1>5 DEF Outer, CallBegins, CallStart, CallChainID, CallCover, CallTxReturned, CallReceipt,
       CallValues, CallPlain, Dials
  <2>2. HasClient(c)' => HasClient(c)
    BY <1>5 DEF Outer, CallBegins, CallStart, CallChainID, CallCover, CallTxReturned, CallReceipt,
       CallValues, CallPlain, HasClient
  <2>. QED BY <1>5, <2>1, <2>2 DEF DialerInv
<1>. QED BY <1>3, <1>4, <1>5 DEF Outer, CallBegins, CallStart, CallChainID, CallCover,
            CallTxReturned, CallReceipt, CallValues, CallPlain

LEMMA AsideCInv ==
    ASSUME CInv, NEW c \in Calls, Outer(c) \/ CallBegins(c)
    PROVE  CInv'
<1>1. Aside(c) /\ PInv /\ IInv /\ TypeOK /\ CallTypeOK
  BY StepsAside DEF CInv, PInv, IInv
<1>2. TypeOK'
  BY <1>1 DEF Aside, nodeVars, TypeOK, NodeTypeOK
<1>3. PInv'
  BY <1>1, <1>2 DEF Aside, nodeVars, PInv, PoolInv, ReasonInv, NoErrorYet, IInv, ChainInv, Mined,
     CallInv, Unsigned, InConfirmed, Succeeded, Returned, MustAwait, Covered
<1>4. CallTypeOK'
  BY <1>1, <1>2 DEF Aside, CallTypeOK
<1>5. \A d \in Calls : CountInv(d)' /\ OuterInv(d)'
  BY <1>1, AsideOthers, AsideCountInv, AsideOuterInv
<1>6. ~EnableCoverage => loaded' = {}
  BY <1>1 DEF Aside, CInv
<1>. QED BY <1>3, <1>4, <1>5, <1>6, AsideDialerInv DEF CInv

\* Every step keeps the invariant.
LEMMA CInvKept == CInv /\ [CallNext]_allVars => CInv'
<1> SUFFICES ASSUME CInv, [CallNext]_allVars PROVE CInv'
  OBVIOUS
<1>1. CASE \E c \in Calls : CallClient(c)
  BY <1>1, AsideCInv, InnerCInv DEF CallClient
<1>2. CASE CallNode
  BY <1>2, NodeCInv
<1>3. CASE UNCHANGED allVars
  <2>1. UNCHANGED vars /\ UNCHANGED <<at, ret, read>>
    BY <1>3 DEF allVars, callVars
  <2>2. PInv'
    BY <2>1 DEF CInv, vars, nodeVars, PInv, PoolInv, ReasonInv, NoErrorYet, IInv, TypeOK,
       NodeTypeOK, ChainInv, Mined, CallInv, Unsigned, InConfirmed, Succeeded, Returned,
       MustAwait, Covered
  <2>3. CallTypeOK' /\ DialerInv'
    BY <2>1, <2>2 DEF CInv, vars, CallTypeOK, DialerInv, Dials, HasClient, PInv, IInv
  <2>4. \A c \in Calls : CountInv(c)' /\ OuterInv(c)'
    BY <2>1 DEF CInv, vars, nodeVars, CountInv, OuterInv, Through, Returned, Covered,
       MethodMissing, IsCall, Before, After
  <2>. QED BY <2>1, <2>2, <2>3, <2>4 DEF CInv, vars
<1>. QED BY <1>1, <1>2, <1>3 DEF CallNext, CallTerminated

\* The invariant holds of every reachable state.
THEOREM CallInvariance == CallSpec => []CInv
  BY InitCInv, CInvKept, PTL DEF CallSpec

-----------------------------------------------------------------------------
(* What follows of it                                                      *)

\* Every variable keeps to its domain.
THEOREM CallTypeCorrect == CallSpec => []CallTypeOK
<1>1. CInv => CallTypeOK
  BY DEF CInv
<1>. QED BY <1>1, CallInvariance, PTL

\* The collector counts events of what succeeded and reverts of what reverted, once for a call.
THEOREM CountsMatchChain == CallSpec => []CoverageMatchesChain
<1>1. CInv => CoverageMatchesChain
  BY DEF CInv, CountInv, CoverageMatchesChain
<1>. QED BY <1>1, CallInvariance, PTL

\* A covered call that finds nothing wrong has its events counted.
THEOREM CountsComplete == CallSpec => []CoverageComplete
<1>1. CInv => CoverageComplete
  BY DEF CInv, CountInv, CoverageComplete
<1>. QED BY <1>1, CallInvariance, PTL

\* A covered call reads from a chain that holds its own transaction.
THEOREM OwnWriteRead == CallSpec => []ReadsOwnWrite
<1>1. CInv => ReadsOwnWrite
  BY DEF CInv, OuterInv, ReadsOwnWrite
<1>. QED BY <1>1, CallInvariance, PTL

\* The tag that a Tx leaves in its error is counted once by the Call around it.
THEOREM TagCounted == CallSpec => []FetchedTagCounted
<1>1. CInv => FetchedTagCounted
  BY DEF CInv, OuterInv, FetchedTagCounted
<1>. QED BY <1>1, CallInvariance, PTL

\* One goroutine dials, whichever of the three operations it is in.
THEOREM OneDialerEver == CallSpec => []OneDialer
<1>1. ASSUME CInv PROVE OneDialer
  <2>1. \A c, d \in Dialing : c = d
    BY <1>1 DEF CInv, DialerInv, Dials, Dialing
  <2>2. Cardinality(Dialing) <= 1
    <3>1. CASE Dialing = {}
      BY <3>1, FS_EmptySet
    <3>2. CASE Dialing # {}
      <4>1. PICK c \in Dialing : TRUE
        BY <3>2
      <4>2. Dialing = {c}
        BY <2>1, <4>1
      <4>. QED BY <4>2, FS_Singleton
    <3>. QED BY <3>1, <3>2
  <2>. QED BY <1>1, <2>2 DEF OneDialer, CInv, DialerInv, HasClient
<1>. QED BY <1>1, CallInvariance, PTL

\* What is reported as confirmed is in the chain, and every call returns the hash of what it
\* signed, with calls of Call among the others.
THEOREM ConfirmedAmongCalls == CallSpec => [](ConfirmedIsMined /\ HashTracksTransaction)
<1>1. CInv => ConfirmedIsMined /\ HashTracksTransaction
  BY DEF CInv, PInv, IInv, CallInv, ConfirmedIsMined, Confirmed, MustAwait, HashTracksTransaction,
     Returned
<1>. QED BY <1>1, CallInvariance, PTL

\* Tx and Deploy keep the promise of TxOutcome, a Tx within a Call too.
THEOREM CallsKeepPromise == CallSpec => KeepsPromise
<1>1. CallInit => Promise!Init
  BY DEF CallInit, Init, NodeInit, Promise!Init, ResultOf, Returned
<1>2. CInv /\ [CallNext]_allVars => [Promise!Next]_(Promise!vars)
  <2> SUFFICES ASSUME CInv, [CallNext]_allVars PROVE [Promise!Next]_(Promise!vars)
    OBVIOUS
  <2>0. PInv
    BY DEF CInv
  <2>1. ASSUME NEW c \in Calls, Inner(c), Client(c) PROVE [Promise!Next]_(Promise!vars)
    BY <2>0, <2>1, ClientKeepsPromise
  <2>2. ASSUME NEW c \in Calls, Outer(c) \/ CallBegins(c) PROVE [Promise!Next]_(Promise!vars)
    BY <2>2, StepsAside DEF Aside, nodeVars, Promise!vars, ResultOf, Returned, MustAwait, Covered
  <2>3. CASE CallNode
    BY <2>0, <2>3, NodeKeepsPromise DEF CallNode
  <2>4. CASE UNCHANGED allVars
    BY <2>4 DEF allVars, vars, nodeVars, Promise!vars, ResultOf, Returned, MustAwait, Covered
  <2>. QED BY <2>1, <2>2, <2>3, <2>4 DEF CallNext, CallClient, CallTerminated
<1>. QED BY <1>1, <1>2, CallInvariance, PTL DEF CallSpec, KeepsPromise, Promise!Spec

-----------------------------------------------------------------------------
(* Every call comes back.  The provers know nothing of ENABLED: that a     *)
(* call which waits for nobody may take its step is a hypothesis,          *)
(* WaitsForDialerOnly, an invariant of the run tx_calls.  The rest is      *)
(* proved: a call only moves on, so it has a rank that every step of its   *)
(* own lowers, and the goroutine it waits for in Backend does not wait     *)
(* itself.                                                                 *)

Gone(c) == pc[c] \in {"done", "crashed"}

\* How far a Tx or a Deploy still is from its return; the event is asked for at two places.
Rank(c) ==
    CASE pc[c] = "backend" -> 10
      [] pc[c] = "dialing" -> 9
      [] pc[c] = "chain"   -> 8
      [] pc[c] = "nonce"   -> 7
      [] pc[c] = "cover"   -> IF req[c].op = "tx" THEN 6 ELSE 2
      [] pc[c] = "prepare" -> 5
      [] pc[c] = "send"    -> 4
      [] pc[c] = "await"   -> 3
      [] pc[c] = "reason"  -> 2
      [] pc[c] = "collect" -> 1
      [] OTHER             -> 0

\* What the steps of a Tx or a Deploy do to the places of the calls and to the client
LEMMA ClientMoves ==
    ASSUME TypeOK, NEW c \in Calls, Client(c)
    PROVE  /\ req' = req /\ ~Gone(c) /\ pc'[c] # "idle"
           /\ pc[c] # "idle" => Rank(c)' < Rank(c)
           /\ \/ once' = once
              \/ pc[c] = "backend" /\ once = "idle" /\ once' = "dialing" /\ pc'[c] = "dialing"
              \/ pc[c] = "dialing" /\ once' \in {"up", "down"}
           /\ pc[c] = "dialing" /\ pc'[c] # "crashed" => once' \in {"up", "down"}
           /\ pc'[c] = "dialing" => once' = "dialing"
<1>0. req[c].op \in {"tx", "deploy"}
  BY PipelineAssumption DEF TypeOK, Request
<1> USE <1>0 DEF TypeOK, Move, Goto, Return, outcome, coverage, Gone, Rank
<1>1. CASE Backend(c)
  BY <1>1 DEF Client, Backend, DialIsDue
<1>2. CASE DialEnds(c)
  BY <1>2 DEF Client, DialEnds
<1>3. CASE Start(c) \/ GetChainID(c)
  BY <1>3 DEF Client, Start, GetChainID
<1>4. CASE ReadNonce(c)
  BY <1>4 DEF Client, ReadNonce
<1>5. CASE Cover(c)
  BY <1>5 DEF Client, Cover
<1>6. CASE Prepare(c) \/ CollectEvents(c)
  BY <1>6 DEF Client, Prepare, CollectEvents
<1>7. CASE SendAccepted(c) \/ SendRefused(c) \/ SendTimeout(c)
  BY <1>7 DEF Client, SendAccepted, SendRefused, SendTimeout, AfterConfirmation
<1>8. CASE AwaitTx(c) \/ AwaitTimeout(c)
  BY <1>8 DEF Client, AwaitTx, AwaitTimeout, AfterConfirmation
<1>9. CASE RevertReason(c) \/ ReasonDeadline(c) \/ RevertReasonPanics(c)
  BY <1>9 DEF Client, RevertReason, ReasonDeadline, RevertReasonPanics
<1>. QED BY <1>1, <1>2, <1>3, <1>4, <1>5, <1>6, <1>7, <1>8, <1>9 DEF Client, Bounded

\* A call moves by its own steps only, or goes with the process.
LEMMA MovesAlone ==
    ASSUME CInv, [CallNext]_allVars, NEW c \in Calls
    PROVE  /\ req' = req
           /\ \/ pc'[c] = pc[c] /\ at'[c] = at[c]
              \/ pc[c] # "done" /\ pc'[c] = "crashed" /\ at'[c] = at[c]
              \/ Inner(c) /\ Client(c)
              \/ Outer(c) \/ CallBegins(c)
<1>0. TypeOK /\ CallTypeOK
  BY DEF CInv, CallTypeOK
<1>1. ASSUME NEW d \in Calls, Inner(d), Client(d)
      PROVE  /\ req' = req /\ at' = at
             /\ d # c => pc'[c] = pc[c] \/ (pc[c] # "done" /\ pc'[c] = "crashed")
  <2>1. CASE RevertReasonPanics(d)
    BY <1>0, <1>1, <2>1 DEF RevertReasonPanics, Client, Inner, callVars, TypeOK
  <2>2. CASE ~RevertReasonPanics(d)
    BY <1>0, <1>1, <2>2, OthersUntouched DEF Client, Inner, callVars
  <2>. QED BY <2>1, <2>2
<1>2. ASSUME NEW d \in Calls, Outer(d) \/ CallBegins(d)
      PROVE  req' = req /\ pc' = pc /\ (d # c => at'[c] = at[c])
  BY <1>0, <1>2, StepsAside DEF Aside, CallTypeOK
<1>3. CASE CallNode \/ UNCHANGED allVars
  BY <1>3 DEF CallNode, Node, callVars, allVars, vars
<1>. QED BY <1>1, <1>2, <1>3 DEF CallNext, CallClient, CallTerminated

\* The client is dialed once.
LEMMA OnceMovesOn ==
    ASSUME CInv, [CallNext]_allVars
    PROVE  /\ once = "idle" => once' \in {"idle", "dialing"}
           /\ once = "dialing" => once' # "idle"
           /\ once \in {"up", "down"} => once' = once
<1>1. ASSUME NEW c \in Calls, Inner(c), Client(c)
      PROVE  \/ once' = once
             \/ once = "idle" /\ once' = "dialing"
             \/ once = "dialing" /\ once' \in {"up", "down"}
  BY <1>1, ClientMoves DEF CInv, CallTypeOK, DialerInv, Dials
<1>2. ASSUME NEW c \in Calls, Outer(c) \/ CallBegins(c)
      PROVE  \/ once' = once
             \/ once = "idle" /\ once' = "dialing"
             \/ once = "dialing" /\ once' \in {"up", "down"}
  BY <1>2 DEF Outer, CallBegins, CallStart, CallBackend, DialIsDue, CallDialEnds, CallChainID,
     CallCover, CallTxReturned, CallReceipt, CallValues, CallPlain, CInv, DialerInv, Dials
<1>3. CASE CallNode \/ UNCHANGED allVars
  BY <1>3 DEF CallNode, Node, callVars, allVars, vars
<1>. QED BY <1>1, <1>2, <1>3 DEF CallNext, CallClient, CallTerminated

\* Beside CInv: a Call has no deadline of the caller's within, and no Tx under way when it has
\* returned; a panic leaves nobody behind; and while the client is being dialed someone dials.
ProgressInv ==
    /\ \A c \in CallerDeadline : at[c] = "none"
    /\ \A c \in Calls : at[c] = "done" => pc[c] \in {"idle", "done", "crashed"}
    /\ ~Alive => \A c \in Calls : Gone(c)
    /\ once = "dialing" => ~Alive \/ \E d \in Calls : Dials(d)

\* Where the steps of a Call by itself lead
LEMMA OuterMoves ==
    ASSUME CInv, NEW c \in Calls, Outer(c) \/ CallBegins(c)
    PROVE  /\ Alive /\ at[c] \notin {"none", "done"} /\ at'[c] \notin {"none", "idle"}
           /\ at'[c] = "done" => pc[c] \in {"idle", "done", "crashed"}
           /\ at'[c] = "dialing" \/ once' \in {once, "up", "down"}
           /\ at[c] = "dialing" => once' \in {"up", "down"}
<1>0. CallTypeOK /\ OuterInv(c)
  BY DEF CInv
<1> USE <1>0 DEF CallTypeOK, OuterInv, Before, After, To, Answered
<1>1. CASE CallBegins(c)
  BY <1>1 DEF CallBegins, CallStart
<1>2. CASE Alive /\ (CallBackend(c) \/ CallDialEnds(c) \/ CallChainID(c))
  BY <1>2 DEF CallBackend, CallDialEnds, CallChainID
<1>3. CASE Alive /\ (CallCover(c) \/ CallTxReturned(c) \/ CallReceipt(c))
  BY <1>3 DEF CallCover, CallTxReturned, CallReceipt
<1>4. CASE Alive /\ (CallValues(c) \/ CallPlain(c))
  BY <1>4 DEF CallValues, CallPlain
<1>. QED BY <1>1, <1>2, <1>3, <1>4 DEF Outer

LEMMA ProgressInvariance == CallSpec => []ProgressInv
<1>1. CallInit => ProgressInv
  BY PipelineAssumption DEF CallInit, Init, ProgressInv, IsCall, Alive
<1>2. CInv /\ ProgressInv /\ [CallNext]_allVars => ProgressInv'
  <2> SUFFICES ASSUME CInv, ProgressInv, [CallNext]_allVars PROVE ProgressInv'
    OBVIOUS
  <2>0. TypeOK /\ CallTypeOK /\ CallerDeadline \subseteq Calls
    BY PipelineAssumption DEF CInv, CallTypeOK
  <2>1. CASE UNCHANGED <<pc, at, once>>
    BY <2>1 DEF ProgressInv, Alive, Gone, Dials
  <2>2. ASSUME NEW c \in Calls, Inner(c), Client(c) PROVE ProgressInv'
    <3>1. at' = at /\ at[c] \in {"none", "tx"} /\ ~Gone(c) /\ Alive
      BY <2>0, <2>2, ClientMoves DEF Inner, callVars, ProgressInv
    <3>2. \A d \in Calls : d # c => pc'[d] = pc[d] \/ (pc[d] # "done" /\ pc'[d] = "crashed")
      <4>1. CASE RevertReasonPanics(c)
        BY <2>0, <4>1 DEF RevertReasonPanics, TypeOK
      <4>2. CASE ~RevertReasonPanics(c)
        BY <2>0, <2>2, <4>2, OthersUntouched
      <4>. QED BY <4>1, <4>2
    <3>3. ~Alive' => \A d \in Calls : Gone(d)'
      <4>1. CASE RevertReasonPanics(c)
        BY <2>0, <4>1 DEF RevertReasonPanics, TypeOK, Gone
      <4>2. CASE ~RevertReasonPanics(c)
        <5>1. pc'[c] # "crashed"
          BY <2>0, <2>2, <4>2 DEF TypeOK, Client, Bounded, Start, Backend, DialEnds, GetChainID,
             ReadNonce, Cover, Prepare, SendAccepted, SendRefused, SendTimeout, AwaitTx,
             AwaitTimeout, RevertReason, ReasonDeadline, CollectEvents, Move, Goto, Return,
             AfterConfirmation
        <5>2. \A d \in Calls : d # c => pc'[d] = pc[d]
          BY <2>0, <2>2, <4>2, OthersUntouched
        <5>. QED BY <3>1, <5>1, <5>2 DEF Alive
      <4>. QED BY <4>1, <4>2
    <3>4. once' = "dialing" => ~Alive' \/ \E d \in Calls : Dials(d)'
      <4> SUFFICES ASSUME once' = "dialing", Alive' PROVE \E d \in Calls : Dials(d)'
        OBVIOUS
      <4>1. CASE once = "idle"
        BY <2>0, <2>2, <4>1, ClientMoves DEF Dials
      <4>2. CASE once # "idle"
        <5>1. once = "dialing" /\ ~(pc[c] = "dialing")
          BY <2>0, <2>2, <4>2, ClientMoves DEF Alive
        <5>2. PICK d \in Calls : Dials(d)
          BY <3>1, <5>1 DEF ProgressInv
        <5>. QED BY <3>1, <3>2, <5>1, <5>2 DEF Dials, Alive
      <4>. QED BY <4>1, <4>2
    <3>5. \A d \in Calls : at'[d] = "done" => pc'[d] \in {"idle", "done", "crashed"}
      BY <3>1, <3>2 DEF ProgressInv
    <3>. QED BY <3>1, <3>3, <3>4, <3>5 DEF ProgressInv
  <2>3. ASSUME NEW c \in Calls, Outer(c) \/ CallBegins(c) PROVE ProgressInv'
    <3>1. /\ pc' = pc /\ Alive /\ at[c] \notin {"none", "done"}
          /\ at' = [at EXCEPT ![c] = at'[c]]
          /\ at'[c] = "done" => pc[c] \in {"idle", "done", "crashed"}
      BY <2>3, StepsAside, OuterMoves DEF Aside
    <3>2. \A d \in Calls : d # c => at'[d] = at[d]
      BY <2>0, <3>1 DEF CallTypeOK
    <3>3. c \notin CallerDeadline
      BY <3>1 DEF ProgressInv
    <3>4. once' = "dialing" => \E d \in Calls : Dials(d)'
      <4> SUFFICES ASSUME once' = "dialing" PROVE \E d \in Calls : Dials(d)'
        OBVIOUS
      <4>1. CASE at'[c] = "dialing"
        BY <4>1 DEF Dials
      <4>2. CASE at'[c] # "dialing"
        <5>1. once = "dialing" /\ at[c] # "dialing"
          BY <2>3, <4>2, OuterMoves
        <5>2. PICK d \in Calls : Dials(d)
          BY <3>1, <5>1 DEF ProgressInv
        <5>. QED BY <3>1, <3>2, <5>1, <5>2 DEF Dials
      <4>. QED BY <4>1, <4>2
    <3>. QED BY <2>0, <3>1, <3>2, <3>3, <3>4 DEF ProgressInv, Alive, Gone
  <2>. QED BY <2>1, <2>2, <2>3 DEF CallNext, CallClient, CallTerminated, CallNode, Node, callVars,
              allVars, vars
<1>. QED BY <1>1, <1>2, CallInvariance, PTL DEF CallSpec

-----------------------------------------------------------------------------
(* From one place to the next                                              *)

InTx(c) == at[c] \in {"none", "tx"} /\ pc[c] # "idle"
Stuck(c) == pc[c] = "reason" /\ c \notin CallerDeadline
Ended(c) == InTx(c) /\ (Gone(c) \/ Stuck(c))

AtRank(c, n) == InTx(c) /\ ~Stuck(c) /\ Rank(c) = n
Below(c, n) == InTx(c) /\ (Stuck(c) \/ Rank(c) < n)
ComesBelow(c, n) == [](AtRank(c, n) => <>Below(c, n))

\* A Tx or a Deploy that has begun stays at its rank or comes below it.
LEMMA RankFalls ==
    ASSUME CInv, [CallNext]_allVars, NEW c \in Calls, NEW n \in 1..10, AtRank(c, n)
    PROVE  AtRank(c, n)' \/ Below(c, n)'
<1>0. TypeOK /\ at[c] \in {"none", "tx"} /\ ~Gone(c) /\ Rank(c) = n
  BY DEF CInv, CallTypeOK, AtRank, InTx, Gone, Rank
<1>1. CASE pc'[c] = pc[c] /\ at'[c] = at[c] /\ req' = req
  BY <1>1 DEF AtRank, InTx, Stuck, Rank
<1>2. CASE pc'[c] = "crashed" /\ at'[c] = at[c]
  BY <1>0, <1>2 DEF Below, InTx, Rank
<1>3. CASE Inner(c) /\ Client(c)
  <2>1. pc'[c] # "idle" /\ Rank(c)' < Rank(c)
    BY <1>0, <1>3, ClientMoves DEF AtRank, InTx
  <2>. QED BY <1>0, <1>3, <2>1 DEF Below, InTx, Inner, callVars
<1>4. CASE Outer(c) \/ CallBegins(c)
  BY <1>0, <1>4 DEF Gone, Outer, CallBegins, CallStart, CallBackend, CallDialEnds, CallChainID,
     CallCover, CallTxReturned, CallReceipt, CallValues, CallPlain
<1>. QED BY <1>1, <1>2, <1>3, <1>4, MovesAlone

\* A step of its own takes it below.
LEMMA OwnStepFalls ==
    ASSUME CInv, NEW c \in Calls, NEW n \in 1..10, AtRank(c, n), InnerBounded(c)
    PROVE  Below(c, n)'
<1>1. TypeOK /\ Client(c) /\ Inner(c) /\ pc[c] # "idle" /\ Rank(c) = n
  BY DEF CInv, CallTypeOK, InnerBounded, Client, AtRank, InTx
<1>2. pc'[c] # "idle" /\ Rank(c)' < n
  BY <1>1, ClientMoves
<1>. QED BY <1>1, <1>2 DEF Below, InTx, Inner, callVars

\* Past Backend it waits for nobody.
LEMMA Descent ==
    ASSUME NEW c \in Calls, NEW n \in 1..9
    PROVE  []CInv /\ [][CallNext]_allVars /\ []WaitsForDialerOnly /\ CallFairTo(c)
           => ComesBelow(c, n)
<1>1. CInv /\ [CallNext]_allVars /\ AtRank(c, n) => AtRank(c, n)' \/ Below(c, n)'
  BY RankFalls
<1>2. CInv /\ <<InnerBounded(c)>>_allVars /\ AtRank(c, n) => Below(c, n)'
  BY OwnStepFalls
<1>3. WaitsForDialerOnly /\ AtRank(c, n) => ENABLED <<InnerBounded(c)>>_allVars
  <2>1. AtRank(c, n) => /\ at[c] \in {"none", "tx"} /\ pc[c] \notin {"idle", "done", "crashed"}
                        /\ pc[c] # "backend" /\ (pc[c] = "reason" => c \in CallerDeadline)
    BY DEF AtRank, InTx, Stuck, Rank
  <2>. QED BY <2>1 DEF WaitsForDialerOnly
<1>. QED BY <1>1, <1>2, <1>3, PTL DEF CallFairTo, ComesBelow

-----------------------------------------------------------------------------
(* Backend: who waits in Once.Do waits for one goroutine, which comes back *)

Settled == once # "dialing" \/ ~Alive
DialsWithin(d) == pc[d] = "dialing" /\ Alive /\ once = "dialing"
DialsItself(d) == at[d] = "dialing" /\ Alive /\ once = "dialing"
DialSettles(d) == [](Dials(d) => <>Settled)

LEMMA DialerReturns ==
    ASSUME NEW c \in Calls
    PROVE  []CInv /\ []ProgressInv /\ [][CallNext]_allVars /\ []WaitsForDialerOnly /\ CallFairTo(c)
           => DialSettles(c)
<1>1. CInv /\ [CallNext]_allVars /\ DialsWithin(c) => DialsWithin(c)' \/ Settled'
  <2> SUFFICES ASSUME CInv, [CallNext]_allVars, DialsWithin(c), once' = "dialing", Alive'
               PROVE  pc'[c] = "dialing"
    BY DEF DialsWithin, Settled
  <2>1. ~(Inner(c) /\ Client(c))
    BY ClientMoves DEF CInv, CallTypeOK, DialsWithin, Alive
  <2>2. pc'[c] = pc[c] \/ pc'[c] = "crashed"
    BY <2>1, MovesAlone DEF Outer, CallBegins
  <2>. QED BY <2>2 DEF DialsWithin, Alive
<1>2. CInv /\ <<InnerBounded(c)>>_allVars /\ DialsWithin(c) => Settled'
  BY ClientMoves DEF CInv, CallTypeOK, DialsWithin, Settled, InnerBounded, Client, Alive
<1>3. CInv /\ ProgressInv /\ WaitsForDialerOnly /\ DialsWithin(c) => ENABLED <<InnerBounded(c)>>_allVars
  <2>1. CInv /\ ProgressInv /\ DialsWithin(c)
        => /\ at[c] \in {"none", "tx"} /\ pc[c] \notin {"idle", "done", "crashed"}
           /\ pc[c] # "backend" /\ pc[c] # "reason"
    BY DEF CInv, CallTypeOK, Places, OuterInv, Before, After, ProgressInv, DialsWithin
  <2>. QED BY <2>1 DEF WaitsForDialerOnly
<1>4. CInv /\ [CallNext]_allVars /\ DialsItself(c) => DialsItself(c)' \/ Settled'
  <2> SUFFICES ASSUME CInv, [CallNext]_allVars, DialsItself(c), once' = "dialing", Alive'
               PROVE  at'[c] = "dialing"
    BY DEF DialsItself, Settled
  <2>1. ~Outer(c) /\ ~CallBegins(c)
    BY OuterMoves DEF DialsItself
  <2>. QED BY <2>1, MovesAlone DEF DialsItself, Inner
<1>5. CInv /\ <<Outer(c)>>_allVars /\ DialsItself(c) => Settled'
  BY OuterMoves DEF DialsItself, Settled
<1>6. WaitsForDialerOnly /\ DialsItself(c) => ENABLED <<Outer(c)>>_allVars
  <2>1. DialsItself(c) => /\ Alive /\ at[c] \notin {"none", "idle", "done"}
                          /\ at[c] # "backend" /\ at[c] # "tx"
    BY DEF DialsItself
  <2>. QED BY <2>1 DEF WaitsForDialerOnly
<1>7. Dials(c) => DialsWithin(c) \/ DialsItself(c) \/ Settled
  BY DEF Dials, DialsWithin, DialsItself, Settled
<1>. QED BY <1>1, <1>2, <1>3, <1>4, <1>5, <1>6, <1>7, PTL DEF CallFairTo, DialSettles

\* Whoever dials.
LEMMA DialOver ==
    []CInv /\ []ProgressInv /\ [][CallNext]_allVars /\ []WaitsForDialerOnly /\ CallFairness
    => [](once = "dialing" => <>Settled)
<1>1. ASSUME NEW d \in Calls
      PROVE  []CInv /\ []ProgressInv /\ [][CallNext]_allVars /\ []WaitsForDialerOnly /\ CallFairness
             => [](Dials(d) => <>Settled)
  <2>1. CallFairness => CallFairTo(d)
    BY DEF CallFairness
  <2>2. []CInv /\ []ProgressInv /\ [][CallNext]_allVars /\ []WaitsForDialerOnly /\ CallFairTo(d)
        => DialSettles(d)
    BY DialerReturns
  <2>. QED BY <2>1, <2>2, PTL DEF DialSettles
<1>2. []CInv /\ []ProgressInv /\ [][CallNext]_allVars /\ []WaitsForDialerOnly /\ CallFairness
      => [](\A d \in Calls : (Dials(d) => <>Settled))
  BY <1>1
<1>3. (\A d \in Calls : (Dials(d) => <>Settled)) => ((\E d \in Calls : Dials(d)) => <>Settled)
  OBVIOUS
<1>4. ProgressInv /\ once = "dialing" => Settled \/ \E d \in Calls : Dials(d)
  BY DEF ProgressInv, Settled
<1>. QED BY <1>2, <1>3, <1>4, PTL

\* Three times at most does it look where the client is: before, during and after the dialing.
AtIdle(c) == AtRank(c, 10) /\ once = "idle"
AtWait(c) == AtRank(c, 10) /\ once = "dialing"
AtOpen(c) == AtRank(c, 10) /\ once \in {"up", "down"}

LEMMA PastBackend ==
    ASSUME NEW c \in Calls
    PROVE  []CInv /\ []ProgressInv /\ [][CallNext]_allVars /\ []WaitsForDialerOnly /\ CallFairness
           => ComesBelow(c, 10)
<1>1. CInv /\ [CallNext]_allVars /\ AtIdle(c) => AtIdle(c)' \/ AtWait(c)' \/ Below(c, 10)'
  BY RankFalls, OnceMovesOn DEF AtIdle, AtWait
<1>2. CInv /\ [CallNext]_allVars /\ AtWait(c) => AtWait(c)' \/ AtOpen(c)' \/ Below(c, 10)'
  <2>1. CInv /\ [CallNext]_allVars => CInv'
    BY CInvKept
  <2>. QED BY <2>1, RankFalls, OnceMovesOn DEF AtWait, AtOpen, CInv, CallTypeOK, TypeOK
<1>3. CInv /\ [CallNext]_allVars /\ AtOpen(c) => AtOpen(c)' \/ Below(c, 10)'
  BY RankFalls, OnceMovesOn DEF AtOpen
<1>4. CInv /\ <<InnerBounded(c)>>_allVars /\ (AtIdle(c) \/ AtOpen(c)) => Below(c, 10)'
  BY OwnStepFalls DEF AtIdle, AtOpen
<1>5. WaitsForDialerOnly /\ (AtIdle(c) \/ AtOpen(c)) => ENABLED <<InnerBounded(c)>>_allVars
  <2>1. AtIdle(c) \/ AtOpen(c) => /\ at[c] \in {"none", "tx"} /\ pc[c] \notin {"idle", "done", "crashed"}
                                  /\ pc[c] # "reason" /\ once # "dialing"
    BY DEF AtIdle, AtOpen, AtRank, InTx, Rank
  <2>. QED BY <2>1 DEF WaitsForDialerOnly
<1>6. ProgressInv /\ AtWait(c) => ~Settled /\ once = "dialing"
  BY DEF AtWait, AtRank, Rank, ProgressInv, Settled, Gone
<1>7. CInv /\ AtRank(c, 10) => AtIdle(c) \/ AtWait(c) \/ AtOpen(c)
  BY DEF AtIdle, AtWait, AtOpen, CInv, CallTypeOK, TypeOK
<1>8. CallFairness => CallFairTo(c)
  BY DEF CallFairness
<1>. QED BY <1>1, <1>2, <1>3, <1>4, <1>5, <1>6, <1>7, <1>8, DialOver, PTL DEF CallFairTo, ComesBelow

\* A Tx or a Deploy that has begun comes back, or is stuck in the search for a reason.
TxEnds(c) == [](InTx(c) => <>Ended(c))

LEMMA EveryTxEnds ==
    ASSUME NEW c \in Calls
    PROVE  []CInv /\ []ProgressInv /\ [][CallNext]_allVars /\ []WaitsForDialerOnly /\ CallFairness
           => TxEnds(c)
<1>1. []CInv /\ []ProgressInv /\ [][CallNext]_allVars /\ []WaitsForDialerOnly /\ CallFairness
      => ComesBelow(c, 10)
  BY PastBackend
<1>2. ASSUME NEW n \in 1..9
      PROVE  []CInv /\ []ProgressInv /\ [][CallNext]_allVars /\ []WaitsForDialerOnly /\ CallFairness
             => ComesBelow(c, n)
  <2>1. CallFairness => CallFairTo(c)
    BY DEF CallFairness
  <2>2. []CInv /\ [][CallNext]_allVars /\ []WaitsForDialerOnly /\ CallFairTo(c) => ComesBelow(c, n)
    BY Descent
  <2>. QED BY <2>1, <2>2
<1>3. []CInv /\ []ProgressInv /\ [][CallNext]_allVars /\ []WaitsForDialerOnly /\ CallFairness
      => /\ ComesBelow(c, 1) /\ ComesBelow(c, 2) /\ ComesBelow(c, 3)
         /\ ComesBelow(c, 4) /\ ComesBelow(c, 5) /\ ComesBelow(c, 6)
         /\ ComesBelow(c, 7) /\ ComesBelow(c, 8) /\ ComesBelow(c, 9)
  BY <1>2
<1>4. ASSUME NEW n \in 1..9 PROVE CInv /\ Below(c, n + 1) => AtRank(c, n) \/ Below(c, n)
  <2>1. Rank(c) \in Nat
    BY DEF Rank
  <2>. QED BY <2>1 DEF Below, AtRank
<1>5. /\ CInv /\ Below(c, 10) => AtRank(c, 9) \/ Below(c, 9)
      /\ CInv /\ Below(c, 9) => AtRank(c, 8) \/ Below(c, 8)
      /\ CInv /\ Below(c, 8) => AtRank(c, 7) \/ Below(c, 7)
      /\ CInv /\ Below(c, 7) => AtRank(c, 6) \/ Below(c, 6)
      /\ CInv /\ Below(c, 6) => AtRank(c, 5) \/ Below(c, 5)
      /\ CInv /\ Below(c, 5) => AtRank(c, 4) \/ Below(c, 4)
      /\ CInv /\ Below(c, 4) => AtRank(c, 3) \/ Below(c, 3)
      /\ CInv /\ Below(c, 3) => AtRank(c, 2) \/ Below(c, 2)
      /\ CInv /\ Below(c, 2) => AtRank(c, 1) \/ Below(c, 1)
  BY <1>4, 9 + 1 = 10, 8 + 1 = 9, 7 + 1 = 8, 6 + 1 = 7, 5 + 1 = 6, 4 + 1 = 5, 3 + 1 = 4,
     2 + 1 = 3, 1 + 1 = 2
<1>6. CInv /\ InTx(c) => AtRank(c, 10) \/ Below(c, 10)
  BY DEF InTx, AtRank, Below, Rank
<1>7. CInv /\ Below(c, 1) => Ended(c)
  BY DEF Below, Ended, Rank, InTx, Gone, CInv, CallTypeOK, TypeOK, Locations
<1>. QED BY <1>1, <1>3, <1>5, <1>6, <1>7, PTL DEF ComesBelow, TxEnds

\* Under a caller's deadline a Tx or a Deploy that has its contract comes back, whatever the
\* node, the other calls and the goroutine that dials do.
THEOREM EveryCallComesBack == FairCallSpec /\ []WaitsForDialerOnly => EveryCallReturns
<1>1. ASSUME NEW c \in CallerDeadline
      PROVE  FairCallSpec /\ []WaitsForDialerOnly
             => [](pc[c] = "backend" => <>(pc[c] \in {"done", "crashed"}))
  <2>1. c \in Calls
    BY PipelineAssumption
  <2>2. []CInv /\ []ProgressInv /\ [][CallNext]_allVars /\ []WaitsForDialerOnly /\ CallFairness
        => TxEnds(c)
    BY <2>1, EveryTxEnds
  <2>3. ProgressInv /\ pc[c] = "backend" => InTx(c)
    BY DEF ProgressInv, InTx
  <2>4. Ended(c) => pc[c] \in {"done", "crashed"}
    BY DEF Ended, Stuck, Gone
  <2>. QED BY <2>2, <2>3, <2>4, CallInvariance, ProgressInvariance, PTL DEF FairCallSpec, CallSpec, TxEnds
<1>2. FairCallSpec /\ []WaitsForDialerOnly
      => \A c \in CallerDeadline : [](pc[c] = "backend" => <>(pc[c] \in {"done", "crashed"}))
  BY <1>1
<1>. QED BY <1>2, PTL DEF EveryCallReturns

-----------------------------------------------------------------------------
(* The same for a Call, around its Tx                                      *)

OuterRank(c) ==
    CASE at[c] = "backend" -> 8
      [] at[c] = "dialing" -> 7
      [] at[c] = "chain"   -> 6
      [] at[c] = "cover"   -> 5
      [] at[c] = "tx"      -> 4
      [] at[c] = "receipt" -> 3
      [] at[c] = "values"  -> 2
      [] at[c] = "plain"   -> 1
      [] OTHER             -> 0

InCall(c) == at[c] \notin {"none", "idle"}
Over(c) == InCall(c) /\ (at[c] = "done" \/ HeldUp(c) \/ ~Alive)
AtOuter(c, n) == InCall(c) /\ ~Over(c) /\ OuterRank(c) = n
BelowOuter(c, n) == InCall(c) /\ (Over(c) \/ OuterRank(c) < n)
OuterComesBelow(c, n) == [](AtOuter(c, n) => <>BelowOuter(c, n))

\* Every step of a Call by itself takes it on.
LEMMA OuterStepFalls ==
    ASSUME CInv, NEW c \in Calls, NEW n \in 1..8, AtOuter(c, n), Outer(c)
    PROVE  BelowOuter(c, n)'
<1> USE DEF CInv, CallTypeOK, AtOuter, BelowOuter, InCall, OuterRank, To, Answered
<1>1. CASE CallBackend(c) \/ CallDialEnds(c) \/ CallChainID(c)
  BY <1>1 DEF CallBackend, CallDialEnds, CallChainID
<1>2. CASE CallCover(c) \/ CallTxReturned(c) \/ CallReceipt(c)
  BY <1>2 DEF CallCover, CallTxReturned, CallReceipt
<1>3. CASE CallValues(c) \/ CallPlain(c)
  BY <1>3 DEF CallValues, CallPlain
<1>. QED BY <1>1, <1>2, <1>3 DEF Outer

LEMMA OuterFalls ==
    ASSUME CInv, [CallNext]_allVars, NEW c \in Calls, NEW n \in 1..8, AtOuter(c, n)
    PROVE  AtOuter(c, n)' \/ BelowOuter(c, n)'
<1>1. CASE at'[c] = at[c]
  BY <1>1 DEF AtOuter, BelowOuter, InCall, OuterRank
<1>2. CASE Outer(c)
  BY <1>2, OuterStepFalls
<1>3. ~CallBegins(c)
  BY DEF CallBegins, CallStart, AtOuter, InCall
<1>. QED BY <1>1, <1>2, <1>3, MovesAlone DEF Inner, callVars

\* Where it waits for an answer there is a deadline.
LEMMA OuterDescent ==
    ASSUME NEW c \in Calls, NEW n \in {1, 2, 3, 5, 6, 7}
    PROVE  []CInv /\ [][CallNext]_allVars /\ []WaitsForDialerOnly /\ CallFairTo(c)
           => OuterComesBelow(c, n)
<1>1. CInv /\ [CallNext]_allVars /\ AtOuter(c, n) => AtOuter(c, n)' \/ BelowOuter(c, n)'
  BY OuterFalls
<1>2. CInv /\ <<Outer(c)>>_allVars /\ AtOuter(c, n) => BelowOuter(c, n)'
  BY OuterStepFalls
<1>3. WaitsForDialerOnly /\ AtOuter(c, n) => ENABLED <<Outer(c)>>_allVars
  <2>1. AtOuter(c, n) => /\ Alive /\ at[c] \notin {"none", "idle", "done"}
                         /\ at[c] # "backend" /\ at[c] # "tx"
    BY DEF AtOuter, InCall, Over, OuterRank
  <2>. QED BY <2>1 DEF WaitsForDialerOnly
<1>. QED BY <1>1, <1>2, <1>3, PTL DEF CallFairTo, OuterComesBelow

\* Its Tx comes back, or holds it up.
TxBack(c) == AtOuter(c, 4) /\ pc[c] = "done"

LEMMA PastTx ==
    ASSUME NEW c \in Calls
    PROVE  []CInv /\ [][CallNext]_allVars /\ []WaitsForDialerOnly /\ CallFairTo(c) /\ TxEnds(c)
           => OuterComesBelow(c, 4)
<1>1. CInv /\ [CallNext]_allVars /\ AtOuter(c, 4) => AtOuter(c, 4)' \/ BelowOuter(c, 4)'
  BY OuterFalls
<1>2. CInv /\ [CallNext]_allVars /\ TxBack(c) => TxBack(c)' \/ BelowOuter(c, 4)'
  <2> SUFFICES ASSUME CInv, [CallNext]_allVars, TxBack(c), ~BelowOuter(c, 4)'
               PROVE  TxBack(c)'
    OBVIOUS
  <2>1. ~Outer(c) /\ ~CallBegins(c)
    BY OuterStepFalls DEF TxBack, CallBegins, CallStart, AtOuter, InCall
  <2>2. ~Client(c)
    BY ClientMoves DEF TxBack, Gone, CInv, CallTypeOK
  <2>3. pc'[c] = "done"
    BY <2>1, <2>2, MovesAlone DEF TxBack
  <2>. QED BY <1>1, <2>3 DEF TxBack
<1>3. CInv /\ <<Outer(c)>>_allVars /\ TxBack(c) => BelowOuter(c, 4)'
  BY OuterStepFalls DEF TxBack
<1>4. WaitsForDialerOnly /\ TxBack(c) => ENABLED <<Outer(c)>>_allVars
  <2>1. TxBack(c) => /\ Alive /\ at[c] \notin {"none", "idle", "done"}
                     /\ at[c] # "backend" /\ pc[c] = "done"
    BY DEF TxBack, AtOuter, InCall, Over, OuterRank
  <2>. QED BY <2>1 DEF WaitsForDialerOnly
<1>5. AtOuter(c, 4) => InTx(c)
  BY DEF AtOuter, InCall, OuterRank, Over, HeldUp, InTx
<1>6. Ended(c) /\ AtOuter(c, 4) => TxBack(c)
  BY DEF Ended, TxBack, Gone, Stuck, AtOuter, InCall, OuterRank, Over, HeldUp, Alive
<1>. QED BY <1>1, <1>2, <1>3, <1>4, <1>5, <1>6, PTL DEF CallFairTo, OuterComesBelow, TxEnds

\* Backend, as for a Tx.
OuterIdle(c) == AtOuter(c, 8) /\ once = "idle"
OuterWait(c) == AtOuter(c, 8) /\ once = "dialing"
OuterOpen(c) == AtOuter(c, 8) /\ once \in {"up", "down"}

LEMMA OuterPastBackend ==
    ASSUME NEW c \in Calls
    PROVE  []CInv /\ []ProgressInv /\ [][CallNext]_allVars /\ []WaitsForDialerOnly /\ CallFairness
           => OuterComesBelow(c, 8)
<1>1. CInv /\ [CallNext]_allVars /\ OuterIdle(c)
      => OuterIdle(c)' \/ OuterWait(c)' \/ BelowOuter(c, 8)'
  BY OuterFalls, OnceMovesOn DEF OuterIdle, OuterWait
<1>2. CInv /\ [CallNext]_allVars /\ OuterWait(c)
      => OuterWait(c)' \/ OuterOpen(c)' \/ BelowOuter(c, 8)'
  BY CInvKept, OuterFalls, OnceMovesOn DEF OuterWait, OuterOpen, CInv, CallTypeOK, TypeOK
<1>3. CInv /\ [CallNext]_allVars /\ OuterOpen(c) => OuterOpen(c)' \/ BelowOuter(c, 8)'
  BY OuterFalls, OnceMovesOn DEF OuterOpen
<1>4. CInv /\ <<Outer(c)>>_allVars /\ (OuterIdle(c) \/ OuterOpen(c)) => BelowOuter(c, 8)'
  BY OuterStepFalls DEF OuterIdle, OuterOpen
<1>5. WaitsForDialerOnly /\ (OuterIdle(c) \/ OuterOpen(c)) => ENABLED <<Outer(c)>>_allVars
  <2>1. OuterIdle(c) \/ OuterOpen(c) => /\ Alive /\ at[c] \notin {"none", "idle", "done"}
                                        /\ once # "dialing" /\ at[c] # "tx"
    BY DEF OuterIdle, OuterOpen, AtOuter, InCall, Over, OuterRank
  <2>. QED BY <2>1 DEF WaitsForDialerOnly
<1>6. OuterWait(c) => ~Settled /\ once = "dialing"
  BY DEF OuterWait, AtOuter, Over, Settled
<1>7. CInv /\ AtOuter(c, 8) => OuterIdle(c) \/ OuterWait(c) \/ OuterOpen(c)
  BY DEF OuterIdle, OuterWait, OuterOpen, CInv, CallTypeOK, TypeOK
<1>8. CallFairness => CallFairTo(c)
  BY DEF CallFairness
<1>. QED BY <1>1, <1>2, <1>3, <1>4, <1>5, <1>6, <1>7, <1>8, DialOver, PTL DEF CallFairTo, OuterComesBelow

\* A Call that has its contract comes back, is held up within its Tx by the compiler or by the
\* search for a reason, or goes with the process.
THEOREM CallComesBack == FairCallSpec /\ []WaitsForDialerOnly => CallReturns
<1>1. ASSUME NEW c \in Calls
      PROVE  FairCallSpec /\ []WaitsForDialerOnly
             => [](at[c] \notin {"none", "idle", "done"} => <>(at[c] = "done" \/ HeldUp(c) \/ ~Alive))
  <2>1. CallFairness => CallFairTo(c)
    BY DEF CallFairness
  <2>2. []CInv /\ []ProgressInv /\ [][CallNext]_allVars /\ []WaitsForDialerOnly /\ CallFairness
        => TxEnds(c)
    BY EveryTxEnds
  <2>3. []CInv /\ [][CallNext]_allVars /\ []WaitsForDialerOnly /\ CallFairTo(c) /\ TxEnds(c)
        => OuterComesBelow(c, 4)
    BY PastTx
  <2>4. []CInv /\ []ProgressInv /\ [][CallNext]_allVars /\ []WaitsForDialerOnly /\ CallFairness
        => OuterComesBelow(c, 8)
    BY OuterPastBackend
  <2>5. []CInv /\ [][CallNext]_allVars /\ []WaitsForDialerOnly /\ CallFairTo(c)
        => /\ OuterComesBelow(c, 1) /\ OuterComesBelow(c, 2) /\ OuterComesBelow(c, 3)
           /\ OuterComesBelow(c, 5) /\ OuterComesBelow(c, 6) /\ OuterComesBelow(c, 7)
    BY OuterDescent
  <2>6. ASSUME NEW n \in 1..7 PROVE BelowOuter(c, n + 1) => AtOuter(c, n) \/ BelowOuter(c, n)
    <3>1. OuterRank(c) \in Nat
      BY DEF OuterRank
    <3>. QED BY <3>1 DEF BelowOuter, AtOuter
  <2>7. /\ BelowOuter(c, 8) => AtOuter(c, 7) \/ BelowOuter(c, 7)
        /\ BelowOuter(c, 7) => AtOuter(c, 6) \/ BelowOuter(c, 6)
        /\ BelowOuter(c, 6) => AtOuter(c, 5) \/ BelowOuter(c, 5)
        /\ BelowOuter(c, 5) => AtOuter(c, 4) \/ BelowOuter(c, 4)
        /\ BelowOuter(c, 4) => AtOuter(c, 3) \/ BelowOuter(c, 3)
        /\ BelowOuter(c, 3) => AtOuter(c, 2) \/ BelowOuter(c, 2)
        /\ BelowOuter(c, 2) => AtOuter(c, 1) \/ BelowOuter(c, 1)
    BY <2>6, 7 + 1 = 8, 6 + 1 = 7, 5 + 1 = 6, 4 + 1 = 5, 3 + 1 = 4, 2 + 1 = 3, 1 + 1 = 2
  <2>8. CInv /\ at[c] \notin {"none", "idle", "done"} => AtOuter(c, 8) \/ BelowOuter(c, 8)
    BY DEF InCall, AtOuter, BelowOuter, OuterRank
  <2>9. CInv /\ BelowOuter(c, 1) => at[c] = "done" \/ HeldUp(c) \/ ~Alive
    BY DEF BelowOuter, InCall, Over, OuterRank, CInv, CallTypeOK, Places
  <2>. QED BY <2>1, <2>2, <2>3, <2>4, <2>5, <2>7, <2>8, <2>9, CallInvariance, ProgressInvariance, PTL
       DEF FairCallSpec, CallSpec, OuterComesBelow
<1>2. FairCallSpec /\ []WaitsForDialerOnly
      => \A c \in Calls : [](at[c] \notin {"none", "idle", "done"}
                             => <>(at[c] = "done" \/ HeldUp(c) \/ ~Alive))
  BY <1>1
<1>. QED BY <1>2, PTL DEF CallReturns

=============================================================================
