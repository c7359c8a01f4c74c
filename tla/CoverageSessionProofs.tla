----------------------- MODULE CoverageSessionProofs -----------------------
(* Theorems about CoverageSession, for any number of calls and any marks.  *)
EXTENDS CoverageSession, CoverageCollectorProofs

AnyLog == [kind: {"marker", "event"}, src: Spot]

\* What a call may be told of an execution of k.
Receipt(k) == UNION {Told(r) : r \in Runs[k]}

\* It is what an execution can be, and its marks are the contract's.
LEMMA ReceiptShape ==
    ASSUME NEW k \in SessionContracts, NEW r \in Receipt(k)
    PROVE  /\ r \in Outcome(k) /\ r # None /\ r.logs \in Seq(AnyLog)
           /\ r.end # "revert" => r.tag = <<>>
           /\ r.tag = <<>> \/ \E s \in k.spots : r.tag = <<s>>
           /\ \A i \in DOMAIN r.logs : IsCoverage(k, r.logs[i]) => r.logs[i].src \in k.spots
<1>1. PICK q \in Runs[k] : r \in Told(q)
  BY DEF Receipt
<1>2. /\ q \in Outcome(k)
      /\ q.end # "revert" => q.tag = <<>>
      /\ \A i \in DOMAIN q.logs : IsCoverage(k, q.logs[i]) => q.logs[i].src \in k.spots
  BY SessionAssumption
<1>3. r = q \/ r = [q EXCEPT !.tag = <<>>]
  BY <1>1 DEF Told
<1>4. r \in Outcome(k) /\ r.logs = q.logs /\ r.end = q.end /\ r.tag \in {q.tag, <<>>}
  BY <1>2, <1>3 DEF Outcome
<1>5. None \notin Outcome(k)
  BY SessionAssumption
<1>. QED
  BY <1>2, <1>4, <1>5 DEF Outcome, AnyLog

-----------------------------------------------------------------------------
(* The shape of a session: where a call is depends on what it has.         *)

Places == {"load", "add", "run", "tag", "collect", "receipt", "done"}

Errs == {"nil", "ErrCall", "ErrTransactionReverted", "ErrEventNotFound", "ErrEventParse"}

Got(c) == IF got[c] = None THEN "nothing" ELSE IF got[c].end = "revert" THEN "revert" ELSE "logs"

\* What a call has when it comes to a step
Flow(c) ==
    /\ got[c] # None => got[c] \in Receipt(order[c].contract)
    /\ ran[c] # None => ran[c] \in Runs[order[c].contract]
    /\ at[c] = "run" => order[c].op # "logs"
    /\ at[c] \in {"run", "add", "receipt"} => Got(c) = "nothing"
    /\ at[c] = "load" => Got(c) = "nothing" \/ (Got(c) = "revert" /\ order[c].op = "deploy")
    /\ at[c] = "tag" => Got(c) = "revert"
    /\ at[c] = "collect" => Got(c) = "logs"
    /\ saw[c] => Known(order[c].contract.name)
    /\ err[c] # "nil" => at[c] = "done"

Domains ==
    /\ order \in [Calls -> Orders]
    /\ at \in [Calls -> Places]
    /\ next \in [Calls -> Nat \ {0}]
    /\ saw \in [Calls -> BOOLEAN]
    /\ DOMAIN ran = Calls /\ DOMAIN got = Calls /\ DOMAIN whose = Calls
    /\ events \in [Calls -> Seq(AnyLog)]
    /\ err \in [Calls -> Errs]

Shape == Domains /\ \A c \in Calls : Flow(c)

Step(c) == Load(c) \/ Add(c) \/ Execute(c) \/ CollectTag(c) \/ Fetch(c) \/ CollectLog(c)

LEMMA ContractOf ==
    ASSUME Domains, NEW c \in Calls
    PROVE  /\ order[c].contract \in SessionContracts /\ order[c].contract \in Contracts
           /\ order[c].contract.name \in Names
           /\ order[c].op \in {"tx", "deploy", "logs"}
  BY SessionAssumption DEF Domains, SessionContracts, Names

\* A step of a call is one of the collector's, or leaves the collector alone.
LEMMA CollectorStep ==
    ASSUME Shape, NEW c \in Calls, Step(c)
    PROVE  [Next]_vars
<1> DEFINE k == order[c].contract
<1>1. k \in SessionContracts /\ k \in Contracts
  BY ContractOf DEF Shape
<1>2. ASSUME NEW s \in k.spots, CollectIfKnown(k, s) PROVE [Next]_vars
  BY <1>1, <1>2 DEF CollectIfKnown, Next
<1>3. CASE Load(c)
  BY <1>1, <1>3 DEF Load, Next
<1>4. CASE Add(c)
  <2>1. CASE next[c] > Len(Listed[k])
    BY <1>4, <2>1 DEF Add
  <2>2. CASE ~(next[c] > Len(Listed[k]))
    <3>1. Listed[k] \in Seq(k.spots) /\ next[c] \in Nat \ {0}
      BY <1>1, SessionAssumption DEF Shape, Domains
    <3>2. Listed[k][next[c]] \in k.spots
      BY <2>2, <3>1
    <3>3. UNCHANGED vars \/ AddStatement(k, Listed[k][next[c]])
      BY <1>4, <2>2 DEF Add
    <3>. QED
      BY <1>1, <3>2, <3>3 DEF Next
  <2>. QED
    BY <2>1, <2>2
<1>5. CASE Execute(c) \/ Fetch(c)
  BY <1>5 DEF Execute, Fetch
<1>6. CASE CollectTag(c)
  <2>1. CASE got[c].tag = <<>>
    BY <1>6, <2>1 DEF CollectTag
  <2>2. CASE got[c].tag # <<>>
    <3>1. got[c] \in Receipt(k)
      BY <1>6 DEF CollectTag, Shape, Flow, Got
    <3>2. PICK s \in k.spots : got[c].tag = <<s>>
      BY <1>1, <2>2, <3>1, ReceiptShape
    <3>3. CollectIfKnown(k, s)
      BY <1>6, <2>2, <3>2 DEF CollectTag
    <3>. QED
      BY <1>2, <3>3
  <2>. QED
    BY <2>1, <2>2
<1>7. CASE CollectLog(c)
  <2> DEFINE log == got[c].logs[next[c]]
  <2>1. CASE UNCHANGED vars
    BY <2>1
  <2>2. CASE next[c] <= Len(got[c].logs) /\ IsCoverage(k, log) /\ CollectIfKnown(k, log.src)
    <3>1. got[c] \in Receipt(k) /\ next[c] \in Nat \ {0}
      BY <1>7 DEF CollectLog, Shape, Flow, Got, Domains
    <3>2. got[c].logs \in Seq(AnyLog)
      BY <1>1, <3>1, ReceiptShape
    <3>3. next[c] \in DOMAIN got[c].logs
      BY <2>2, <3>1, <3>2
    <3>4. log.src \in k.spots
      BY <1>1, <2>2, <3>1, <3>3, ReceiptShape
    <3>. QED
      BY <1>2, <2>2, <3>4
  <2>. QED
    BY <1>7, <2>1, <2>2 DEF CollectLog
<1>. QED
  BY <1>3, <1>4, <1>5, <1>6, <1>7 DEF Step

\* What is known of a name are the sources of its contract, and stays known.
Reading == paths \in [Names -> {k.paths : k \in Contracts} \union {None}] /\ Sources

LEMMA KnownStays ==
    ASSUME Reading, [Next]_vars
    PROVE  Reading' /\ \A n \in Names : Known(n) => Known(n)'
<1>1. CASE UNCHANGED paths
  BY <1>1 DEF Reading, Sources, Known
<1>2. ASSUME NEW k \in Contracts, LoadContract(k)
      PROVE  Reading' /\ \A n \in Names : Known(n) => Known(n)'
  <2>1. k.name \in Names
    BY DEF Names
  <2>2. \A u \in SUBSET DOMAIN Text : ReadInto(k.paths, u) \in {k.paths, None}
    BY DEF ReadInto
  <2>3. PICK r \in {k.paths, None} : paths' = [paths EXCEPT ![k.name] = r]
    BY <1>2, <2>2 DEF LoadContract
  <2>4. ~Known(k.name)
    BY <1>2 DEF LoadContract
  <2>5. \A n \in Names : n # k.name => paths'[n] = paths[n]
    BY <2>3 DEF Reading
  <2>6. Reading'
    BY <2>1, <2>3, <2>5 DEF Reading, Sources
  <2>. QED
    BY <2>4, <2>5, <2>6 DEF Known
<1>3. UNCHANGED paths \/ \E k \in Contracts : LoadContract(k)
  BY DEF Next, vars, AddStatement, Collect, Crash
<1>. QED
  BY <1>1, <1>2, <1>3

\* A step of c changes nothing that other calls have.
Same(d) == /\ at'[d] = at[d] /\ next'[d] = next[d] /\ saw'[d] = saw[d]
           /\ ran'[d] = ran[d] /\ got'[d] = got[d] /\ whose'[d] = whose[d]
           /\ events'[d] = events[d] /\ err'[d] = err[d]
Only(c) == \A d \in Calls \ {c} : Same(d)

LEMMA OnlyOne ==
    ASSUME Domains, NEW c \in Calls, Step(c)
    PROVE  order' = order /\ Only(c)
<1>1. ASSUME NEW l, Goto(c, l) PROVE \A d \in Calls \ {c} : at'[d] = at[d] /\ next'[d] = next[d]
  BY <1>1 DEF Goto, Domains
<1>2. ASSUME Stay(c) PROVE \A d \in Calls \ {c} : at'[d] = at[d] /\ next'[d] = next[d]
  BY <1>2 DEF Stay, Domains
<1>3. ASSUME NEW e, Fails(c, e)
      PROVE  \A d \in Calls \ {c} : /\ at'[d] = at[d] /\ next'[d] = next[d]
                                    /\ events'[d] = events[d] /\ err'[d] = err[d]
  BY <1>1, <1>3 DEF Fails, Domains
<1>4. CASE Load(c)
  BY <1>1, <1>3, <1>4 DEF Load, evm, Domains, Only, Same
<1>5. CASE Add(c)
  BY <1>1, <1>2, <1>5 DEF Add, evm, Domains, Only, Same
<1>6. CASE Execute(c)
  BY <1>1, <1>6 DEF Execute, Hears, evm, Domains, Only, Same
<1>7. CASE CollectTag(c)
  BY <1>1, <1>7 DEF CollectTag, evm, Domains, Only, Same
<1>8. CASE Fetch(c)
  BY <1>1, <1>3, <1>8 DEF Fetch, evm, Domains, Only, Same
<1>9. CASE CollectLog(c)
  <2>1. ASSUME NEW log, Return(c, log) PROVE order' = order /\ Only(c)
    <3>1. \A d \in Calls \ {c} : /\ at'[d] = at[d] /\ next'[d] = next[d]
                                 /\ events'[d] = events[d] /\ err'[d] = err[d]
      BY <1>2, <1>3, <2>1 DEF Return, Domains
    <3>2. UNCHANGED <<order, saw, ran, got, whose>>
      BY <1>9 DEF CollectLog, evm
    <3>. QED
      BY <3>1, <3>2 DEF Only, Same
  <2>2. CASE Goto(c, "done") /\ UNCHANGED <<events, err>>
    BY <1>1, <1>9, <2>2 DEF CollectLog, evm, Only, Same
  <2>3. CASE Stay(c) /\ UNCHANGED <<events, err>>
    BY <1>2, <1>9, <2>3 DEF CollectLog, evm, Only, Same
  <2>. QED
    BY <1>9, <2>1, <2>2, <2>3 DEF CollectLog
<1>. QED
  BY <1>4, <1>5, <1>6, <1>7, <1>8, <1>9 DEF Step

\* Another call's step leaves a call as it is.
LEMMA Elsewhere ==
    ASSUME Shape, Reading, [Next]_vars, order' = order,
           NEW c \in Calls, Only(c), NEW d \in Calls \ {c}
    PROVE  Flow(d)'
<1>1. Known(order[d].contract.name) => Known(order[d].contract.name)'
  BY KnownStays, ContractOf DEF Shape
<1>2. /\ Flow(d)
      /\ at'[d] = at[d] /\ saw'[d] = saw[d] /\ err'[d] = err[d]
      /\ ran'[d] = ran[d] /\ got'[d] = got[d]
  BY DEF Shape, Only, Same
<1>. QED
  BY <1>1, <1>2 DEF Flow, Got

\* What a step makes of the call itself
LEMMA LoadShape ==
    ASSUME Shape, Reading, [Next]_vars, NEW c \in Calls, Load(c)
    PROVE  Domains' /\ Flow(c)'
<1> DEFINE l == IF got[c] = None THEN "add" ELSE "tag"
           known == paths'[order[c].contract.name] # None
<1>1. /\ Domains /\ Flow(c) /\ at[c] = "load"
      /\ UNCHANGED <<order, ran, got, whose>>
  BY DEF Shape, Load, evm
<1>2. Known(order[c].contract.name) => Known(order[c].contract.name)'
  BY <1>1, KnownStays, ContractOf
<1>3. CASE got[c] = None /\ Fails(c, "ErrCall") /\ UNCHANGED saw
  <2>1. Domains' /\ at'[c] = "done"
    BY <1>1, <1>3 DEF Domains, Fails, Goto, Places, Errs
  <2>. QED
    BY <1>1, <1>2, <1>3, <2>1 DEF Flow, Got
<1>4. CASE Goto(c, l) /\ saw' = [saw EXCEPT ![c] = known] /\ UNCHANGED <<events, err>>
  <2>1. l \in Places /\ known \in BOOLEAN
    BY DEF Places
  <2>2. Domains'
    BY <1>1, <1>4, <2>1 DEF Domains, Goto
  <2>3. at'[c] = l /\ saw'[c] = known
    BY <1>1, <1>4 DEF Domains, Goto
  <2>4. known <=> Known(order[c].contract.name)'
    BY <1>1 DEF Known
  <2>5. Flow(c)'
    BY <1>1, <1>4, <2>3, <2>4 DEF Flow, Got
  <2>. QED
    BY <2>2, <2>5
<1>. QED
  BY <1>3, <1>4 DEF Load

LEMMA AddShape ==
    ASSUME Shape, Reading, [Next]_vars, NEW c \in Calls, Add(c)
    PROVE  Domains' /\ Flow(c)'
<1>1. /\ Domains /\ Flow(c) /\ at[c] = "add" /\ order[c].op \in {"tx", "deploy", "logs"}
      /\ UNCHANGED <<order, saw, ran, got, whose, events, err>>
  BY ContractOf DEF Shape, Add, evm
<1>2. Known(order[c].contract.name) => Known(order[c].contract.name)'
  BY <1>1, KnownStays, ContractOf
<1>3. CASE Goto(c, Added(c))
  <2>1. Added(c) = IF order[c].op = "tx" THEN "run" ELSE "receipt"
    BY DEF Added
  <2>2. Added(c) \in {"run", "receipt"}
    BY <2>1
  <2>3. Domains' /\ at'[c] = Added(c)
    BY <1>1, <1>3, <2>2 DEF Domains, Goto, Places
  <2>4. Flow(c)'
    BY <1>1, <1>2, <2>1, <2>3 DEF Flow, Got
  <2>. QED
    BY <2>3, <2>4
<1>4. CASE Stay(c)
  <2>1. Domains' /\ at' = at
    BY <1>1, <1>4 DEF Domains, Stay
  <2>. QED
    BY <1>1, <1>2, <2>1 DEF Flow, Got
<1>. QED
  BY <1>3, <1>4 DEF Add

LEMMA ExecuteShape ==
    ASSUME Shape, NEW c \in Calls, Execute(c)
    PROVE  Domains' /\ Flow(c)'
<1>1. /\ Domains /\ Flow(c) /\ at[c] = "run" /\ Got(c) = "nothing"
      /\ order[c].op \in {"tx", "deploy"} /\ order[c].contract \in SessionContracts
      /\ UNCHANGED <<vars, order, saw, events, err>>
  BY ContractOf DEF Shape, Execute, Flow
<1>2. Known(order[c].contract.name) <=> Known(order[c].contract.name)'
  BY <1>1 DEF Known, vars
<1>3. CASE Goto(c, "done") /\ UNCHANGED evm
  <2>1. Domains' /\ at'[c] = "done" /\ UNCHANGED <<ran, got, whose>>
    BY <1>1, <1>3 DEF Domains, Goto, Places, evm
  <2>. QED
    BY <1>1, <1>2, <1>3, <2>1 DEF Flow, Got
<1> DEFINE Learns(r) ==
                \/ Goto(c, "done") /\ UNCHANGED <<got, whose>>
                \/ (order[c].op = "tx" \/ r.end = "revert") /\ Hears(c, r)
                \/ order[c].op = "deploy" /\ Goto(c, "load") /\ UNCHANGED <<got, whose>>
<1>4. ASSUME NEW r \in Runs[order[c].contract], ran' = [ran EXCEPT ![c] = r], Learns(r)
      PROVE  Domains' /\ Flow(c)'
  <2>1. ran'[c] = r /\ DOMAIN ran' = Calls
    BY <1>1, <1>4 DEF Domains
  <2>2. CASE Goto(c, "done") /\ UNCHANGED <<got, whose>>
    <3>1. Domains' /\ at'[c] = "done"
      BY <1>1, <2>1, <2>2 DEF Domains, Goto, Places
    <3>. QED
      BY <1>1, <1>2, <1>4, <2>1, <2>2, <3>1 DEF Flow, Got
  <2>3. CASE Goto(c, "load") /\ order[c].op = "deploy" /\ UNCHANGED <<got, whose>>
    <3>1. Domains' /\ at'[c] = "load"
      BY <1>1, <2>1, <2>3 DEF Domains, Goto, Places
    <3>. QED
      BY <1>1, <1>2, <1>4, <2>1, <2>3, <3>1 DEF Flow, Got
  <2>4. ASSUME order[c].op = "tx" \/ r.end = "revert", NEW told \in Told(r), Goto(c, Sent(c, told)),
               got' = [got EXCEPT ![c] = told], whose' = [whose EXCEPT ![c] = c]
        PROVE  Domains' /\ Flow(c)'
    <3>1. told \in Receipt(order[c].contract)
      BY <1>4, <2>4 DEF Receipt
    <3>2. told # None
      BY <1>1, <3>1, ReceiptShape
    <3>3. Sent(c, told) = IF order[c].op = "deploy" THEN IF told.tag = <<>> THEN "done" ELSE "load"
                          ELSE IF told.end = "revert" THEN "tag" ELSE "collect"
      BY <1>1, <2>4 DEF Sent, Told
    <3>4. Domains' /\ at'[c] = Sent(c, told) /\ got'[c] = told
      BY <1>1, <2>1, <2>4, <3>3 DEF Domains, Goto, Places
    <3>5. order[c].op = "deploy" => told.end = "revert"
      BY <1>1, <1>4, <2>4, SessionAssumption DEF Told, Outcome
    <3>. QED
      BY <1>1, <1>2, <1>4, <2>1, <3>1, <3>2, <3>3, <3>4, <3>5 DEF Flow, Got
  <2>. QED
    BY <1>4, <2>2, <2>3, <2>4 DEF Hears
<1>. QED
  BY <1>3, <1>4 DEF Execute

LEMMA TagShape ==
    ASSUME Shape, Reading, [Next]_vars, NEW c \in Calls, CollectTag(c)
    PROVE  Domains' /\ Flow(c)'
<1>1. /\ Domains /\ Flow(c) /\ at[c] = "tag"
      /\ Goto(c, "done") /\ UNCHANGED <<order, saw, ran, got, whose, events, err>>
  BY DEF Shape, CollectTag, evm
<1>2. Known(order[c].contract.name) => Known(order[c].contract.name)'
  BY <1>1, KnownStays, ContractOf
<1>3. Domains' /\ at'[c] = "done"
  BY <1>1 DEF Domains, Goto, Places
<1>. QED
  BY <1>1, <1>2, <1>3 DEF Flow, Got

LEMMA FetchShape ==
    ASSUME Shape, NEW c \in Calls, Fetch(c)
    PROVE  Domains' /\ Flow(c)'
<1>1. /\ Domains /\ Flow(c) /\ at[c] = "receipt"
      /\ UNCHANGED <<vars, order, saw>>
  BY DEF Shape, Fetch
<1>2. Known(order[c].contract.name) <=> Known(order[c].contract.name)'
  BY <1>1 DEF Known, vars
<1>3. ASSUME NEW e \in Errs, Fails(c, e), UNCHANGED evm
      PROVE  Domains' /\ Flow(c)'
  <2>1. Domains' /\ at'[c] = "done" /\ UNCHANGED <<ran, got, whose>>
    BY <1>1, <1>3 DEF Domains, Fails, Goto, Places, evm
  <2>. QED
    BY <1>1, <1>2, <1>3, <2>1 DEF Flow, Got
<1>4. ASSUME NEW d \in Calls, ran[d] # None, order[d].contract = order[c].contract,
             ran[d].end # "revert", got' = [got EXCEPT ![c] = ran[d]],
             whose' = [whose EXCEPT ![c] = d],
             Goto(c, "collect"), UNCHANGED <<ran, events, err>>
      PROVE  Domains' /\ Flow(c)'
  <2>1. ran[d] \in Receipt(order[c].contract)
    BY <1>4 DEF Shape, Flow, Receipt, Told
  <2>2. Domains' /\ at'[c] = "collect" /\ got'[c] = ran[d]
    BY <1>1, <1>4 DEF Domains, Goto, Places
  <2>. QED
    BY <1>1, <1>2, <1>4, <2>1, <2>2 DEF Flow, Got
<1>5. \A d \in Subjects(c) : d \in Calls /\ order[d].contract = order[c].contract
  BY DEF Subjects
<1>. QED
  BY <1>3, <1>4, <1>5 DEF Fetch, Errs

\* The log that a call is at
LEMMA LogAt ==
    ASSUME Shape, NEW c \in Calls, at[c] = "collect", next[c] <= Len(got[c].logs)
    PROVE  /\ next[c] \in DOMAIN got[c].logs /\ got[c].logs[next[c]] \in AnyLog
           /\ got[c] \in Receipt(order[c].contract)
<1>1. got[c] \in Receipt(order[c].contract) /\ next[c] \in Nat \ {0}
  BY DEF Shape, Domains, Flow, Got
<1>2. got[c].logs \in Seq(AnyLog)
  BY <1>1, ReceiptShape, ContractOf DEF Shape
<1>. QED
  BY <1>1, <1>2

LEMMA LogShape ==
    ASSUME Shape, Reading, [Next]_vars, NEW c \in Calls, CollectLog(c)
    PROVE  Domains' /\ Flow(c)'
<1> DEFINE log == got[c].logs[next[c]]
<1>1. /\ Domains /\ Flow(c) /\ at[c] = "collect"
      /\ UNCHANGED <<order, saw, ran, got, whose>>
  BY DEF Shape, CollectLog, evm
<1>2. Known(order[c].contract.name) => Known(order[c].contract.name)'
  BY <1>1, KnownStays, ContractOf
<1>3. CASE Goto(c, "done") /\ UNCHANGED <<events, err>>
  <2>1. Domains' /\ at'[c] = "done"
    BY <1>1, <1>3 DEF Domains, Goto, Places
  <2>. QED
    BY <1>1, <1>2, <1>3, <2>1 DEF Flow, Got
<1>4. ASSUME Stay(c), UNCHANGED err, events' \in [Calls -> Seq(AnyLog)]
      PROVE  Domains' /\ Flow(c)'
  <2>1. Domains' /\ at' = at
    BY <1>1, <1>4 DEF Domains, Stay
  <2>. QED
    BY <1>1, <1>2, <1>4, <2>1 DEF Flow, Got
<1>5. ASSUME NEW e \in Errs, Fails(c, e)
      PROVE  Domains' /\ Flow(c)'
  <2>1. Domains' /\ at'[c] = "done"
    BY <1>1, <1>5 DEF Domains, Fails, Goto, Places
  <2>. QED
    BY <1>1, <1>2, <1>5, <2>1 DEF Flow, Got
<1>6. CASE Stay(c) /\ UNCHANGED <<events, err>>
  BY <1>1, <1>4, <1>6 DEF Domains
<1>7. CASE next[c] <= Len(got[c].logs) /\ Return(c, log)
  <2>1. log \in AnyLog
    BY <1>1, <1>7, LogAt
  <2>2. [events EXCEPT ![c] = Append(events[c], log)] \in [Calls -> Seq(AnyLog)]
    BY <1>1, <2>1 DEF Domains
  <2>3. "ErrEventNotFound" \in Errs /\ "ErrEventParse" \in Errs
    BY DEF Errs
  <2>. QED
    BY <1>4, <1>5, <1>6, <1>7, <2>2, <2>3 DEF Return
<1>. QED
  BY <1>3, <1>6, <1>7 DEF CollectLog

\* A session keeps its shape, and does with the collector what the collector allows.
LEMMA ShapeInit == ASSUME SessionInit PROVE Shape /\ Reading
<1>1. Domains
  BY DEF SessionInit, Domains, Places, Errs
<1>2. ASSUME NEW c \in Calls PROVE Flow(c)
  <2>1. /\ at[c] = IF order[c].op = "deploy" THEN "run" ELSE "load"
        /\ ran[c] = None /\ got[c] = None /\ saw[c] = FALSE /\ err[c] = "nil"
    BY DEF SessionInit
  <2>. QED
    BY <2>1 DEF Flow, Got
<1>3. Reading
  BY DEF SessionInit, Init, Reading, Sources
<1>. QED
  BY <1>1, <1>2, <1>3 DEF Shape

LEMMA ShapeStep ==
    ASSUME Shape, Reading, NEW c \in Calls, Step(c)
    PROVE  Shape' /\ Reading' /\ [Next]_vars /\ order' = order /\ Only(c)
<1>1. [Next]_vars /\ order' = order /\ Only(c)
  BY CollectorStep, OnlyOne DEF Shape
<1>2. Domains' /\ Flow(c)'
  BY <1>1, LoadShape, AddShape, ExecuteShape, TagShape, FetchShape, LogShape DEF Step
<1>3. \A d \in Calls : Flow(d)'
  BY <1>1, <1>2, Elsewhere
<1>4. Reading'
  BY <1>1, KnownStays
<1>. QED
  BY <1>1, <1>2, <1>3, <1>4 DEF Shape

LEMMA ShapeStays ==
    ASSUME Shape, Reading, [SessionNext]_allVars
    PROVE  Shape' /\ Reading' /\ [Next]_vars
<1>1. CASE UNCHANGED allVars
  BY <1>1 DEF allVars, sessionVars, evm, vars, Shape, Reading, Domains, Flow, Got, Known, Sources
<1>2. ASSUME NEW c \in Calls, Step(c) PROVE Shape' /\ Reading' /\ [Next]_vars
  BY <1>2, ShapeStep
<1>. QED
  BY <1>1, <1>2 DEF SessionNext, Ended, Step

THEOREM ShapeOfSession == SessionSpec => [](Shape /\ Reading)
  BY ShapeInit, ShapeStays, PTL DEF SessionSpec

\* The collector in a session does what the collector's specification says: an open one, which
\* promises no progress (coverage.go is called by deployer_tx.go, deployer.go, deployer_logs.go).
THEOREM SessionImplements == SessionSpec => Spec
<1>1. SessionInit => Init
  BY DEF SessionInit
<1>2. Shape /\ Reading /\ [SessionNext]_allVars => [Next]_vars
  BY ShapeStays
<1>. QED
  BY <1>1, <1>2, ShapeOfSession, PTL DEF SessionSpec, Spec

-----------------------------------------------------------------------------
(* Pairs of a member of a set and one of its own set                       *)

Pairs(S, g) == UNION {{x} \X g[x] : x \in S}

LEMMA PairIn ==
    ASSUME NEW S, NEW g
    PROVE  /\ \A z : z \in Pairs(S, g) <=> \E x \in S : \E y \in g[x] : z = <<x, y>>
           /\ \A x, y : <<x, y>> \in Pairs(S, g) <=> x \in S /\ y \in g[x]
  BY DEF Pairs

LEMMA PairsFinite ==
    ASSUME NEW S, NEW g, IsFiniteSet(S), \A x \in S : IsFiniteSet(g[x])
    PROVE  IsFiniteSet(Pairs(S, g))
<1> DEFINE f == [x \in S |-> {x} \X g[x]]
           T == {f[x] : x \in S}
<1>1. f \in Surjection(S, T)
  BY DEF Surjection
<1>2. IsFiniteSet(T)
  BY <1>1, FS_Surjection
<1>3. ASSUME NEW x \in S PROVE IsFiniteSet(f[x])
  <2>1. IsFiniteSet({x})
    BY FS_Singleton
  <2>2. IsFiniteSet({x} \X g[x])
    BY <2>1, FS_Product
  <2>. QED
    BY <2>2
<1>4. \A U \in T : IsFiniteSet(U)
  BY <1>3
<1>5. UNION T = Pairs(S, g)
  BY DEF Pairs
<1> HIDE DEF T
<1>6. IsFiniteSet(UNION T)
  BY <1>2, <1>4, FS_UNION
<1>. QED
  BY <1>5, <1>6

\* There are as many pairs if the sets are of one size.
LEMMA PairsAsMany ==
    ASSUME NEW S, NEW g, NEW h, IsFiniteSet(S),
           \A x \in S : /\ IsFiniteSet(g[x]) /\ IsFiniteSet(h[x])
                        /\ Cardinality(g[x]) = Cardinality(h[x])
    PROVE  Cardinality(Pairs(S, g)) = Cardinality(Pairs(S, h))
<1> DEFINE b(x) == CHOOSE f : f \in Bijection(g[x], h[x])
           F == [z \in Pairs(S, g) |-> <<z[1], b(z[1])[z[2]]>>]
<1>1. ASSUME NEW x \in S PROVE b(x) \in Bijection(g[x], h[x])
  <2>1. ExistsBijection(g[x], h[x])
    BY FS_SameCardinalityBij
  <2>. QED
    BY <2>1 DEF ExistsBijection
<1>2. ASSUME NEW x \in S
      PROVE  /\ b(x) \in [g[x] -> h[x]]
             /\ \A y, z \in g[x] : b(x)[y] = b(x)[z] => y = z
             /\ \A w \in h[x] : \E y \in g[x] : b(x)[y] = w
  BY <1>1 DEF Bijection, Injection, Surjection, IsInjective
<1> HIDE DEF b
<1>3. \A x, y : <<x, y>> \in Pairs(S, g) => F[<<x, y>>] = <<x, b(x)[y]>>
  OBVIOUS
<1>4. F \in [Pairs(S, g) -> Pairs(S, h)]
  <2>1. ASSUME NEW z \in Pairs(S, g) PROVE <<z[1], b(z[1])[z[2]]>> \in Pairs(S, h)
    <3>1. PICK x, y : x \in S /\ y \in g[x] /\ z = <<x, y>>
      BY PairIn
    <3>2. b(x)[y] \in h[x]
      BY <1>2, <3>1
    <3>3. <<x, b(x)[y]>> \in Pairs(S, h)
      BY <3>1, <3>2, PairIn
    <3>4. z[1] = x /\ z[2] = y
      BY <3>1
    <3>. QED
      BY <3>3, <3>4
  <2>. QED
    BY <2>1
<1>5. ASSUME NEW z \in Pairs(S, g), NEW w \in Pairs(S, g), F[z] = F[w] PROVE z = w
  <2>1. PICK x, y : x \in S /\ y \in g[x] /\ z = <<x, y>>
    BY PairIn
  <2>2. PICK u, v : u \in S /\ v \in g[u] /\ w = <<u, v>>
    BY PairIn
  <2>3. F[z] = <<x, b(x)[y]>> /\ F[w] = <<u, b(u)[v]>>
    BY <1>3, <2>1, <2>2
  <2>4. x = u /\ b(x)[y] = b(u)[v]
    BY <1>5, <2>3
  <2>. QED
    BY <1>2, <2>1, <2>2, <2>4
<1>6. ASSUME NEW w \in Pairs(S, h) PROVE \E z \in Pairs(S, g) : F[z] = w
  <2>1. PICK x, v : x \in S /\ v \in h[x] /\ w = <<x, v>>
    BY PairIn
  <2>2. PICK y \in g[x] : b(x)[y] = v
    BY <1>2, <2>1
  <2>3. <<x, y>> \in Pairs(S, g)
    BY <2>1, <2>2, PairIn
  <2>. QED
    BY <1>3, <2>1, <2>2, <2>3
<1>7. DOMAIN F = Pairs(S, g)
  OBVIOUS
<1> HIDE DEF F
<1>8. F \in Bijection(Pairs(S, g), Pairs(S, h))
  BY <1>4, <1>5, <1>6, <1>7 DEF Bijection, Injection, Surjection, IsInjective
<1>9. IsFiniteSet(Pairs(S, g))
  BY PairsFinite
<1>. QED
  BY <1>8, <1>9, FS_Bijection DEF ExistsBijection

-----------------------------------------------------------------------------
(* The counts of executions: at each step, what has been heard about a     *)
(* statement is no more than what the calls have come past of it in their  *)
(* receipts, and no less than what those have that had the sources.        *)

Marks(k) == {p \in k.spots : ~Negative(p)}

Passed(c, p) ==
    {i \in Emits(order[c].contract, p, got[c]) :
        got[c] # None /\ at[c] \in {"collect", "done"} /\ (at[c] = "collect" => i < next[c])}

Heeded(c) == saw[c] /\ err[c] = "nil"

PassedBy(p) == [c \in Calls |-> Passed(c, p)]
Possible(k, p) == Pairs({c \in Calls : order[c].contract = k}, PassedBy(p))
Sure(k, p) == Pairs({c \in Calls : order[c].contract = k /\ Heeded(c)}, PassedBy(p))

Tally ==
    \A k \in SessionContracts : \A p \in Marks(k) :
        Cardinality(Sure(k, p)) <= Times(k.name, p) /\ Times(k.name, p) <= Cardinality(Possible(k, p))

LEMMA EmitsShape ==
    ASSUME NEW k \in SessionContracts, NEW r \in Receipt(k), NEW p
    PROVE  /\ IsFiniteSet(Emits(k, p, r)) /\ Emits(k, p, r) \subseteq Nat
           /\ r.end # "revert" => Emits(k, p, r) \subseteq 1..Len(r.logs)
           /\ r.end = "revert" => Emits(k, p, r) = IF r.tag = <<p>> THEN {0} ELSE {}
<1>1. r.logs \in Seq(AnyLog) /\ (r.end # "revert" => r.tag = <<>>)
  BY ReceiptShape
<1>2. DOMAIN r.logs = 1..Len(r.logs) /\ Len(r.logs) \in Nat
  BY <1>1
<1>3. <<p>> # <<>>
  OBVIOUS
<1>4. Emits(k, p, r) \subseteq 0..Len(r.logs)
  BY <1>2 DEF Emits
<1>5. IsFiniteSet(0..Len(r.logs))
  BY <1>2, FS_Interval
<1>6. IsFiniteSet(Emits(k, p, r))
  BY <1>4, <1>5, FS_Subset
<1>7. Emits(k, p, r) \subseteq Nat
  BY <1>2, <1>4
<1>8. r.end # "revert" => Emits(k, p, r) \subseteq 1..Len(r.logs)
  BY <1>1, <1>2, <1>3 DEF Emits
<1>9. r.end = "revert" => Emits(k, p, r) = IF r.tag = <<p>> THEN {0} ELSE {}
  BY DEF Emits
<1>. QED
  BY <1>6, <1>7, <1>8, <1>9

LEMMA PassedShape ==
    ASSUME Shape, NEW c \in Calls, NEW p
    PROVE  /\ IsFiniteSet(Passed(c, p)) /\ Passed(c, p) \subseteq Nat
           /\ got[c] = None \/ at[c] \notin {"collect", "done"} => Passed(c, p) = {}
<1>1. CASE got[c] = None
  <2>1. Passed(c, p) = {}
    BY <1>1 DEF Passed
  <2>. QED
    BY <2>1, FS_EmptySet
<1>2. CASE got[c] # None
  <2>1. order[c].contract \in SessionContracts /\ got[c] \in Receipt(order[c].contract)
    BY <1>2, ContractOf DEF Shape, Flow
  <2>2. Passed(c, p) \subseteq Emits(order[c].contract, p, got[c])
    BY DEF Passed
  <2>3. at[c] \notin {"collect", "done"} => Passed(c, p) = {}
    BY DEF Passed
  <2>. QED
    BY <1>2, <2>1, <2>2, <2>3, EmitsShape, FS_Subset
<1>. QED
  BY <1>1, <1>2

PairsOf(k, p) ==
    /\ IsFiniteSet(Possible(k, p)) /\ IsFiniteSet(Sure(k, p))
    /\ \A c, i : /\ <<c, i>> \in Possible(k, p)
                    <=> c \in Calls /\ order[c].contract = k /\ i \in Passed(c, p)
                 /\ <<c, i>> \in Sure(k, p)
                    <=> c \in Calls /\ order[c].contract = k /\ Heeded(c) /\ i \in Passed(c, p)
    /\ \A z \in Possible(k, p) \union Sure(k, p) : \E c, i : z = <<c, i>>

LEMMA TallyIsFinite == Shape => \A k, p : PairsOf(k, p)
<1> SUFFICES ASSUME Shape, NEW k, NEW p PROVE PairsOf(k, p)
  OBVIOUS
<1> DEFINE A == {c \in Calls : order[c].contract = k}
           B == {c \in Calls : order[c].contract = k /\ Heeded(c)}
<1>1. IsFiniteSet(A) /\ IsFiniteSet(B)
  BY SessionAssumption, FS_Subset
<1>2. \A c \in Calls : PassedBy(p)[c] = Passed(c, p) /\ IsFiniteSet(PassedBy(p)[c])
  BY PassedShape DEF PassedBy
<1>3. IsFiniteSet(Pairs(A, PassedBy(p))) /\ IsFiniteSet(Pairs(B, PassedBy(p)))
  BY <1>1, <1>2, PairsFinite
<1>4. /\ \A z : z \in Possible(k, p) <=> \E c \in A : \E i \in Passed(c, p) : z = <<c, i>>
      /\ \A z : z \in Sure(k, p) <=> \E c \in B : \E i \in Passed(c, p) : z = <<c, i>>
  BY <1>2, PairIn DEF Possible, Sure
<1>. QED
  BY <1>3, <1>4 DEF Possible, Sure, PairsOf

\* A step that tells the collector nothing and one that does, as the counts see them
Quiet(c) ==
    /\ heard' = heard
    /\ \A p \in Marks(order[c].contract) :
          /\ Passed(c, p) \subseteq Passed(c, p)'
          /\ \A i \in Passed(c, p)' : Heeded(c)' => i \in Passed(c, p) /\ Heeded(c)

Loud(c) ==
    LET k == order[c].contract IN
    \E s \in Marks(k), i \in Nat :
        /\ heard' = [heard EXCEPT ![k.name] = Append(heard[k.name], s)]
        /\ i \notin Passed(c, s) /\ Passed(c, s)' = Passed(c, s) \union {i}
        /\ \A p \in Marks(k) \ {s} : Passed(c, p)' = Passed(c, p)
        /\ Heeded(c)' = Heeded(c)

LEMMA OthersPassed ==
    ASSUME order' = order, NEW c, Only(c), NEW d \in Calls \ {c}, NEW p
    PROVE  Passed(d, p)' = Passed(d, p) /\ Heeded(d)' = Heeded(d)
  BY DEF Only, Same, Passed, Heeded, Emits, IsCoverage

LEMMA PairsHold == Shape' => (\A k, p : PairsOf(k, p))'
  BY TallyIsFinite, PTL

LEMMA TimesIsNumber ==
    ASSUME RInv, NEW k \in SessionContracts, NEW p
    PROVE  k.name \in Names /\ heard[k.name] \in Seq(Spot) /\ Times(k.name, p) \in Nat
<1>1. k.name \in Names
  BY SessionAssumption DEF Names
<1>2. heard[k.name] \in Seq(Spot)
  BY <1>1 DEF RInv
<1>3. CountOf(heard[k.name], p) \in Nat
  <2>1. [start |-> 0, len |-> 0, file |-> 0] \in Spot
    BY DEF Spot
  <2>. QED
    BY <1>2, <2>1, CountOfAppend
<1>. QED
  BY <1>1, <1>2, <1>3 DEF CountOf, Times

LEMMA QuietTally ==
    ASSUME RInv, Shape, Shape', Tally, order' = order, NEW c \in Calls, Only(c), Quiet(c)
    PROVE  Tally'
<1> SUFFICES ASSUME NEW k \in SessionContracts, NEW p \in Marks(k)
             PROVE  /\ Cardinality(Sure(k, p))' <= Times(k.name, p)'
                    /\ Times(k.name, p)' <= Cardinality(Possible(k, p))'
  BY DEF Tally
<1>1. Times(k.name, p)' = Times(k.name, p)
  BY DEF Quiet, Times
<1>2. ASSUME NEW d \in Calls, order[d].contract = k
      PROVE  /\ Passed(d, p) \subseteq Passed(d, p)'
             /\ \A i \in Passed(d, p)' : Heeded(d)' => i \in Passed(d, p) /\ Heeded(d)
  <2>1. CASE d = c
    BY <1>2, <2>1 DEF Quiet
  <2>2. CASE d # c
    <3>1. Passed(d, p)' = Passed(d, p) /\ Heeded(d)' = Heeded(d)
      BY <2>2, OthersPassed
    <3>. QED
      BY <3>1
  <2>. QED
    BY <2>1, <2>2
<1>3. PairsOf(k, p) /\ PairsOf(k, p)'
  BY TallyIsFinite, PairsHold
<1>4. Possible(k, p) \subseteq Possible(k, p)'
  <2> SUFFICES ASSUME NEW d, NEW i, <<d, i>> \in Possible(k, p) PROVE <<d, i>> \in Possible(k, p)'
    BY <1>3 DEF PairsOf
  <2>. QED
    BY <1>2, <1>3 DEF PairsOf
<1>5. Sure(k, p)' \subseteq Sure(k, p)
  <2> SUFFICES ASSUME NEW d, NEW i, <<d, i>> \in Sure(k, p)' PROVE <<d, i>> \in Sure(k, p)
    BY <1>3 DEF PairsOf
  <2>. QED
    BY <1>2, <1>3 DEF PairsOf
<1>6. /\ Cardinality(Possible(k, p)) \in Nat /\ Cardinality(Possible(k, p))' \in Nat
      /\ Cardinality(Sure(k, p)) \in Nat /\ Cardinality(Sure(k, p))' \in Nat
      /\ Cardinality(Possible(k, p)) <= Cardinality(Possible(k, p))'
      /\ Cardinality(Sure(k, p))' <= Cardinality(Sure(k, p))
  BY <1>3, <1>4, <1>5, FS_Subset, FS_CardinalityType DEF PairsOf
<1>7. Cardinality(Sure(k, p)) <= Times(k.name, p) /\ Times(k.name, p) <= Cardinality(Possible(k, p))
  BY DEF Tally
<1>8. Times(k.name, p) \in Nat
  BY TimesIsNumber
<1>. QED
  BY <1>1, <1>6, <1>7, <1>8

LEMMA LoudTally ==
    ASSUME Compiled, RInv, Shape, Shape', Tally, order' = order, NEW c \in Calls, Only(c), Loud(c)
    PROVE  Tally'
<1> DEFINE own == order[c].contract
<1>1. PICK s \in Marks(own), n \in Nat :
          /\ heard' = [heard EXCEPT ![own.name] = Append(heard[own.name], s)]
          /\ n \notin Passed(c, s) /\ Passed(c, s)' = Passed(c, s) \union {n}
          /\ \A p \in Marks(own) \ {s} : Passed(c, p)' = Passed(c, p)
          /\ Heeded(c)' = Heeded(c)
  BY DEF Loud
<1>2. own \in SessionContracts /\ own \in Contracts
  BY ContractOf DEF Shape
<1>3. s \in Spot
  BY <1>2, CollectorAssumption DEF Marks, Contract
<1> HIDE DEF own
<1> SUFFICES ASSUME NEW k \in SessionContracts, NEW p \in Marks(k)
             PROVE  /\ Cardinality(Sure(k, p))' <= Times(k.name, p)'
                    /\ Times(k.name, p)' <= Cardinality(Possible(k, p))'
  BY DEF Tally
<1>4. PairsOf(k, p) /\ PairsOf(k, p)'
  BY TallyIsFinite, PairsHold
<1>5. /\ Cardinality(Sure(k, p)) <= Times(k.name, p) /\ Times(k.name, p) <= Cardinality(Possible(k, p))
      /\ Times(k.name, p) \in Nat
  BY TimesIsNumber DEF Tally
<1>6. k \in Contracts /\ k.name \in Names /\ own.name \in Names
  BY <1>2, SessionAssumption DEF Names
<1>7. order[c].contract = own
  BY DEF own
<1>8. ASSUME NEW d \in Calls, d # c
      PROVE  Passed(d, p)' = Passed(d, p) /\ Heeded(d)' = Heeded(d)
  BY <1>8, OthersPassed
<1>9. CASE k = own /\ p = s
  <2>1. Times(k.name, p)' = Times(k.name, p) + 1
    <3>1. heard[k.name] \in Seq(Spot) /\ heard'[k.name] = Append(heard[k.name], s)
      BY <1>1, <1>6, <1>9 DEF RInv
    <3>2. CountOf(Append(heard[k.name], s), p) = CountOf(heard[k.name], p) + 1
      BY <1>3, <1>9, <3>1, CountOfAppend
    <3>. QED
      BY <3>1, <3>2 DEF CountOf, Times
  <2>2. Possible(k, p)' = Possible(k, p) \union {<<c, n>>} /\ <<c, n>> \notin Possible(k, p)
    <3>1. ASSUME NEW d, NEW i
          PROVE  <<d, i>> \in Possible(k, p)' <=> <<d, i>> \in Possible(k, p) \/ <<d, i>> = <<c, n>>
      <4>1. CASE d = c
        BY <1>1, <1>4, <1>7, <1>9, <4>1 DEF PairsOf
      <4>2. CASE d # c
        BY <1>4, <1>8, <4>2 DEF PairsOf
      <4>. QED
        BY <4>1, <4>2
    <3>2. <<c, n>> \notin Possible(k, p)
      BY <1>1, <1>4, <1>9 DEF PairsOf
    <3>3. ASSUME NEW z PROVE z \in Possible(k, p)' <=> z \in Possible(k, p) \/ z = <<c, n>>
      BY <1>4, <3>1 DEF PairsOf
    <3>. QED
      BY <3>2, <3>3
  <2>3. Sure(k, p)' \subseteq Sure(k, p) \union {<<c, n>>}
    <3>1. ASSUME NEW d, NEW i, <<d, i>> \in Sure(k, p)'
          PROVE  <<d, i>> \in Sure(k, p) \/ <<d, i>> = <<c, n>>
      <4>1. CASE d = c
        BY <1>1, <1>4, <1>7, <1>9, <3>1, <4>1 DEF PairsOf
      <4>2. CASE d # c
        BY <1>4, <1>8, <3>1, <4>2 DEF PairsOf
      <4>. QED
        BY <4>1, <4>2
    <3>2. \A z \in Sure(k, p)' : \E d, i : z = <<d, i>>
      BY <1>4 DEF PairsOf
    <3>3. ASSUME NEW z \in Sure(k, p)' PROVE z \in Sure(k, p) \union {<<c, n>>}
      <4>1. PICK d, i : z = <<d, i>>
        BY <3>2
      <4>. QED
        BY <3>1, <4>1
    <3>. QED
      BY <3>3
  <2>4. Cardinality(Possible(k, p)') = Cardinality(Possible(k, p)) + 1
    BY <1>4, <2>2, FS_AddElement DEF PairsOf
  <2>5. /\ IsFiniteSet(Sure(k, p)) /\ IsFiniteSet(Sure(k, p)') /\ IsFiniteSet(Possible(k, p))
        /\ Cardinality(Sure(k, p)) \in Nat /\ Cardinality(Sure(k, p)') \in Nat
        /\ Cardinality(Possible(k, p)) \in Nat
    BY <1>4, FS_CardinalityType DEF PairsOf
  <2> DEFINE U == Sure(k, p) \union {<<c, n>>}
  <2>6. IsFiniteSet(U) /\ Cardinality(U) \in Nat /\ Cardinality(U) <= Cardinality(Sure(k, p)) + 1
    <3>1. /\ IsFiniteSet(U)
          /\ Cardinality(U) = IF <<c, n>> \in Sure(k, p) THEN Cardinality(Sure(k, p))
                                                         ELSE Cardinality(Sure(k, p)) + 1
      BY <2>5, FS_AddElement
    <3>. QED
      BY <2>5, <3>1
  <2>7. Cardinality(Sure(k, p)') <= Cardinality(U)
    BY <2>3, <2>6, FS_Subset
  <2>. QED
    BY <1>5, <2>1, <2>4, <2>5, <2>6, <2>7
<1>10. CASE k # own \/ p # s
  <2>1. Times(k.name, p)' = Times(k.name, p)
    <3>1. CASE k # own
      <4>1. k.name # own.name
        BY <1>2, <1>6, <3>1 DEF Compiled
      <4>2. heard'[k.name] = heard[k.name]
        BY <1>1, <1>6, <4>1 DEF RInv
      <4>. QED
        BY <4>2 DEF Times
    <3>2. CASE k = own /\ p # s
      <4>1. heard[k.name] \in Seq(Spot) /\ heard'[k.name] = Append(heard[k.name], s)
        BY <1>1, <1>6, <3>2 DEF RInv
      <4>2. CountOf(Append(heard[k.name], s), p) = CountOf(heard[k.name], p)
        BY <1>3, <3>2, <4>1, CountOfAppend
      <4>. QED
        BY <4>1, <4>2 DEF CountOf, Times
    <3>. QED
      BY <1>10, <3>1, <3>2
  <2>2. ASSUME NEW d \in Calls, order[d].contract = k
        PROVE  Passed(d, p)' = Passed(d, p) /\ Heeded(d)' = Heeded(d)
    BY <1>1, <1>7, <1>8, <1>10, <2>2
  <2>3. ASSUME NEW d, NEW i
        PROVE  /\ <<d, i>> \in Possible(k, p)' <=> <<d, i>> \in Possible(k, p)
               /\ <<d, i>> \in Sure(k, p)' <=> <<d, i>> \in Sure(k, p)
    BY <1>4, <2>2 DEF PairsOf
  <2>4. Possible(k, p)' = Possible(k, p) /\ Sure(k, p)' = Sure(k, p)
    <3>1. /\ \A z \in Possible(k, p) \union Sure(k, p) : \E d, i : z = <<d, i>>
          /\ \A z \in Possible(k, p)' \union Sure(k, p)' : \E d, i : z = <<d, i>>
      BY <1>4 DEF PairsOf
    <3>2. \A z : z \in Possible(k, p)' <=> z \in Possible(k, p)
      BY <2>3, <3>1
    <3>3. \A z : z \in Sure(k, p)' <=> z \in Sure(k, p)
      BY <2>3, <3>1
    <3>. QED
      BY <3>2, <3>3
  <2>. QED
    BY <1>5, <2>1, <2>4
<1>. QED
  BY <1>9, <1>10

\* A call that has come past nothing yet
Idle(c) ==
    \/ got[c] = None \/ at[c] \notin {"collect", "done"}
    \/ at[c] = "collect" /\ next[c] = 1
    \/ got[c].end = "revert" /\ got[c].tag = <<>>

LEMMA IdlePassed == Shape => \A c \in Calls : Idle(c) => \A p : Passed(c, p) = {}
<1> SUFFICES ASSUME Shape, NEW c \in Calls, Idle(c), NEW p, got[c] # None, at[c] \in {"collect", "done"}
             PROVE  Passed(c, p) = {}
  BY PassedShape
<1> DEFINE k == order[c].contract
<1>1. k \in SessionContracts /\ got[c] \in Receipt(k)
  BY ContractOf DEF Shape, Flow
<1>2. CASE at[c] = "collect" /\ next[c] = 1
  <2>1. got[c].end # "revert"
    BY <1>2 DEF Shape, Flow, Got
  <2>2. Emits(k, p, got[c]) \subseteq 1..Len(got[c].logs)
    BY <1>1, <2>1, EmitsShape
  <2>. QED
    BY <1>2, <2>2 DEF Passed
<1>3. CASE got[c].end = "revert" /\ got[c].tag = <<>>
  <2>1. Emits(k, p, got[c]) = {}
    <3>1. <<>> # <<p>>
      OBVIOUS
    <3>. QED
      BY <1>1, <1>3, <3>1, EmitsShape
  <2>. QED
    BY <2>1 DEF Passed
<1>. QED
  BY <1>2, <1>3 DEF Idle

LEMMA IdleHold == Shape' => (\A c \in Calls : Idle(c) => \A p : Passed(c, p) = {})'
  BY IdlePassed, PTL

LEMMA IdleQuiet ==
    ASSUME Shape, Shape', NEW c \in Calls, Idle(c), Idle(c)', heard' = heard
    PROVE  Quiet(c)
<1>1. \A p : Passed(c, p) = {} /\ Passed(c, p)' = {}
  BY IdlePassed, IdleHold
<1>. QED
  BY <1>1 DEF Quiet

LEMMA StartsQuiet ==
    ASSUME Shape, Shape', NEW c \in Calls, Load(c) \/ Add(c) \/ Execute(c) \/ Fetch(c)
    PROVE  Quiet(c)
<1>1. Domains /\ Flow(c) /\ Domains'
  BY DEF Shape
<1>2. ASSUME NEW k, LoadContract(k) PROVE heard' = heard
  BY <1>2 DEF LoadContract
<1>3. ASSUME NEW k, NEW s, AddStatement(k, s) PROVE heard' = heard
  BY <1>3 DEF AddStatement, Crash
<1>4. heard' = heard
  BY <1>2, <1>3 DEF Load, Add, Execute, Fetch, vars
<1>5. Idle(c)
  BY <1>1 DEF Idle, Load, Add, Execute, Fetch
<1>6. CASE Load(c)
  <2>1. got'[c] = got[c] /\ (got[c] = None \/ at'[c] = "tag")
    BY <1>1, <1>6 DEF Load, evm, Goto, Domains
  <2>. QED
    BY <1>4, <1>5, <2>1, IdleQuiet DEF Idle
<1>7. CASE Add(c)
  <2>1. got'[c] = None
    BY <1>1, <1>7 DEF Add, evm, Flow, Got
  <2>. QED
    BY <1>4, <1>5, <2>1, IdleQuiet DEF Idle
<1>8. CASE Execute(c)
  <2>1. CASE UNCHANGED got
    <3>1. got'[c] = None
      BY <1>1, <1>8, <2>1 DEF Execute, Flow, Got
    <3>. QED
      BY <1>4, <1>5, <3>1, IdleQuiet DEF Idle
  <2>2. ASSUME NEW told, got' = [got EXCEPT ![c] = told], Goto(c, Sent(c, told)),
               order[c].op = "tx" \/ told.end = "revert"
        PROVE  Quiet(c)
    <3>1. next'[c] = 1 /\ at'[c] = Sent(c, told) /\ got'[c] = told
      BY <1>1, <2>2 DEF Goto, Domains
    <3>2. Sent(c, told) \in {"load", "tag", "collect"} \/ (told.end = "revert" /\ told.tag = <<>>)
      BY <2>2 DEF Sent
    <3>. QED
      BY <1>4, <1>5, <3>1, <3>2, IdleQuiet DEF Idle
  <2>3. ASSUME NEW r \in Runs[order[c].contract], NEW told \in Told(r) PROVE told.end = r.end
    BY <2>3, SessionAssumption, ContractOf, <1>1 DEF Told, Outcome
  <2>. QED
    BY <1>8, <2>1, <2>2, <2>3 DEF Execute, Hears, evm
<1>9. CASE Fetch(c)
  <2>1. CASE UNCHANGED got
    <3>1. got'[c] = None
      BY <1>1, <1>9, <2>1 DEF Fetch, Flow, Got
    <3>. QED
      BY <1>4, <1>5, <3>1, IdleQuiet DEF Idle
  <2>2. CASE Goto(c, "collect")
    <3>1. next'[c] = 1 /\ at'[c] = "collect"
      BY <1>1, <2>2 DEF Goto, Domains
    <3>. QED
      BY <1>4, <1>5, <3>1, IdleQuiet DEF Idle
  <2>. QED
    BY <1>9, <2>1, <2>2 DEF Fetch, evm
<1>. QED
  BY <1>6, <1>7, <1>8, <1>9

\* What a report does to the collector
LEMMA CollectHears ==
    ASSUME Compiled, RInv, NEW k \in SessionContracts, NEW s \in k.spots, CollectIfKnown(k, s)
    PROVE  \/ /\ s \in Marks(k)
              /\ heard' = [heard EXCEPT ![k.name] = Append(heard[k.name], s)]
           \/ heard' = heard /\ (s \in Marks(k) => ~Known(k.name))
<1>1. k \in Contracts
  BY SessionAssumption
<1>2. CASE Known(k.name) /\ ~Negative(s)
  <2>1. Collect(k, s)
    BY <1>2 DEF CollectIfKnown
  <2>2. InRange(k.name, s)
    BY <1>1, <1>2, NeverOutOfRange DEF RInv
  <2>. QED
    BY <1>2, <2>1, <2>2 DEF Collect, Marks
<1>3. CASE ~(Known(k.name) /\ ~Negative(s))
  BY <1>3 DEF CollectIfKnown, Marks, vars
<1>. QED
  BY <1>2, <1>3

LEMMA TagHeard ==
    ASSUME Compiled, RInv, Shape, Shape', NEW c \in Calls, CollectTag(c)
    PROVE  Quiet(c) \/ Loud(c)
<1> DEFINE k == order[c].contract
<1>1. /\ at[c] = "tag" /\ Goto(c, "done") /\ UNCHANGED <<order, saw, got, events, err>>
      /\ got[c] # None /\ got[c].end = "revert" /\ got[c] \in Receipt(k) /\ k \in SessionContracts
  BY ContractOf DEF CollectTag, evm, Shape, Flow, Got
<1>2. at'[c] = "done" /\ Heeded(c)' = Heeded(c) /\ (Heeded(c) => Known(k.name))
  BY <1>1 DEF Goto, Shape, Domains, Heeded, Flow
<1>3. ASSUME NEW p PROVE Passed(c, p) = {} /\ Passed(c, p)' = Emits(k, p, got[c])
  <2>1. Emits(k, p, got[c])' = Emits(k, p, got[c])
    BY <1>1 DEF Emits, IsCoverage
  <2>. QED
    BY <1>1, <1>2, <2>1 DEF Passed
<1>4. ASSUME NEW p PROVE Emits(k, p, got[c]) = IF got[c].tag = <<p>> THEN {0} ELSE {}
  BY <1>1, EmitsShape
<1>5. CASE got[c].tag = <<>>
  <2>1. heard' = heard
    BY <1>5 DEF CollectTag, vars
  <2>2. \A p : <<p>> # <<>>
    OBVIOUS
  <2>. QED
    BY <1>3, <1>4, <1>5, <2>1, <2>2 DEF Quiet
<1>6. ASSUME NEW s \in k.spots, got[c].tag = <<s>> PROVE Quiet(c) \/ Loud(c)
  <2>1. CollectIfKnown(k, s)
    BY <1>6 DEF CollectTag
  <2>2. ASSUME NEW p PROVE Emits(k, p, got[c]) = IF s = p THEN {0} ELSE {}
    BY <1>4, <1>6
  <2>3. CASE s \in Marks(k) /\ heard' = [heard EXCEPT ![k.name] = Append(heard[k.name], s)]
    BY <1>2, <1>3, <2>2, <2>3 DEF Loud
  <2>4. CASE heard' = heard /\ (s \in Marks(k) => ~Known(k.name))
    <3>1. ASSUME NEW p \in Marks(k), NEW i \in Passed(c, p)', Heeded(c)' PROVE FALSE
      BY <1>2, <1>3, <2>2, <2>4, <3>1
    <3>. QED
      BY <1>3, <2>4, <3>1 DEF Quiet
  <2>. QED
    BY <1>1, <2>1, <2>3, <2>4, CollectHears
<1>. QED
  BY <1>1, <1>5, <1>6, ReceiptShape

LEMMA LogHeard ==
    ASSUME Compiled, RInv, Shape, Shape', NEW c \in Calls, CollectLog(c)
    PROVE  Quiet(c) \/ Loud(c)
<1> DEFINE k == order[c].contract
           log == got[c].logs[next[c]]
           E(p) == Emits(k, p, got[c])
<1>1. /\ at[c] = "collect" /\ UNCHANGED <<order, saw, got>> /\ next[c] \in Nat \ {0}
      /\ got[c] # None /\ got[c].end # "revert" /\ got[c] \in Receipt(k) /\ k \in SessionContracts
      /\ saw[c] => Known(k.name)
  BY ContractOf DEF CollectLog, evm, Shape, Domains, Flow, Got
<1>2. ASSUME NEW p
      PROVE  E(p) \subseteq 1..Len(got[c].logs) /\ E(p)' = E(p)
  BY <1>1, EmitsShape DEF Emits, IsCoverage
<1>3. ASSUME NEW p PROVE next[c] \in E(p) => IsCoverage(k, log) /\ log.src = p
  <2>1. next[c] # 0
    BY <1>1
  <2>. QED
    BY <2>1 DEF Emits
<1>4. ASSUME NEW p, IsCoverage(k, log), log.src = p, next[c] <= Len(got[c].logs)
      PROVE  next[c] \in E(p)
  BY <1>1, <1>4, LogAt DEF Emits
<1>5. ASSUME NEW p PROVE Passed(c, p) = {i \in E(p) : i < next[c]}
  BY <1>1 DEF Passed
<1>6. ASSUME at'[c] = "done", NEW p PROVE Passed(c, p)' = E(p)
  BY <1>1, <1>2, <1>6 DEF Passed
<1>7. ASSUME Stay(c), NEW p PROVE Passed(c, p)' = {i \in E(p) : i < next[c] \/ i = next[c]}
  <2>1. at'[c] = "collect" /\ next'[c] = next[c] + 1
    BY <1>1, <1>7 DEF Stay, Shape, Domains
  <2>2. Passed(c, p)' = {i \in E(p) : i < next[c] + 1}
    BY <1>1, <1>2, <2>1 DEF Passed
  <2>3. \A i \in E(p) : i < next[c] + 1 <=> i < next[c] \/ i = next[c]
    BY <1>1, <1>2
  <2>. QED
    BY <2>2, <2>3
<1> HIDE DEF E
<1>8. CASE next[c] > Len(got[c].logs) /\ Goto(c, "done") /\ UNCHANGED <<vars, events, err>>
  <2>1. at'[c] = "done" /\ heard' = heard /\ Heeded(c)' = Heeded(c)
    BY <1>1, <1>8 DEF Goto, vars, Heeded, Shape, Domains
  <2>2. ASSUME NEW p PROVE Passed(c, p)' = Passed(c, p)
    <3>1. Len(got[c].logs) \in Nat
      BY <1>1, ReceiptShape
    <3>2. \A i \in E(p) : i < next[c]
      BY <1>1, <1>2, <1>8, <3>1
    <3>. QED
      BY <1>5, <1>6, <2>1, <3>2
  <2>. QED
    BY <2>1, <2>2 DEF Quiet
<1>9. CASE /\ next[c] <= Len(got[c].logs) /\ IsCoverage(k, log)
           /\ CollectIfKnown(k, log.src) /\ Stay(c) /\ UNCHANGED <<events, err>>
  <2>1. log.src \in k.spots
    BY <1>1, <1>9, LogAt, ReceiptShape
  <2>2. PICK s \in k.spots, n \in Nat : s = log.src /\ n = next[c]
    BY <1>1, <2>1
  <2>3. Heeded(c)' = Heeded(c) /\ (Heeded(c) => Known(k.name))
    BY <1>1, <1>9 DEF Heeded
  <2>4. ASSUME NEW p
        PROVE  /\ Passed(c, p) = {i \in E(p) : i < n}
               /\ Passed(c, p)' = {i \in E(p) : i < n \/ i = n}
               /\ n \in E(p) <=> p = s
    BY <1>3, <1>4, <1>5, <1>7, <1>9, <2>2
  <2>5. ASSUME NEW p, p # s PROVE Passed(c, p)' = Passed(c, p)
    BY <2>4, <2>5
  <2>6. Passed(c, s)' = Passed(c, s) \union {n} /\ n \notin Passed(c, s)
    BY <2>4
  <2>7. CASE s \in Marks(k) /\ heard' = [heard EXCEPT ![k.name] = Append(heard[k.name], s)]
    BY <2>3, <2>5, <2>6, <2>7 DEF Loud
  <2>8. CASE heard' = heard /\ (s \in Marks(k) => ~Known(k.name))
    <3>1. ASSUME NEW p \in Marks(k) PROVE Passed(c, p) \subseteq Passed(c, p)'
      BY <2>5, <2>6
    <3>2. ASSUME NEW p \in Marks(k), NEW i \in Passed(c, p)', Heeded(c)'
          PROVE  i \in Passed(c, p) /\ Heeded(c)
      BY <2>3, <2>5, <2>8, <3>2
    <3>. QED
      BY <2>8, <3>1, <3>2 DEF Quiet
  <2>9. CollectIfKnown(k, s)
    BY <1>9, <2>2
  <2>. QED
    BY <1>1, <2>7, <2>8, <2>9, CollectHears
<1>10. CASE ~IsCoverage(k, log) /\ UNCHANGED vars /\ Stay(c) /\ UNCHANGED err
  <2>1. heard' = heard /\ Heeded(c)' = Heeded(c)
    BY <1>1, <1>10 DEF vars, Heeded
  <2>2. ASSUME NEW p PROVE Passed(c, p)' = Passed(c, p)
    BY <1>3, <1>5, <1>7, <1>10
  <2>. QED
    BY <2>1, <2>2 DEF Quiet
<1>11. ASSUME UNCHANGED vars, NEW e \in Errs \ {"nil"}, Fails(c, e) PROVE Quiet(c)
  <2>1. heard' = heard /\ at'[c] = "done" /\ ~Heeded(c)'
    BY <1>11 DEF vars, Heeded, Fails, Goto, Shape, Domains
  <2>2. ASSUME NEW p PROVE Passed(c, p) \subseteq Passed(c, p)'
    BY <1>5, <1>6, <2>1
  <2>. QED
    BY <2>1, <2>2 DEF Quiet
<1>12. CASE ~IsCoverage(k, log) /\ UNCHANGED vars /\ Return(c, log)
  BY <1>10, <1>11, <1>12 DEF Return, Errs
<1>. QED
  BY <1>8, <1>9, <1>10, <1>12 DEF CollectLog

LEMMA TallyInit == ASSUME SessionInit PROVE Tally
<1> SUFFICES ASSUME NEW k \in SessionContracts, NEW p \in Marks(k)
             PROVE  /\ Cardinality(Sure(k, p)) <= Times(k.name, p)
                    /\ Times(k.name, p) <= Cardinality(Possible(k, p))
  BY DEF Tally
<1>1. PairsOf(k, p)
  BY ShapeInit, TallyIsFinite
<1>2. \A c \in Calls : Passed(c, p) = {}
  BY DEF SessionInit, Passed
<1>3. Possible(k, p) = {} /\ Sure(k, p) = {}
  BY <1>1, <1>2 DEF PairsOf
<1>4. k.name \in Names
  BY SessionAssumption DEF Names
<1>5. heard[k.name] = <<>>
  BY <1>4 DEF SessionInit, Init
<1>6. {i \in DOMAIN heard[k.name] : heard[k.name][i] = p} = {}
  BY <1>5
<1>. QED
  BY <1>3, <1>6, FS_EmptySet DEF Times

SInv == RInv /\ ~crashed /\ Shape /\ Reading /\ Tally

LEMMA SInvInit == ASSUME Compiled, Placed, SessionInit PROVE SInv
  BY ShapeInit, TallyInit, InitRInv DEF SInv, SessionInit, Init

LEMMA SInvStays ==
    ASSUME Compiled, Placed, SInv, [SessionNext]_allVars
    PROVE  SInv'
<1>1. Shape' /\ Reading' /\ [Next]_vars
  BY ShapeStays DEF SInv
<1>2. RInv' /\ ~crashed'
  BY <1>1, RInvStays DEF SInv
<1>3. CASE UNCHANGED allVars
  <2>1. UNCHANGED <<order, at, next, saw, got, err, heard>>
    BY <1>3 DEF allVars, vars, sessionVars, evm
  <2>2. ASSUME NEW p PROVE PassedBy(p)' = PassedBy(p)
    BY <2>1 DEF PassedBy, Passed, Emits, IsCoverage
  <2>3. ASSUME NEW k, NEW p
        PROVE  /\ Possible(k, p)' = Possible(k, p) /\ Sure(k, p)' = Sure(k, p)
               /\ Times(k.name, p)' = Times(k.name, p)
    BY <2>1, <2>2 DEF Possible, Sure, Heeded, Times
  <2>. QED
    BY <1>1, <1>2, <2>3 DEF SInv, Tally
<1>4. ASSUME NEW c \in Calls, Step(c) PROVE SInv'
  <2>1. order' = order /\ Only(c)
    BY <1>4, OnlyOne DEF SInv, Shape
  <2>2. Quiet(c) \/ Loud(c)
    BY <1>1, <1>4, StartsQuiet, TagHeard, LogHeard DEF SInv, Step
  <2>3. Tally'
    BY <1>1, <2>1, <2>2, QuietTally, LoudTally DEF SInv
  <2>. QED
    BY <1>1, <1>2, <2>3 DEF SInv
<1>. QED
  BY <1>3, <1>4 DEF SessionNext, Ended, Step

THEOREM SessionInvariance == Compiled /\ Placed => (SessionSpec => []SInv)
<1> SUFFICES ASSUME Compiled, Placed PROVE SessionSpec => []SInv
  OBVIOUS
<1>1. SessionInit => SInv
  BY SInvInit
<1>2. SInv /\ [SessionNext]_allVars => SInv'
  BY SInvStays
<1>. QED
  BY <1>1, <1>2, PTL DEF SessionSpec

-----------------------------------------------------------------------------
(* Whose execution a call reads: a call with a transaction runs it once,   *)
(* and what a call has was told of one that has been run.                  *)

Fresh(c) == ran[c] # None => /\ at[c] # "run"
                             /\ order[c].op = "tx" => at[c] \notin {"load", "add"}

Traced(c) ==
    got[c] # None
    => /\ whose[c] \in Calls /\ order[whose[c]].contract = order[c].contract
       /\ ran[whose[c]] # None /\ got[c] \in Told(ran[whose[c]])

Trace == \A c \in Calls : Fresh(c) /\ Traced(c)

LEMMA TraceInit == ASSUME SessionInit PROVE Trace
<1> SUFFICES ASSUME NEW c \in Calls PROVE Fresh(c) /\ Traced(c)
  BY DEF Trace
<1>1. ran[c] = None /\ got[c] = None
  BY DEF SessionInit
<1>. QED
  BY <1>1 DEF Fresh, Traced

\* A transaction that was executed stays so.
LEMMA RanStays ==
    ASSUME Shape, NEW c \in Calls, Fresh(c), Step(c), ran[c] # None
    PROVE  ran'[c] = ran[c]
<1>1. ~Execute(c)
  BY DEF Execute, Fresh
<1>. QED
  BY <1>1 DEF Step, Load, Add, CollectTag, Fetch, CollectLog, evm

LEMMA FreshStays ==
    ASSUME Shape, Shape', NEW c \in Calls, Fresh(c), Step(c)
    PROVE  Fresh(c)'
<1>1. Domains /\ Domains' /\ Flow(c) /\ order' = order
  BY OnlyOne DEF Shape
<1>2. CASE Load(c)
  <2>1. ran'[c] = ran[c] /\ at'[c] \in {"done", "add", "tag"} /\ at[c] = "load"
    BY <1>1, <1>2 DEF Load, Fails, Goto, evm, Domains
  <2>. QED
    BY <1>1, <2>1 DEF Fresh
<1>3. CASE Add(c)
  <2>1. at[c] = "add" /\ ran'[c] = ran[c] /\ at'[c] \in {"add", Added(c)}
    BY <1>1, <1>3 DEF Add, Stay, Goto, evm, Domains
  <2>2. Added(c) = IF order[c].op = "tx" THEN "run" ELSE "receipt"
    BY DEF Added
  <2>. QED
    BY <1>1, <2>1, <2>2 DEF Fresh
<1>4. CASE Execute(c)
  <2>1. ASSUME NEW told, Goto(c, Sent(c, told))
        PROVE  at'[c] \in {"done", "load", "tag", "collect"}
               /\ (order[c].op = "tx" => at'[c] \in {"tag", "collect"})
    BY <1>1, <2>1 DEF Sent, Goto, Domains
  <2>2. ASSUME Goto(c, "done") PROVE at'[c] = "done"
    BY <1>1, <2>2 DEF Goto, Domains
  <2>3. ASSUME Goto(c, "load") PROVE at'[c] = "load"
    BY <1>1, <2>3 DEF Goto, Domains
  <2>. QED
    BY <1>1, <1>4, <2>1, <2>2, <2>3 DEF Execute, Hears, Fresh
<1>5. CASE CollectTag(c) \/ Fetch(c) \/ CollectLog(c)
  <2>1. ran'[c] = ran[c] /\ at[c] \in {"tag", "receipt", "collect"}
    BY <1>5 DEF CollectTag, Fetch, CollectLog, evm
  <2>2. at'[c] \in {"done", "collect"}
    <3>1. ASSUME Goto(c, "done") \/ Goto(c, "collect") PROVE at'[c] \in {"done", "collect"}
      BY <1>1, <3>1 DEF Goto, Domains
    <3>2. ASSUME NEW e, Fails(c, e) PROVE at'[c] = "done"
      BY <1>1, <3>2 DEF Fails, Goto, Domains
    <3>3. ASSUME CollectLog(c), Stay(c) PROVE at'[c] = "collect"
      BY <3>3 DEF CollectLog, Stay
    <3>. QED
      BY <1>5, <3>1, <3>2, <3>3 DEF CollectTag, Fetch, CollectLog, Return
  <2>. QED
    BY <1>1, <2>1, <2>2 DEF Fresh
<1>. QED
  BY <1>2, <1>3, <1>4, <1>5 DEF Step

LEMMA TracedStays ==
    ASSUME Shape, Shape', NEW c \in Calls, Trace, Step(c)
    PROVE  Traced(c)'
<1>1. Domains /\ Domains' /\ Flow(c) /\ order' = order /\ Only(c)
  BY OnlyOne DEF Shape
<1>2. \A d \in Calls : ran[d] # None => ran'[d] = ran[d]
  <2>1. \A d \in Calls \ {c} : ran'[d] = ran[d]
    BY <1>1 DEF Only, Same
  <2>. QED
    BY <2>1, RanStays DEF Trace
<1>3. CASE UNCHANGED <<got, whose>>
  BY <1>1, <1>2, <1>3 DEF Trace, Traced
<1>4. ASSUME NEW r \in Runs[order[c].contract], ran' = [ran EXCEPT ![c] = r], Hears(c, r)
      PROVE  Traced(c)'
  <2>1. PICK told \in Told(r) : got' = [got EXCEPT ![c] = told] /\ whose' = [whose EXCEPT ![c] = c]
    BY <1>4 DEF Hears
  <2>2. ran'[c] = r /\ got'[c] = told /\ whose'[c] = c
    BY <1>1, <1>4, <2>1 DEF Domains
  <2>3. r # None
    BY <1>4, ContractOf, SessionAssumption, <1>1
  <2>. QED
    BY <1>1, <2>1, <2>2, <2>3 DEF Traced
<1>5. ASSUME NEW d \in Subjects(c), ran[d] # None, UNCHANGED ran,
             got' = [got EXCEPT ![c] = ran[d]], whose' = [whose EXCEPT ![c] = d]
      PROVE  Traced(c)'
  <2>1. d \in Calls /\ order[d].contract = order[c].contract
    BY DEF Subjects
  <2>2. got'[c] = ran[d] /\ whose'[c] = d
    BY <1>1, <1>5 DEF Domains
  <2>. QED
    BY <1>1, <1>5, <2>1, <2>2 DEF Traced, Told
<1>6. CASE Execute(c)
  BY <1>3, <1>4, <1>6 DEF Execute, evm
<1>7. CASE Fetch(c)
  BY <1>3, <1>5, <1>7 DEF Fetch, evm
<1>8. CASE Load(c) \/ Add(c) \/ CollectTag(c) \/ CollectLog(c)
  BY <1>3, <1>8 DEF Load, Add, CollectTag, CollectLog, evm
<1>. QED
  BY <1>6, <1>7, <1>8 DEF Step

LEMMA TraceStays ==
    ASSUME Shape, Shape', Trace, [SessionNext]_allVars
    PROVE  Trace'
<1>1. CASE UNCHANGED allVars
  BY <1>1 DEF allVars, sessionVars, evm, Trace, Fresh, Traced
<1>2. ASSUME NEW c \in Calls, Step(c) PROVE Trace'
  <2>1. order' = order /\ Only(c)
    BY <1>2, OnlyOne DEF Shape
  <2>2. \A d \in Calls : ran[d] # None => ran'[d] = ran[d]
    <3>1. \A d \in Calls \ {c} : ran'[d] = ran[d]
      BY <2>1 DEF Only, Same
    <3>. QED
      BY <1>2, <3>1, RanStays DEF Trace
  <2>3. ASSUME NEW d \in Calls \ {c} PROVE Fresh(d)' /\ Traced(d)'
    <3>1. at'[d] = at[d] /\ ran'[d] = ran[d] /\ got'[d] = got[d] /\ whose'[d] = whose[d]
      BY <2>1 DEF Only, Same
    <3>2. Fresh(d) /\ Traced(d)
      BY DEF Trace
    <3>. QED
      BY <2>1, <2>2, <3>1, <3>2 DEF Fresh, Traced
  <2>4. Fresh(c)' /\ Traced(c)'
    BY <1>2, FreshStays, TracedStays DEF Trace
  <2>. QED
    BY <2>3, <2>4 DEF Trace
<1>. QED
  BY <1>1, <1>2 DEF SessionNext, Ended, Step

THEOREM TraceOfSession == SessionSpec => []Trace
<1>1. SessionInit => Trace
  BY TraceInit
<1>2. Shape /\ Reading /\ Trace /\ [SessionNext]_allVars => Trace'
  BY ShapeStays, TraceStays
<1>. QED
  BY <1>1, <1>2, ShapeOfSession, PTL DEF SessionSpec

-----------------------------------------------------------------------------
(* From reports to executions                                              *)

LEMMA ComesIsFinite ==
    ASSUME NEW k \in SessionContracts, NEW r \in Receipt(k), NEW s
    PROVE  IsFiniteSet(Comes(s, r))
<1>1. r.did \in Seq(Spot)
  BY ReceiptShape DEF Outcome
<1>2. DOMAIN r.did = 1..Len(r.did) /\ Len(r.did) \in Nat
  BY <1>1
<1>3. IsFiniteSet(0..Len(r.did))
  BY <1>2, FS_Interval
<1>4. Comes(s, r) \subseteq 0..Len(r.did)
  BY <1>2 DEF Comes
<1>. QED
  BY <1>3, <1>4, FS_Subset

\* Being told of an execution is not being told more than there was.
LEMMA ToldComes ==
    ASSUME NEW k \in SessionContracts, NEW r \in Runs[k], NEW told \in Told(r), NEW s
    PROVE  Comes(s, told) \subseteq Comes(s, r)
<1>1. r \in Outcome(k)
  BY SessionAssumption
<1>2. told.end = r.end /\ told.did = r.did /\ (told.tag = r.tag \/ told.tag = <<>>)
  BY <1>1 DEF Told, Outcome
<1>3. <<>> # <<s.src>>
  OBVIOUS
<1>. QED
  BY <1>2, <1>3 DEF Comes

ReadIn(s) == [c \in Calls |-> Comes(s, got[c])]
RunIn(s) == [d \in Calls |-> Comes(s, ran[d])]

LEMMA ReadAndRun ==
    ASSUME Shape, NEW k \in SessionContracts, NEW s
    PROVE  /\ IsFiniteSet(Pairs(Of(k), ReadIn(s))) /\ IsFiniteSet(Pairs(Ran(k), RunIn(s)))
           /\ TimesRead(k, s) = Cardinality(Pairs(Of(k), ReadIn(s)))
           /\ TimesRun(k, s) = Cardinality(Pairs(Ran(k), RunIn(s)))
<1>1. IsFiniteSet(Of(k)) /\ Of(k) \subseteq Calls /\ IsFiniteSet(Ran(k)) /\ Ran(k) \subseteq Calls
  BY SessionAssumption, FS_Subset DEF Of, Ran
<1>2. ASSUME NEW c \in Of(k) PROVE ReadIn(s)[c] = Comes(s, got[c]) /\ IsFiniteSet(ReadIn(s)[c])
  <2>1. got[c] \in Receipt(k)
    BY DEF Of, Shape, Flow
  <2>. QED
    BY <1>1, <2>1, ComesIsFinite DEF ReadIn
<1>3. ASSUME NEW d \in Ran(k) PROVE RunIn(s)[d] = Comes(s, ran[d]) /\ IsFiniteSet(RunIn(s)[d])
  <2>1. ran[d] \in Receipt(k)
    BY DEF Ran, Shape, Flow, Receipt, Told
  <2>. QED
    BY <1>1, <2>1, ComesIsFinite DEF RunIn
<1>4. UNION {{c} \X Comes(s, got[c]) : c \in Of(k)} = Pairs(Of(k), ReadIn(s))
  BY <1>2 DEF Pairs
<1>5. UNION {{d} \X Comes(s, ran[d]) : d \in Ran(k)} = Pairs(Ran(k), RunIn(s))
  BY <1>3 DEF Pairs
<1>. QED
  BY <1>1, <1>2, <1>3, <1>4, <1>5, PairsFinite DEF TimesRead, TimesRun

\* Readings of executions: no more than there were, if none is read twice, and no fewer, if
\* each is read.
LEMMA ReadingsOfRuns ==
    ASSUME Shape, Trace, NEW k \in SessionContracts, NEW s
    PROVE  /\ ReadOnce(k) => TimesRead(k, s) <= TimesRun(k, s)
           /\ AllRead(k) => TimesRead(k, s) >= TimesRun(k, s)
<1> DEFINE A == Pairs(Of(k), ReadIn(s))
           B == Pairs(Ran(k), RunIn(s))
           F == [z \in A |-> <<whose[z[1]], z[2]>>]
<1>1. ASSUME NEW c, NEW i
      PROVE  /\ <<c, i>> \in A <=> c \in Of(k) /\ i \in Comes(s, got[c])
             /\ <<c, i>> \in B <=> c \in Ran(k) /\ i \in Comes(s, ran[c])
  <2>1. /\ <<c, i>> \in A <=> c \in Of(k) /\ i \in ReadIn(s)[c]
        /\ <<c, i>> \in B <=> c \in Ran(k) /\ i \in RunIn(s)[c]
    BY PairIn
  <2>2. Of(k) \subseteq Calls /\ Ran(k) \subseteq Calls
    BY DEF Of, Ran
  <2>. QED
    BY <2>1, <2>2 DEF ReadIn, RunIn
<1>2. /\ \A z \in A : \E c, i : z = <<c, i>>
      /\ \A z \in B : \E d, i : z = <<d, i>>
  BY PairIn
<1>3. /\ IsFiniteSet(A) /\ IsFiniteSet(B)
      /\ TimesRead(k, s) = Cardinality(A) /\ TimesRun(k, s) = Cardinality(B)
      /\ Cardinality(A) \in Nat /\ Cardinality(B) \in Nat
  BY ReadAndRun, FS_CardinalityType
<1> HIDE DEF A, B
<1>4. ASSUME NEW c, NEW i, <<c, i>> \in A PROVE F[<<c, i>>] = <<whose[c], i>> /\ <<whose[c], i>> \in B
  <2>1. c \in Of(k) /\ i \in Comes(s, got[c])
    BY <1>1, <1>4
  <2>2. /\ whose[c] \in Calls /\ order[whose[c]].contract = k
        /\ ran[whose[c]] # None /\ got[c] \in Told(ran[whose[c]])
    BY <2>1 DEF Of, Trace, Traced
  <2>3. ran[whose[c]] \in Runs[k]
    BY <2>2 DEF Shape, Flow
  <2>4. i \in Comes(s, ran[whose[c]])
    BY <2>1, <2>2, <2>3, ToldComes
  <2>5. whose[c] \in Ran(k)
    BY <2>2 DEF Ran
  <2>. QED
    BY <1>1, <1>4, <2>4, <2>5
<1>5. F \in [A -> B]
  <2>1. ASSUME NEW z \in A PROVE <<whose[z[1]], z[2]>> \in B
    <3>1. PICK c, i : z = <<c, i>>
      BY <1>2
    <3>2. <<whose[c], i>> \in B /\ z[1] = c /\ z[2] = i
      BY <1>4, <3>1
    <3>. QED
      BY <3>2
  <2>. QED
    BY <2>1
<1>6. DOMAIN F = A
  OBVIOUS
<1> HIDE DEF F
<1>7. ASSUME ReadOnce(k) PROVE Cardinality(A) <= Cardinality(B)
  <2>1. ASSUME NEW z \in A, NEW w \in A, F[z] = F[w] PROVE z = w
    <3>1. PICK c, i : z = <<c, i>>
      BY <1>2
    <3>2. PICK d, j : w = <<d, j>>
      BY <1>2
    <3>3. whose[c] = whose[d] /\ i = j
      <4>1. F[z] = <<whose[c], i>> /\ F[w] = <<whose[d], j>>
        BY <1>4, <3>1, <3>2
      <4>2. <<whose[c], i>> = <<whose[d], j>>
        BY <2>1, <4>1
      <4>. QED
        BY <4>2
    <3>4. c \in Of(k) /\ d \in Of(k)
      BY <1>1, <3>1, <3>2
    <3>5. c = d
      BY <1>7, <3>3, <3>4 DEF ReadOnce
    <3>. QED
      BY <3>1, <3>2, <3>3, <3>5
  <2>2. F \in Injection(A, B)
    BY <1>5, <1>6, <2>1 DEF Injection, IsInjective
  <2>. QED
    BY <1>3, <2>2, FS_Injection
<1>8. ASSUME AllRead(k) PROVE Cardinality(B) <= Cardinality(A)
  <2>1. ASSUME NEW w \in B PROVE \E z \in A : F[z] = w
    <3>1. PICK d, i : w = <<d, i>>
      BY <1>2
    <3>2. d \in Ran(k) /\ i \in Comes(s, ran[d])
      BY <1>1, <3>1
    <3>3. PICK c \in Of(k) : whose[c] = d /\ got[c] = ran[d]
      BY <1>8, <3>2 DEF AllRead
    <3>4. <<c, i>> \in A
      BY <1>1, <3>2, <3>3
    <3>. QED
      BY <1>4, <3>1, <3>3, <3>4
  <2>2. F \in Surjection(A, B)
    BY <1>5, <2>1 DEF Surjection
  <2>. QED
    BY <1>3, <2>2, FS_Surjection
<1>. QED
  BY <1>3, <1>7, <1>8

\* What the calls of a contract come to is what their receipts have of its mark.
LEMMA ReadIsEmitted ==
    ASSUME Shape, Faithful, NEW k \in SessionContracts, NEW s \in Sites[k]
    PROVE  /\ IsFiniteSet(Pairs(Of(k), [c \in Calls |-> Emits(k, s.mark, got[c])]))
           /\ TimesRead(k, s) = Cardinality(Pairs(Of(k), [c \in Calls |-> Emits(k, s.mark, got[c])]))
<1> DEFINE come == [c \in Calls |-> Comes(s, got[c])]
           emit == [c \in Calls |-> Emits(k, s.mark, got[c])]
<1>1. IsFiniteSet(Of(k)) /\ Of(k) \subseteq Calls
  BY SessionAssumption, FS_Subset DEF Of
<1>2. ASSUME NEW c \in Of(k)
      PROVE  /\ IsFiniteSet(come[c]) /\ IsFiniteSet(emit[c])
             /\ Cardinality(come[c]) = Cardinality(emit[c])
  <2>1. c \in Calls /\ got[c] \in Receipt(k)
    BY DEF Of, Shape, Flow
  <2>2. Cardinality(Comes(s, got[c])) = Cardinality(Emits(k, s.mark, got[c]))
    BY <2>1 DEF Faithful, Receipt
  <2>. QED
    BY <2>1, <2>2, ComesIsFinite, EmitsShape
<1>3. TimesRead(k, s) = Cardinality(Pairs(Of(k), come))
  BY <1>1 DEF TimesRead, Pairs
<1> HIDE DEF come, emit
<1>4. Cardinality(Pairs(Of(k), come)) = Cardinality(Pairs(Of(k), emit))
  BY <1>1, <1>2, PairsAsMany
<1>5. IsFiniteSet(Pairs(Of(k), emit))
  BY <1>1, <1>2, PairsFinite
<1>. QED
  BY <1>3, <1>4, <1>5 DEF emit

LEMMA CountsFromTally ==
    ASSUME Compiled, Placed, Faithful, SInv,
           NEW k \in SessionContracts, Known(k.name), NEW s \in Sites[k], ~Negative(s.mark)
    PROVE  /\ Counted(Descriptor(k.name, s.mark)) <= TimesRead(k, s)
           /\ Complete(k) => Counted(Descriptor(k.name, s.mark)) = TimesRead(k, s)
           /\ Counted(Descriptor(k.name, s.mark)) \in Nat
<1>1. PICK p \in Marks(k) : p = s.mark
  BY SessionAssumption DEF Marks
<1>2. k \in Contracts /\ k.name \in Names /\ p \in k.spots /\ ~Negative(p)
  BY SessionAssumption DEF Names, Marks
<1>3. Counted(Descriptor(k.name, p)) = Times(k.name, p)
  <2>1. InRange(k.name, p)
    BY <1>2, NeverOutOfRange DEF SInv, RInv
  <2>2. p \in UNION {c.spots : c \in {c \in Contracts : c.name = k.name}}
    BY <1>2
  <2>. QED
    BY <1>2, <2>1, <2>2 DEF SInv, RInv, CountsAreReports
<1> DEFINE emit == [c \in Calls |-> Emits(k, p, got[c])]
           All == Pairs(Of(k), emit)
<1>4. PairsOf(k, p)
  BY TallyIsFinite DEF SInv
<1>5. IsFiniteSet(All) /\ TimesRead(k, s) = Cardinality(All)
  BY <1>1, ReadIsEmitted DEF SInv
<1>6. ASSUME NEW c, NEW i
      PROVE  <<c, i>> \in All <=> c \in Of(k) /\ i \in Emits(k, p, got[c])
  <2>1. <<c, i>> \in All <=> c \in Of(k) /\ i \in emit[c]
    BY PairIn
  <2>2. Of(k) \subseteq Calls
    BY DEF Of
  <2>. QED
    BY <2>1, <2>2
<1>7. \A z \in All : \E c, i : z = <<c, i>>
  BY PairIn
<1> HIDE DEF All, emit
<1>8. Possible(k, p) \subseteq All
  <2>1. ASSUME NEW c, NEW i, <<c, i>> \in Possible(k, p) PROVE <<c, i>> \in All
    BY <1>4, <1>6, <2>1 DEF PairsOf, Passed, Of
  <2>. QED
    BY <1>4, <2>1 DEF PairsOf
<1>9. ASSUME Complete(k) PROVE All \subseteq Sure(k, p)
  <2>1. ASSUME NEW c, NEW i, <<c, i>> \in All PROVE <<c, i>> \in Sure(k, p)
    <3>1. c \in Of(k) /\ i \in Emits(k, p, got[c])
      BY <1>6, <2>1
    <3>2. at[c] = "done" /\ Heeded(c)
      BY <1>9, <3>1 DEF Complete, Heeded
    <3>. QED
      BY <1>4, <3>1, <3>2 DEF PairsOf, Passed, Of
  <2>. QED
    BY <1>7, <2>1
<1>10. /\ Cardinality(Sure(k, p)) <= Times(k.name, p) /\ Times(k.name, p) <= Cardinality(Possible(k, p))
       /\ Times(k.name, p) \in Nat
  BY TimesIsNumber DEF SInv, Tally
<1>11. /\ IsFiniteSet(Possible(k, p)) /\ IsFiniteSet(Sure(k, p))
       /\ Cardinality(Possible(k, p)) \in Nat /\ Cardinality(Sure(k, p)) \in Nat
       /\ Cardinality(All) \in Nat
  BY <1>4, <1>5, FS_CardinalityType DEF PairsOf
<1>12. Cardinality(Possible(k, p)) <= Cardinality(All)
  BY <1>5, <1>8, FS_Subset
<1>13. ASSUME Complete(k) PROVE Cardinality(All) <= Cardinality(Sure(k, p))
  BY <1>9, <1>11, <1>13, FS_Subset
<1>. QED
  BY <1>1, <1>3, <1>5, <1>10, <1>11, <1>12, <1>13

\* What the report says of a session is what its calls have read of executions: however the
\* calls of any number take turns, whichever of them find the sources, fail or lose the reason
\* of a revert, each reading is counted once, and none is missed by calls that had the sources.
\* So nothing is counted twice where no two calls read one execution, as Logs and the
\* transaction's own call do; and nothing is missing where each is read.
THEOREM ExecutionsCounted ==
    Compiled /\ Placed /\ Faithful => (SessionSpec => []CountsAreExecutions)
<1> SUFFICES ASSUME Compiled, Placed, Faithful PROVE SessionSpec => []CountsAreExecutions
  OBVIOUS
<1>1. SInv /\ Trace => CountsAreExecutions
  <2> SUFFICES ASSUME SInv, Trace, NEW k \in SessionContracts, Known(k.name),
                      NEW s \in Sites[k], ~Negative(s.mark)
               PROVE  LET n == Counted(Descriptor(k.name, s.mark))
                      IN  /\ n <= TimesRead(k, s) /\ (Complete(k) => n = TimesRead(k, s))
                          /\ ReadOnce(k) => n <= TimesRun(k, s)
                          /\ Complete(k) /\ AllRead(k) => n >= TimesRun(k, s)
    BY DEF CountsAreExecutions
  <2> DEFINE n == Counted(Descriptor(k.name, s.mark))
  <2>1. n \in Nat /\ n <= TimesRead(k, s) /\ (Complete(k) => n = TimesRead(k, s))
    BY CountsFromTally
  <2>2. TimesRead(k, s) \in Nat /\ TimesRun(k, s) \in Nat
    BY ReadAndRun, FS_CardinalityType DEF SInv
  <2>3. /\ ReadOnce(k) => TimesRead(k, s) <= TimesRun(k, s)
        /\ AllRead(k) => TimesRead(k, s) >= TimesRun(k, s)
    BY ReadingsOfRuns DEF SInv
  <2> HIDE DEF n
  <2>. QED
    BY <2>1, <2>2, <2>3 DEF n
<1>. QED
  BY <1>1, SessionInvariance, TraceOfSession, PTL

\* The collector's guarantees hold of a session's.
THEOREM SessionKeepsCollector ==
    Compiled /\ Placed
    => (SessionSpec => [](NoCrash /\ CountsAreReports /\ ShownAtItsLine) /\ CountsGrow)
<1> SUFFICES ASSUME Compiled, Placed
             PROVE  SessionSpec => [](NoCrash /\ CountsAreReports /\ ShownAtItsLine) /\ CountsGrow
  OBVIOUS
<1>1. SessionSpec => []NoCrash
  BY SessionImplements, NeverCrashes, PTL
<1>2. SessionSpec => []CountsAreReports
  BY SessionImplements, CountsExact, PTL
<1>3. SessionSpec => []ShownAtItsLine
  BY SessionImplements, LinesExact, PTL
<1>4. SessionSpec => CountsGrow
  BY SessionImplements, CountsOnlyGrow, PTL
<1>. QED
  BY <1>1, <1>2, <1>3, <1>4, PTL

\* And so do those of the report.
THEOREM SessionKeepsReport ==
    Compiled /\ Placed /\ StartsApart => (SessionSpec => []OneRowPerStatement)
  BY SessionImplements, RowsOnce, PTL

-----------------------------------------------------------------------------
(* What Logs returns: at each log of the receipt, the events so far are    *)
(* the wanted ones among the logs before it.                               *)

Wanted(c, log) ==
    IF order[c].known THEN log.kind = "event"
    ELSE ~(log.kind = "marker" /\ log.src.file = order[c].contract.own)

AllWanted(c) == {i \in DOMAIN got[c].logs : Wanted(c, got[c].logs[i])}

Below(W, i) == Cardinality({j \in W : j <= i})

Gathered(c, n) ==
    /\ Len(events[c]) = Below(AllWanted(c), n)
    /\ \A i \in AllWanted(c) : i <= n => events[c][Below(AllWanted(c), i)] = got[c].logs[i]

Asked(c) ==
    order[c].op = "logs"
    => /\ at[c] \notin {"run", "tag"}
       /\ at[c] \notin {"collect", "done"} => events[c] = <<>>
       /\ at[c] = "collect" => Gathered(c, next[c] - 1)
       /\ at[c] = "done" => IF err[c] # "nil" THEN events[c] = <<>>
                            ELSE Gathered(c, Len(got[c].logs)) /\ got[c] # None

\* How many there are up to a position
LEMMA BelowGrows ==
    ASSUME NEW W, NEW m \in Nat, W \subseteq 1..m
    PROVE  /\ IsFiniteSet(W)
           /\ \A n \in Nat : Below(W, n) \in Nat
           /\ Below(W, 0) = 0
           /\ \A n \in Nat : n >= m => Below(W, n) = Cardinality(W)
           /\ \A n \in Nat : Below(W, n + 1) = IF n + 1 \in W THEN Below(W, n) + 1 ELSE Below(W, n)
           /\ \A n \in Nat : \A i \in W : i <= n => Below(W, i) \in 1..Below(W, n)
<1> DEFINE B(n) == {j \in W : j <= n}
<1>0. \A i \in W : i \in Nat /\ 1 <= i /\ i <= m
  OBVIOUS
<1>1. IsFiniteSet(W)
  <2>1. IsFiniteSet(1..m)
    BY FS_Interval
  <2>. QED
    BY <2>1, FS_Subset
<1>2. ASSUME NEW n \in Nat PROVE IsFiniteSet(B(n)) /\ Cardinality(B(n)) \in Nat
  BY <1>1, FS_Subset, FS_CardinalityType
<1>3. Below(W, 0) = 0
  <2>1. \A j \in W : ~(j <= 0)
    BY <1>0
  <2>2. B(0) = {}
    BY <2>1
  <2>. QED
    BY <2>2, FS_EmptySet DEF Below
<1>4. ASSUME NEW n \in Nat, n >= m PROVE Below(W, n) = Cardinality(W)
  <2>1. \A j \in W : j <= n
    BY <1>0, <1>4
  <2>2. B(n) = W
    BY <2>1
  <2>. QED
    BY <2>2 DEF Below
<1>5. ASSUME NEW n \in Nat
      PROVE  Below(W, n + 1) = IF n + 1 \in W THEN Below(W, n) + 1 ELSE Below(W, n)
  <2>1. \A j \in W : j <= n + 1 <=> j <= n \/ j = n + 1
    BY <1>0
  <2>2. ~(n + 1 <= n) /\ n + 1 <= n + 1
    OBVIOUS
  <2>3. CASE n + 1 \in W
    <3> DEFINE e == n + 1
    <3>1. e \in W /\ ~(e <= n) /\ \A j \in W : j <= e <=> j <= n \/ j = e
      BY <2>1, <2>2, <2>3
    <3> HIDE DEF e
    <3>2. B(e) = B(n) \union {e} /\ e \notin B(n)
      BY <3>1
    <3>3. Cardinality(B(e)) = Cardinality(B(n)) + 1
      BY <1>2, <3>2, FS_AddElement
    <3>. QED
      BY <2>3, <3>3 DEF Below, e
  <2>4. CASE n + 1 \notin W
    <3> DEFINE e == n + 1
    <3>1. \A j \in W : j <= e <=> j <= n
      BY <2>1, <2>4
    <3> HIDE DEF e
    <3>2. B(e) = B(n)
      BY <3>1
    <3>. QED
      BY <2>4, <3>2 DEF Below, e
  <2>. QED
    BY <2>3, <2>4
<1>6. ASSUME NEW n \in Nat, NEW i \in W, i <= n PROVE Below(W, i) \in 1..Below(W, n)
  <2>1. i \in Nat /\ i <= i /\ \A j \in W : j <= i => j <= n
    BY <1>0, <1>6
  <2>2. i \in B(i) /\ B(i) \subseteq B(n)
    BY <2>1
  <2>3. Cardinality(B(i)) <= Cardinality(B(n))
    BY <1>2, <2>2, FS_Subset
  <2>4. Cardinality(B(i)) # 0
    BY <1>2, <2>1, <2>2, FS_EmptySet
  <2>. QED
    BY <1>2, <2>1, <2>3, <2>4 DEF Below
<1>. QED
  BY <1>1, <1>2, <1>3, <1>4, <1>5, <1>6 DEF Below

\* The wanted logs of a receipt are positions in it.
WantedIn(c) ==
    /\ Len(got[c].logs) \in Nat /\ DOMAIN got[c].logs = 1..Len(got[c].logs)
    /\ AllWanted(c) \subseteq 1..Len(got[c].logs)

LEMMA WantedShape == Shape => \A c \in Calls : got[c] # None => WantedIn(c)
<1> SUFFICES ASSUME Shape, NEW c \in Calls, got[c] # None PROVE WantedIn(c)
  OBVIOUS
<1>1. got[c].logs \in Seq(AnyLog)
  BY ReceiptShape, ContractOf DEF Shape, Flow
<1>. QED
  BY <1>1 DEF AllWanted, WantedIn

LEMMA WantedHolds == Shape' => (\A c \in Calls : got[c] # None => WantedIn(c))'
  BY WantedShape, PTL

\* A step that leaves the receipt, the order and the events of a call leaves what was gathered.
LEMMA SameGathered ==
    ASSUME order' = order, NEW c, got'[c] = got[c]
    PROVE  /\ AllWanted(c)' = AllWanted(c)
           /\ events'[c] = events[c] => \A n : Gathered(c, n)' <=> Gathered(c, n)
<1>1. AllWanted(c)' = AllWanted(c)
  BY DEF AllWanted, Wanted
<1>. QED
  BY <1>1 DEF Gathered, Below

LEMMA AskedKept ==
    ASSUME order' = order, NEW d, Same(d), Asked(d)
    PROVE  Asked(d)'
<1>1. /\ at'[d] = at[d] /\ next'[d] = next[d] /\ got'[d] = got[d]
      /\ events'[d] = events[d] /\ err'[d] = err[d]
  BY DEF Same
<1>2. \A n : Gathered(d, n)' <=> Gathered(d, n)
  BY <1>1, SameGathered
<1>3. Gathered(d, next[d] - 1)' <=> Gathered(d, next[d] - 1)
  BY <1>1, <1>2 DEF Gathered, Below, AllWanted, Wanted
<1>4. Gathered(d, Len(got[d].logs))' <=> Gathered(d, Len(got[d].logs))
  BY <1>1, <1>2 DEF Gathered, Below, AllWanted, Wanted
<1>. QED
  BY <1>1, <1>3, <1>4 DEF Asked

LEMMA FetchAsked ==
    ASSUME Shape, Shape', NEW c \in Calls, Fetch(c), Asked(c)
    PROVE  Asked(c)'
<1> SUFFICES ASSUME order[c].op = "logs" PROVE Asked(c)'
  BY DEF Asked, Fetch
<1>1. /\ at[c] = "receipt" /\ Domains /\ Domains' /\ order' = order /\ events[c] = <<>>
  BY DEF Asked, Fetch, Shape
<1>2. ASSUME NEW e \in Errs \ {"nil"}, Fails(c, e) PROVE Asked(c)'
  <2>1. at'[c] = "done" /\ err'[c] # "nil" /\ events'[c] = <<>>
    BY <1>1, <1>2 DEF Fails, Goto, Domains
  <2>. QED
    BY <2>1 DEF Asked
<1>3. ASSUME NEW r, got' = [got EXCEPT ![c] = r], Goto(c, "collect"), UNCHANGED <<events, err>>
      PROVE  Asked(c)'
  <2>1. at'[c] = "collect" /\ next'[c] = 1 /\ events'[c] = <<>>
    BY <1>1, <1>3 DEF Goto, Domains
  <2>2. got'[c] # None
    BY <2>1 DEF Shape, Flow, Got
  <2>3. WantedIn(c)'
    BY <2>2, WantedHolds
  <2> DEFINE W == AllWanted(c)'
             n == next[c]' - 1
  <2>4. n = 0 /\ Len(events'[c]) = 0
    BY <2>1
  <2>5. W \subseteq 1..Len(got[c].logs)' /\ Len(got[c].logs)' \in Nat
    BY <2>3 DEF WantedIn
  <2> HIDE DEF W
  <2>6. Below(W, 0) = 0
    BY <2>5, BelowGrows
  <2>7. \A i \in W : ~(i <= 0)
    BY <2>5
  <2>8. Gathered(c, next[c] - 1)'
    <3>1. Gathered(c, next[c] - 1)'
          <=> /\ Len(events'[c]) = Below(W, n)
              /\ \A i \in W : i <= n => events'[c][Below(W, i)] = got'[c].logs[i]
      BY DEF Gathered, Below, W
    <3>. QED
      BY <2>4, <2>6, <2>7, <3>1
  <2>. QED
    BY <2>1, <2>8 DEF Asked
<1>. QED
  BY <1>2, <1>3 DEF Fetch, Errs

LEMMA CollectAsked ==
    ASSUME Shape, NEW c \in Calls, CollectLog(c), Asked(c)
    PROVE  Asked(c)'
<1> SUFFICES ASSUME order[c].op = "logs" PROVE Asked(c)'
  BY DEF Asked, CollectLog
<1> DEFINE k == order[c].contract
           log == got[c].logs[next[c]]
           W == AllWanted(c)
<1>1. /\ at[c] = "collect" /\ UNCHANGED <<order, saw, got>> /\ err[c] = "nil" /\ got[c] # None
      /\ Domains /\ next[c] \in Nat \ {0} /\ events[c] \in Seq(AnyLog)
      /\ Gathered(c, next[c] - 1) /\ order[c].known \in BOOLEAN
  <2>1. order[c].known \in BOOLEAN
    BY SessionAssumption DEF Shape, Domains
  <2>. QED
    BY <2>1 DEF CollectLog, evm, Shape, Domains, Flow, Got, Asked
<1>2. PICK n \in Nat, m \in Nat : n = next[c] - 1 /\ m = Len(got[c].logs)
  <2>1. WantedIn(c)
    BY <1>1, WantedShape
  <2>. QED
    BY <1>1, <2>1 DEF WantedIn
<1>3. next[c] = n + 1 /\ DOMAIN got[c].logs = 1..m /\ W \subseteq 1..m
  BY <1>1, <1>2, WantedShape DEF WantedIn
<1>4. /\ \A i \in Nat : Below(W, i) \in Nat
      /\ \A i \in Nat : i >= m => Below(W, i) = Cardinality(W)
      /\ Below(W, n + 1) = IF n + 1 \in W THEN Below(W, n) + 1 ELSE Below(W, n)
      /\ \A i \in W : i <= n => Below(W, i) \in 1..Below(W, n)
  BY <1>3, BelowGrows
<1>5. Len(events[c]) = Below(W, n) /\ \A i \in W : i <= n => events[c][Below(W, i)] = got[c].logs[i]
  BY <1>1, <1>2 DEF Gathered
<1>6. ASSUME NEW x \in Nat, Len(events'[c]) = Below(W, x),
             \A i \in W : i <= x => events'[c][Below(W, i)] = got[c].logs[i]
      PROVE  Gathered(c, x)'
  <2>1. AllWanted(c)' = W /\ got' = got
    BY <1>1 DEF AllWanted, Wanted
  <2>. QED
    BY <1>6, <2>1 DEF Gathered, Below
<1>7. \A i \in W : i \in Nat /\ i <= m
  BY <1>2, <1>3
<1> HIDE DEF W
<1>8. CASE next[c] > Len(got[c].logs) /\ Goto(c, "done") /\ UNCHANGED <<events, err>>
  <2>1. at'[c] = "done" /\ err'[c] = "nil" /\ got'[c] # None
    BY <1>1, <1>8 DEF Goto, Domains
  <2>2. n >= m /\ m >= m
    BY <1>2, <1>3, <1>8
  <2>3. Below(W, n) = Below(W, m)
    BY <1>2, <1>4, <2>2
  <2>4. \A i \in W : i <= n
    BY <1>7, <2>2
  <2>5. Gathered(c, m)'
    BY <1>2, <1>5, <1>6, <1>8, <2>3, <2>4
  <2>6. Gathered(c, Len(got[c].logs))'
    BY <1>1, <1>2, <2>5 DEF Gathered
  <2>. QED
    BY <2>1, <2>6 DEF Asked
<1>9. ASSUME Stay(c), UNCHANGED err, Len(events'[c]) = Below(W, n + 1),
             \A i \in W : i <= n + 1 => events'[c][Below(W, i)] = got[c].logs[i]
      PROVE  Asked(c)'
  <2>1. at'[c] = "collect" /\ next'[c] = n + 2
    BY <1>1, <1>3, <1>9 DEF Stay, Domains
  <2>2. Gathered(c, n + 1)'
    BY <1>2, <1>6, <1>9
  <2>3. Gathered(c, next[c] - 1)'
    <3>1. next'[c] - 1 = n + 1
      BY <1>2, <2>1
    <3>. QED
      BY <2>2, <3>1 DEF Gathered
  <2>. QED
    BY <2>1, <2>3 DEF Asked
<1>10. ASSUME n + 1 \notin W, Stay(c), UNCHANGED <<events, err>> PROVE Asked(c)'
  <2>1. Len(events'[c]) = Below(W, n + 1)
    BY <1>4, <1>5, <1>10
  <2>2. \A i \in W : i <= n + 1 => i <= n
    BY <1>2, <1>7, <1>10
  <2>. QED
    BY <1>5, <1>9, <1>10, <2>1, <2>2
<1>11. ASSUME n + 1 \in W, Stay(c), UNCHANGED err,
              events' = [events EXCEPT ![c] = Append(events[c], log)]
       PROVE  Asked(c)'
  <2> DEFINE es == events[c]
  <2>1. events'[c] = Append(es, log) /\ es \in Seq(AnyLog)
    BY <1>1, <1>11 DEF Domains
  <2>2. Below(W, n + 1) = Len(es) + 1
    BY <1>4, <1>5, <1>11
  <2> HIDE DEF es
  <2>3. /\ Len(Append(es, log)) = Len(es) + 1 /\ Append(es, log)[Len(es) + 1] = log
        /\ \A j \in 1..Len(es) : Append(es, log)[j] = es[j]
    BY <2>1
  <2>4. ASSUME NEW i \in W, i <= n + 1 PROVE events'[c][Below(W, i)] = got[c].logs[i]
    <3>1. CASE i <= n
      <4>1. Below(W, i) \in 1..Len(es)
        BY <1>4, <1>5, <3>1 DEF es
      <4>. QED
        BY <1>5, <2>1, <2>3, <3>1, <4>1 DEF es
    <3>2. CASE i = n + 1
      BY <1>3, <2>1, <2>2, <2>3, <3>2
    <3>. QED
      BY <1>2, <1>7, <2>4, <3>1, <3>2
  <2>5. Len(events'[c]) = Below(W, n + 1)
    BY <2>1, <2>2, <2>3
  <2>. QED
    BY <1>9, <1>11, <2>4, <2>5
<1>12. ASSUME NEW e \in Errs \ {"nil"}, Fails(c, e) PROVE Asked(c)'
  <2>1. at'[c] = "done" /\ err'[c] # "nil" /\ events'[c] = <<>>
    BY <1>1, <1>12 DEF Fails, Goto, Domains
  <2>. QED
    BY <2>1 DEF Asked
<1>13. ASSUME next[c] <= Len(got[c].logs) PROVE n + 1 \in W <=> Wanted(c, log)
  <2>1. n + 1 \in 1..m
    BY <1>2, <1>3, <1>13
  <2>. QED
    BY <1>3, <2>1 DEF W, AllWanted
<1>14. CASE next[c] <= Len(got[c].logs) /\ IsCoverage(k, log) /\ Stay(c) /\ UNCHANGED <<events, err>>
  <2>1. ~Wanted(c, log)
    BY <1>14 DEF IsCoverage, Wanted
  <2>. QED
    BY <1>10, <1>13, <1>14, <2>1
<1>15. CASE next[c] <= Len(got[c].logs) /\ ~IsCoverage(k, log) /\ Return(c, log)
  <2>1. Wanted(c, log) <=> ~Another(order[c], log)
    BY <1>15 DEF IsCoverage, Wanted, Another
  <2>2. "ErrEventNotFound" \in Errs \ {"nil"} /\ "ErrEventParse" \in Errs \ {"nil"}
    BY DEF Errs
  <2>3. CASE Another(order[c], log) /\ Stay(c) /\ UNCHANGED <<events, err>>
    BY <1>10, <1>13, <1>15, <2>1, <2>3
  <2>4. CASE Fails(c, "ErrEventNotFound") \/ Fails(c, "ErrEventParse")
    BY <1>12, <2>2, <2>4
  <2>5. CASE /\ ~Another(order[c], log) /\ events' = [events EXCEPT ![c] = Append(@, log)]
             /\ Stay(c) /\ UNCHANGED err
    BY <1>11, <1>13, <1>15, <2>1, <2>5
  <2>. QED
    BY <1>15, <2>3, <2>4, <2>5 DEF Return
<1>. QED
  BY <1>8, <1>14, <1>15 DEF CollectLog

LEMMA AskedStep ==
    ASSUME Shape, Shape', NEW c \in Calls, Step(c), Asked(c)
    PROVE  Asked(c)'
<1>1. Domains /\ Flow(c) /\ Domains' /\ order' = order
  BY OnlyOne DEF Shape
<1>2. CASE order[c].op # "logs"
  BY <1>1, <1>2 DEF Asked
<1>3. CASE order[c].op = "logs" /\ (Load(c) \/ Add(c))
  <2>1. CASE Load(c)
    <3>1. got[c] = None /\ events[c] = <<>>
      BY <1>1, <1>3, <2>1 DEF Load, Flow, Got, Asked
    <3>2. CASE Fails(c, "ErrCall")
      <4>1. at'[c] = "done" /\ err'[c] # "nil" /\ events'[c] = <<>>
        BY <1>1, <3>2 DEF Fails, Goto, Domains
      <4>. QED
        BY <4>1 DEF Asked
    <3>3. CASE Goto(c, "add") /\ UNCHANGED events
      <4>1. at'[c] = "add" /\ events'[c] = <<>>
        BY <1>1, <3>1, <3>3 DEF Goto, Domains
      <4>. QED
        BY <4>1 DEF Asked
    <3>. QED
      BY <2>1, <3>1, <3>2, <3>3 DEF Load
  <2>2. CASE Add(c)
    <3>1. at[c] = "add" /\ events'[c] = <<>>
      BY <1>1, <1>3, <2>2 DEF Add, Asked
    <3>2. at'[c] \in {"add", "receipt"}
      <4>1. Added(c) = "receipt"
        BY <1>3 DEF Added
      <4>. QED
        BY <1>1, <2>2, <3>1, <4>1 DEF Add, Goto, Stay, Domains
    <3>. QED
      BY <3>1, <3>2 DEF Asked
  <2>. QED
    BY <1>3, <2>1, <2>2
<1>4. CASE order[c].op = "logs" /\ (Execute(c) \/ CollectTag(c))
  BY <1>4 DEF Execute, CollectTag, Asked
<1>. QED
  BY <1>2, <1>3, <1>4, FetchAsked, CollectAsked DEF Step

\* Logs returns the events it was asked for, all of them and in their order, among whatever
\* markers; asked for an event that the ABI has not, everything but its own markers; and
\* nothing with an error.
THEOREM LogsAsAsked == SessionSpec => []LogsInOrder
<1> DEFINE LInv == \A c \in Calls : Asked(c)
<1>1. SessionInit => LInv
  <2> SUFFICES ASSUME SessionInit, NEW c \in Calls PROVE Asked(c)
    OBVIOUS
  <2>. QED
    BY DEF SessionInit, Asked
<1>2. Shape /\ Reading /\ LInv /\ [SessionNext]_allVars => LInv'
  <2> SUFFICES ASSUME Shape, Reading, LInv, [SessionNext]_allVars, NEW d \in Calls PROVE Asked(d)'
    OBVIOUS
  <2>1. CASE UNCHANGED allVars
    <3>1. order' = order /\ Same(d)
      BY <2>1 DEF allVars, sessionVars, evm, Same
    <3>. QED
      BY <3>1, AskedKept
  <2>2. ASSUME NEW c \in Calls, Step(c) PROVE Asked(d)'
    <3>1. Shape' /\ order' = order /\ Only(c)
      BY <2>2, ShapeStep
    <3>2. CASE d = c
      BY <2>2, <3>1, <3>2, AskedStep
    <3>3. CASE d # c
      BY <3>1, <3>3, AskedKept DEF Only
    <3>. QED
      BY <3>2, <3>3
  <2>. QED
    BY <2>1, <2>2 DEF SessionNext, Ended, Step
<1>3. Shape /\ LInv => LogsInOrder
  <2> SUFFICES ASSUME Shape, LInv, NEW c \in Calls, order[c].op = "logs", at[c] = "done"
               PROVE  IF err[c] # "nil" THEN events[c] = <<>>
                      ELSE /\ Len(events[c]) = Cardinality(AllWanted(c))
                           /\ \A i \in AllWanted(c) :
                                 events[c][Below(AllWanted(c), i)] = got[c].logs[i]
    BY DEF LogsInOrder, AllWanted, Wanted, Below
  <2>1. Asked(c)
    OBVIOUS
  <2>2. ASSUME err[c] = "nil"
        PROVE  /\ Len(events[c]) = Cardinality(AllWanted(c))
               /\ \A i \in AllWanted(c) : events[c][Below(AllWanted(c), i)] = got[c].logs[i]
    <3>1. got[c] # None /\ Gathered(c, Len(got[c].logs))
      BY <2>1, <2>2 DEF Asked
    <3>2. WantedIn(c)
      BY <3>1, WantedShape
    <3> DEFINE W == AllWanted(c)
               m == Len(got[c].logs)
    <3>3. m \in Nat /\ W \subseteq 1..m
      BY <3>2 DEF WantedIn
    <3>4. Len(events[c]) = Below(W, m) /\ \A i \in W : i <= m => events[c][Below(W, i)] = got[c].logs[i]
      BY <3>1 DEF Gathered
    <3> HIDE DEF W, m
    <3>5. m >= m /\ \A i \in W : i <= m
      BY <3>3
    <3>6. Below(W, m) = Cardinality(W)
      BY <3>3, <3>5, BelowGrows
    <3>. QED
      BY <3>4, <3>5, <3>6 DEF W
  <2>. QED
    BY <2>1, <2>2 DEF Asked
<1>. QED
  BY <1>1, <1>2, <1>3, ShapeOfSession, PTL DEF SessionSpec

=============================================================================
