--------------------------- MODULE CoverageSession ---------------------------
(***************************************************************************)
(* A session with coverage: marked contracts are run by transactions and   *)
(* deployments, and what the runs emit is brought to the collector that    *)
(* the session's calls share (CoverageCollector, CoverageReport), in the   *)
(* order in which Deployer.Tx, Deploy and Logs do it.  What can befall the *)
(* transactions themselves is in TxPipeline; here they are executed once,  *)
(* reverted or not sent, and their calls hear of it or do not.  How        *)
(* contracts are marked, and so what a run of one emits, is in             *)
(* MarkedSession.                                                          *)
(*                                                                         *)
(* Each file's markers emit an event of their own, and a call knows that   *)
(* of its contract's file alone.                                           *)
(***************************************************************************)
EXTENDS CoverageReport

CONSTANTS
    Calls,    \* the calls of the session
    Orders,   \* what they may be asked: operation, contract and, for Logs, about the event
    Listed,   \* Listed[k]: Contract.Statements, the positions of those of every file
    Runs,     \* Runs[k]: the executions of the contract's functions
    Sites     \* Sites[k]: its statements: where one is, how it is marked ("tag", "marker" or
              \* "none") and the position in the mark

\* A contract of the session has the index of its own file among its files.
SessionContracts == {o.contract : o \in Orders}

\* The topic is that of the contract's own event.
IsCoverage(k, log) == log.kind = "marker" /\ log.src.file = k.own

\* An execution has the events it logs, those of the markers and those of the program, the
\* statements it comes to, its end, and the tag in the reason if that is a revert.
Outcome(k) == [logs: Seq([kind: {"marker", "event"}, src: Spot]), did: Seq(Spot),
               end: {"on", "return", "revert"}, tag: {<<>>} \union {<<s>> : s \in k.spots}]

ASSUME SessionAssumption ==
    /\ SessionContracts \subseteq Contracts
    /\ \A o \in Orders : o.op \in {"tx", "deploy", "logs"} /\ {o.known, o.unpack} \subseteq BOOLEAN
    /\ \A k \in SessionContracts :
          /\ Listed[k] \in Seq(k.spots)
          /\ Runs[k] \subseteq Outcome(k) /\ None \notin Outcome(k)
          /\ \A r \in Runs[k] :
                /\ r.end # "revert" => r.tag = <<>>
                /\ \A i \in DOMAIN r.logs : IsCoverage(k, r.logs[i]) => r.logs[i].src \in k.spots
          /\ \A s \in Sites[k] : s.mark \in k.spots
    /\ IsFiniteSet(Calls)

VARIABLES
    order,    \* order[c]: what call c was asked
    at,       \* at[c]: its next step
    next,     \* next[c]: its place in the list of statements, then in the logs
    saw,      \* saw[c]: the sources were known when c had tried to load them
    ran,      \* ran[c]: the execution of its transaction, if there was one
    got,      \* got[c]: the execution that c has the receipt of, or the reason
    whose,    \* whose[c]: the call whose transaction that was
    events,   \* events[c]: what Logs returns
    err       \* err[c]: the error of its coverage steps

evm == <<ran, got, whose>>
sessionVars == <<order, at, next, saw, evm, events, err>>
allVars == <<vars, sessionVars>>

SessionInit ==
    /\ Init
    /\ order \in [Calls -> Orders]
    /\ at = [c \in Calls |-> IF order[c].op = "deploy" THEN "run" ELSE "load"]
    /\ next = [c \in Calls |-> 1]
    /\ saw = [c \in Calls |-> FALSE]
    /\ ran = [c \in Calls |-> None]
    /\ got = [c \in Calls |-> None]
    /\ whose = [c \in Calls |-> None]
    /\ events = [c \in Calls |-> <<>>]
    /\ err = [c \in Calls |-> "nil"]

-----------------------------------------------------------------------------
(* What the steps are made of                                              *)

Goto(c, l) == at' = [at EXCEPT ![c] = l] /\ next' = [next EXCEPT ![c] = 1]
Stay(c) == next' = [next EXCEPT ![c] = @ + 1] /\ UNCHANGED at

\* A report about a name that is not known is an error, which is logged; a tag with a negative
\* part is ignored.
CollectIfKnown(k, s) == IF Known(k.name) /\ ~Negative(s) THEN Collect(k, s) ELSE UNCHANGED vars

Fails(c, e) ==
    /\ err' = [err EXCEPT ![c] = e] /\ events' = [events EXCEPT ![c] = <<>>]
    /\ Goto(c, "done")

-----------------------------------------------------------------------------
(* The steps of a call                                                     *)

\* The contract is asked for its event, and loaded; a Deploy that has a reason to look for a
\* tag in loads it without asking.
Load(c) ==
    LET k == order[c].contract IN
    /\ at[c] = "load"
    /\ \/ got[c] = None /\ Fails(c, "ErrCall") /\ UNCHANGED <<vars, saw>>
       \/ /\ IF k.paths # <<>> /\ ~Known(k.name) THEN LoadContract(k) ELSE UNCHANGED vars
          /\ saw' = [saw EXCEPT ![c] = paths'[k.name] # None]
          /\ Goto(c, IF got[c] = None THEN "add" ELSE "tag")
          /\ UNCHANGED <<events, err>>
    /\ UNCHANGED <<order, evm>>

Added(c) == IF order[c].op = "tx" THEN "run" ELSE "receipt"

Add(c) ==
    LET k == order[c].contract IN
    /\ at[c] = "add"
    /\ IF next[c] > Len(Listed[k])
       THEN Goto(c, Added(c)) /\ UNCHANGED vars
       ELSE /\ Stay(c)
            /\ LET s == Listed[k][next[c]]
               IN  IF Negative(s) \/ ~Known(k.name) THEN UNCHANGED vars ELSE AddStatement(k, s)
    /\ UNCHANGED <<order, saw, evm, events, err>>

\* The reason of a revert may remain unknown, or come as the error of the call that asks for
\* it, whose tag Tx does not look at.  For the tag, Deploy loads the contract first.
Told(r) == {r, [r EXCEPT !.tag = <<>>]}

Sent(c, r) ==
    IF order[c].op = "deploy" THEN IF r.tag = <<>> THEN "done" ELSE "load"
    ELSE IF r.end = "revert" THEN "tag" ELSE "collect"

Hears(c, r) ==
    \E told \in Told(r) :
        /\ got' = [got EXCEPT ![c] = told] /\ whose' = [whose EXCEPT ![c] = c]
        /\ Goto(c, Sent(c, told))

\* Tx up to the receipt with its logs and Deploy up to the address, if it comes to that: the
\* transaction is not sent, or executed without the call's hearing of it, or with it.
Execute(c) ==
    /\ at[c] = "run"
    /\ \/ Goto(c, "done") /\ UNCHANGED evm
       \/ \E r \in Runs[order[c].contract] :
             /\ ran' = [ran EXCEPT ![c] = r]
             /\ \/ Goto(c, "done") /\ UNCHANGED <<got, whose>>
                \/ (order[c].op = "tx" \/ r.end = "revert") /\ Hears(c, r)
                \/ /\ order[c].op = "deploy" /\ r.end # "revert"
                   /\ Goto(c, "load") /\ UNCHANGED <<got, whose>>
    /\ UNCHANGED <<vars, order, saw, events, err>>

\* The reason of a revert has at most one tag.
CollectTag(c) ==
    /\ at[c] = "tag"
    /\ IF got[c].tag # <<>> THEN CollectIfKnown(order[c].contract, got[c].tag[1]) ELSE UNCHANGED vars
    /\ Goto(c, "done")
    /\ UNCHANGED <<order, saw, evm, events, err>>

\* The receipt that Deploy fetches is its own; Logs is asked for that of any transaction to
\* the contract, heard of by its call or not.  There may be none, or no answer.
Subjects(c) ==
    IF order[c].op = "logs" THEN {d \in Calls : order[d].contract = order[c].contract} ELSE {c}

Fetch(c) ==
    /\ at[c] = "receipt"
    /\ \/ Fails(c, "ErrCall") /\ UNCHANGED evm
       \/ \E d \in {d \in Subjects(c) : ran[d] # None} :
             \/ ran[d].end = "revert" /\ Fails(c, "ErrTransactionReverted") /\ UNCHANGED evm
             \/ /\ ran[d].end # "revert"
                /\ got' = [got EXCEPT ![c] = ran[d]] /\ whose' = [whose EXCEPT ![c] = d]
                /\ Goto(c, "collect") /\ UNCHANGED <<ran, events, err>>
    /\ UNCHANGED <<vars, order, saw>>

\* What Logs makes of a log that is no coverage event: with the event in the ABI, another's
\* log is passed over, and the event's is unpacked; without it, an unpacker has nothing to
\* unpack, and lacking one every log is returned as it is.
Another_Kept(o, log) == FALSE
Another(o, log) == o.known /\ log.kind # "event"

Return(c, log) ==
    LET o == order[c] IN
    \/ Another(o, log) /\ Stay(c) /\ UNCHANGED <<events, err>>
    \/ ~o.known /\ o.unpack /\ Fails(c, "ErrEventNotFound")
    \/ ~Another(o, log) /\ o.known /\ Fails(c, "ErrEventParse")
    \/ /\ ~Another(o, log) /\ (o.known \/ ~o.unpack)
       /\ events' = [events EXCEPT ![c] = Append(@, log)]
       /\ Stay(c) /\ UNCHANGED err

\* The loop over the logs of the receipt, of Tx, Deploy and Logs.
CollectLog(c) ==
    LET k == order[c].contract
        log == got[c].logs[next[c]]
    IN
    /\ at[c] = "collect"
    /\ \/ next[c] > Len(got[c].logs) /\ Goto(c, "done") /\ UNCHANGED <<vars, events, err>>
       \/ /\ next[c] <= Len(got[c].logs)
          /\ IF IsCoverage(k, log)
             THEN CollectIfKnown(k, log.src) /\ Stay(c) /\ UNCHANGED <<events, err>>
             ELSE /\ IF order[c].op = "logs" THEN Return(c, log)
                                             ELSE Stay(c) /\ UNCHANGED <<events, err>>
                  /\ UNCHANGED vars
    /\ UNCHANGED <<order, saw, evm>>

Ended == (crashed \/ \A c \in Calls : at[c] = "done") /\ UNCHANGED allVars

SessionNext ==
    \/ /\ ~crashed
       /\ \E c \in Calls : Load(c) \/ Add(c) \/ Execute(c) \/ CollectTag(c) \/ Fetch(c) \/ CollectLog(c)
    \/ Ended

SessionSpec == SessionInit /\ [][SessionNext]_allVars

-----------------------------------------------------------------------------
(* What a session guarantees                                               *)

\* The calls whose receipts go into the counts of k, and those with a transaction executed
Of(k) == {c \in Calls : order[c].contract = k /\ got[c] # None /\ at[c] \in {"collect", "done"}}
Ran(k) == {d \in Calls : order[d].contract = k /\ ran[d] # None}

\* Where an execution comes to a statement that the collector should hear of: a require, when
\* it fails; any other, when it is run, but not one inherited from another file.
Comes(s, r) ==
    CASE s.by = "tag" -> IF r.tag = <<s.src>> THEN {0} ELSE {}
      [] s.by = "marker" /\ r.end # "revert" -> {i \in DOMAIN r.did : r.did[i] = s.src}
      [] OTHER -> {}

\* How often a statement was executed, and how often a call read that it was
TimesRun(k, s) == Cardinality(UNION {{d} \X Comes(s, ran[d]) : d \in Ran(k)})
TimesRead(k, s) == Cardinality(UNION {{c} \X Comes(s, got[c]) : c \in Of(k)})

\* The calls that read had the sources and came to the end of their logs.
Complete(k) == \A c \in Of(k) : at[c] = "done" /\ saw[c] /\ err[c] = "nil"

\* No two calls read one execution: a Logs for a transaction whose own call has its receipt
\* would be a second one.
ReadOnce(k) == \A c, d \in Of(k) : whose[c] = whose[d] => c = d

\* Every execution has a call that read all of it, the tag in its reason included.
AllRead(k) == \A d \in Ran(k) : \E c \in Of(k) : whose[c] = d /\ got[c] = ran[d]

\* From marking through the EVM and the logs to the collector: a count is how often calls read
\* that the statement was executed, each reading counted once.  It is not how often it was
\* executed: Logs counts again what the transaction's own call has counted, and an execution
\* that no call hears of, or whose tag comes in an error that Tx does not look at, is not
\* counted.  Where no receipt is read twice, nothing is counted twice, and where every
\* execution is read, none is missing (sol_coverage.go:189-208, deployer_tx.go:206-272,
\* deployer_logs.go:121-136, coverage.go:142-234).
CountsAreExecutions ==
    \A k \in {k \in SessionContracts : Known(k.name)} : \A s \in {s \in Sites[k] : ~Negative(s.mark)} :
        LET n == Counted(Descriptor(k.name, s.mark))
        IN  /\ n <= TimesRead(k, s) /\ (Complete(k) => n = TimesRead(k, s))
            /\ ReadOnce(k) => n <= TimesRun(k, s)
            /\ Complete(k) /\ AllRead(k) => n >= TimesRun(k, s)

\* Logs returns the events it was asked for, all of them and in their order, among whatever
\* markers; asked for an event that the ABI has not, everything but its own markers; and
\* nothing with an error (deployer_logs.go:121-184).
LogsInOrder ==
    \A c \in {c \in Calls : order[c].op = "logs" /\ at[c] = "done"} :
        LET Wanted(log) == IF order[c].known THEN log.kind = "event"
                           ELSE ~(log.kind = "marker" /\ log.src.file = order[c].contract.own)
            wanted == {i \in DOMAIN got[c].logs : Wanted(got[c].logs[i])}
        IN  IF err[c] # "nil" THEN events[c] = <<>>
            ELSE /\ Len(events[c]) = Cardinality(wanted)
                 /\ \A i \in wanted :
                       events[c][Cardinality({j \in wanted : j <= i})] = got[c].logs[i]

-----------------------------------------------------------------------------
(* What the counts ask of the marks: an execution emits for a statement as *)
(* much as it comes to it.  MarkedSession shows it of the marks that the    *)
(* code makes.                                                             *)

Emits(k, p, r) ==
    (IF r.tag = <<p>> THEN {0} ELSE {})
    \union {i \in DOMAIN r.logs : r.end # "revert" /\ IsCoverage(k, r.logs[i]) /\ r.logs[i].src = p}

Faithful ==
    \A k \in SessionContracts : \A r \in UNION {Told(q) : q \in Runs[k]} : \A s \in Sites[k] :
        Cardinality(Comes(s, r)) = Cardinality(Emits(k, s.mark, r))

=============================================================================
