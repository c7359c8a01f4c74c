-------------------------- MODULE BuildCacheProofs --------------------------
(* Theorems about BuildCache, for any number of builds, names and texts.   *)
EXTENDS BuildCache, TLAPS

\* What an entry's file name says of the entry.
LEMMA EntryFileType ==
    ASSUME NEW n \in Names, NEW h \in Versions, NEW c \in BOOLEAN
    PROVE  /\ EntryFile(n, h, c) \in File
           /\ EntryFile(n, h, c)[2] = h
           /\ EntryFile(n, h, c)[3] = c
  BY CacheAssumption DEF EntryFile, File

-----------------------------------------------------------------------------
(* The inductive invariant.  That a hit answers the request and is fresh    *)
(* depends on what is on the disk, and that on what was in a build's hands  *)
(* when it wrote.                                                           *)

\* An entry is a contract of its text, has the mode its file name gives, and is of the text
\* that it gives if edits keep away.
DiskInv ==
    \A f \in File :
        disk[f] \in Contract
        => /\ disk[f].name \in Declares[disk[f].main]
           /\ disk[f].coverage = f[3]
           /\ ~EditsWhileStoring => disk[f].main = f[2]

\* What a build has in its hands.
BuildInv(b) ==
    /\ pc[b] \in {"hash", "read", "store", "open", "write"} => ~req[b].noCache
    /\ pc[b] \in {"read", "open", "write"} => hash[b] \in Versions
    /\ pc[b] \in {"store", "open", "write"} =>
          /\ built[b] \in Contract
          /\ built[b].name = req[b].name
          /\ built[b].coverage = req[b].coverage
          /\ built[b].name \in Declares[built[b].main]
    /\ ~EditsWhileStoring =>
          /\ pc[b] = "store" => built[b].main = main
          /\ pc[b] \in {"open", "write"} => built[b].main = hash[b]
    /\ pc[b] = "done" /\ result[b] # Nil =>
          result[b].name = req[b].name /\ result[b].coverage = req[b].coverage

IInv == TypeOK /\ DiskInv /\ \A b \in Builders : BuildInv(b)

\* The disk is empty at first and nobody builds.
LEMMA InitIInv == Init => IInv
  BY CacheAssumption DEF Init, IInv, TypeOK, DiskInv, BuildInv, Request, Contract

\* A build's step keeps the types.
LEMMA BuildTypeOK ==
    ASSUME IInv, NEW b \in Builders, Build(b)
    PROVE  TypeOK'
<1> USE CacheAssumption DEF IInv, TypeOK, Goto, Leave, Return
<1>1. CASE Start(b)
  BY <1>1 DEF Start
<1>2. CASE LoadHash(b)
  BY <1>2 DEF LoadHash
<1>3. CASE LoadRead(b)
  BY <1>3 DEF LoadRead, Checked
<1>4. CASE Compile(b)
  <2>1. [name |-> req[b].name, main |-> main, coverage |-> req[b].coverage] \in Contract
    BY DEF Contract, Request
  <2>. QED BY <1>4, <2>1 DEF Compile
<1>5. CASE StoreHash(b)
  BY <1>5 DEF StoreHash
<1>6. CASE StoreOpen(b)
  BY <1>6 DEF StoreOpen
<1>7. CASE StoreWrite(b)
  BY <1>7 DEF StoreWrite, Written, BuildInv
<1>8. CASE Kill(b)
  BY <1>8 DEF Kill
<1>. QED BY <1>1, <1>2, <1>3, <1>4, <1>5, <1>6, <1>7, <1>8 DEF Build

\* A build's step leaves the disk true to its file names.
LEMMA BuildDiskInv ==
    ASSUME IInv, NEW b \in Builders, Build(b)
    PROVE  DiskInv'
<1> USE CacheAssumption DEF IInv, DiskInv
<1>1. CASE StoreOpen(b)
  <2>1. \A f \in File : disk'[f] = disk[f] \/ disk'[f] = Torn
    BY <1>1 DEF StoreOpen, TypeOK
  <2>. QED BY <2>1
<1>2. CASE StoreWrite(b)
  <2>1. /\ StoreFile(b) \in File
        /\ StoreFile(b)[2] = hash[b]
        /\ StoreFile(b)[3] = built[b].coverage
    BY <1>2, EntryFileType DEF StoreWrite, StoreFile, BuildInv, Contract
  <2>2. \A f \in File : \/ disk'[f] = disk[f]
                        \/ disk'[f] = Torn
                        \/ f = StoreFile(b) /\ disk'[f] = built[b]
    BY <1>2 DEF StoreWrite, Written, TypeOK
  <2>3. /\ built[b].name \in Declares[built[b].main]
        /\ ~EditsWhileStoring => built[b].main = hash[b]
    BY <1>2 DEF StoreWrite, BuildInv
  <2>. QED BY <2>1, <2>2, <2>3
<1>3. CASE UNCHANGED disk
  BY <1>3
<1>. QED
  BY <1>1, <1>2, <1>3 DEF Build, Start, LoadHash, LoadRead, Compile, StoreHash, Kill

\* A build's step keeps what the invariant says of the build and of the others.
LEMMA BuildBuildInv ==
    ASSUME IInv, NEW b \in Builders, Build(b), NEW d \in Builders
    PROVE  BuildInv(d)'
<1> USE CacheAssumption DEF IInv, TypeOK, BuildInv, Goto, Leave, Return
<1>1. CASE Start(b)
  BY <1>1 DEF Start
<1>2. CASE LoadHash(b)
  BY <1>2 DEF LoadHash
<1>3. CASE LoadRead(b)
  <2>1. LoadFile(b) \in File /\ LoadFile(b)[3] = req[b].coverage
    BY <1>3, EntryFileType DEF LoadRead, LoadFile, Request
  <2>2. disk[LoadFile(b)] \in Contract => disk[LoadFile(b)].coverage = req[b].coverage
    BY <2>1 DEF DiskInv
  <2>. QED BY <1>3, <2>2 DEF LoadRead, Checked
<1>4. CASE Compile(b)
  <2>1. [name |-> req[b].name, main |-> main, coverage |-> req[b].coverage] \in Contract
    BY DEF Contract, Request
  <2>. QED BY <1>4, <2>1 DEF Compile
<1>5. CASE StoreHash(b)
  BY <1>5 DEF StoreHash
<1>6. CASE StoreOpen(b)
  BY <1>6 DEF StoreOpen
<1>7. CASE StoreWrite(b)
  BY <1>7 DEF StoreWrite
<1>8. CASE Kill(b)
  BY <1>8 DEF Kill
<1>. QED BY <1>1, <1>2, <1>3, <1>4, <1>5, <1>6, <1>7, <1>8 DEF Build

\* The invariant holds of every reachable state.
THEOREM Invariance == Spec => []IInv
<1>1. Init => IInv
  BY InitIInv
<1>2. IInv /\ [Next]_vars => IInv'
  <2> SUFFICES ASSUME IInv, [Next]_vars PROVE IInv'
    OBVIOUS
  <2>1. ASSUME NEW b \in Builders, Build(b) PROVE IInv'
    BY <2>1, BuildTypeOK, BuildDiskInv, BuildBuildInv DEF IInv
  <2>2. ASSUME NEW f \in File, Clear(f) PROVE IInv'
    BY <2>2, CacheAssumption DEF Clear, IInv, TypeOK, DiskInv, BuildInv
  <2>3. CASE Edit
    BY <2>3 DEF Edit, IInv, TypeOK, DiskInv, BuildInv
  <2>4. CASE UNCHANGED vars
    BY <2>4 DEF vars, IInv, TypeOK, DiskInv, BuildInv
  <2>. QED BY <2>1, <2>2, <2>3, <2>4 DEF Next
<1>. QED BY <1>1, <1>2, PTL DEF Spec

-----------------------------------------------------------------------------
(* The theorems                                                            *)

\* Every variable keeps to its domain.
THEOREM TypeCorrect == Spec => []TypeOK
<1>1. IInv => TypeOK
  BY DEF IInv
<1>. QED BY <1>1, Invariance, PTL

\* While edits keep away from stores, a hit was compiled from the text that was hashed.
THEOREM HitsFresh == ~EditsWhileStoring => (Spec => NoStaleHit)
<1> SUFFICES ASSUME ~EditsWhileStoring PROVE Spec => NoStaleHit
  OBVIOUS
<1>1. ASSUME IInv, [Next]_vars, NEW b \in Builders,
             pc[b] = "read", pc'[b] = "done", result'[b] # Nil
      PROVE  result'[b].main = hash[b]
  <2> USE CacheAssumption, <1>1 DEF IInv, TypeOK
  <2>0. PICK d \in Builders : Build(d)
    BY DEF Next, Clear, Edit, vars
  <2>1. LoadRead(b)
    <3>1. \A l : pc' # [pc EXCEPT ![d] = l] \/ d = b
      OBVIOUS
    <3>2. d = b
      BY <2>0, <3>1 DEF Build, Start, LoadHash, LoadRead, Compile, StoreHash, StoreOpen,
         StoreWrite, Kill, Goto, Leave, Return
    <3>3. ~Kill(b)
      BY DEF Kill, Leave
    <3>. QED BY <2>0, <3>2, <3>3 DEF Build, Start, LoadHash, Compile, StoreHash, StoreOpen,
         StoreWrite
  <2>2. result'[b] = disk[LoadFile(b)] /\ disk[LoadFile(b)] \in Contract
    BY <2>1 DEF LoadRead, Checked, Goto, Leave, Return
  <2>3. LoadFile(b) \in File /\ LoadFile(b)[2] = hash[b]
    BY EntryFileType DEF LoadFile, Request, BuildInv
  <2>. QED BY <2>2, <2>3 DEF DiskInv
<1>2. IInv /\ [Next]_vars =>
        [\A b \in Builders :
          pc[b] = "read" /\ pc'[b] = "done" /\ result'[b] # Nil
          => result'[b].main = hash[b]]_vars
  BY <1>1
<1>. QED BY <1>2, Invariance, PTL DEF Spec, NoStaleHit

-----------------------------------------------------------------------------
(* BuildCache implements BuildOutcome.  A hit is where it takes the         *)
(* invariant: that the entry is of a text that declares the contract, in    *)
(* the mode asked for and, where the source keeps still, of the text hashed.*)

\* What a build answers, in the terms of the promise.
LEMMA Answered ==
    ASSUME NEW b \in Builders, NEW c, TypeOK,
           pc[b] \notin {"idle", "done"}, Return(b, c), UNCHANGED <<main, req>>,
           \/ c = Nil
           \/ /\ c \in Contract
              /\ c.main \in Outcome!Texts(b)
              /\ c.name = req[b].name /\ c.coverage = req[b].coverage
              /\ c.name \in Declares[c.main]
    PROVE  Outcome!Answer(b)
<1> USE DEF TypeOK, Return, Leave
<1>1. c \in Contract => c = [name |-> c.name, main |-> c.main, coverage |-> c.coverage]
  BY DEF Contract
<1>2. (c = Nil \/ c \in Contract) /\ result' = [result EXCEPT ![b] = c]
  OBVIOUS
<1>3. \/ result' = [result EXCEPT ![b] = Nil]
      \/ \E v \in Outcome!Texts(b) :
            /\ req[b].name \in Declares[v]
            /\ result' = [result EXCEPT ![b] = Outcome!Compiled(b, v)]
  BY <1>1, <1>2 DEF Outcome!Compiled
<1>. QED BY <1>3 DEF Outcome!Answer

\* A build's step is a step of the promise, or none.
LEMMA BuildKeepsPromise ==
    ASSUME IInv, NEW b \in Builders, Build(b)
    PROVE  [Outcome!Next]_(Outcome!vars)
<1> USE CacheAssumption DEF IInv, TypeOK
<1>1. CASE Start(b)
  <2>1. Outcome!Ask(b)
    BY <1>1 DEF Start, Leave, Outcome!Ask
  <2>. QED BY <2>1 DEF Outcome!Next
<1>2. CASE LoadHash(b)
  <2>1. CASE Goto(b, "read") /\ hash' = [hash EXCEPT ![b] = main] /\ UNCHANGED <<built, handle>>
    <3>1. Outcome!Look(b)
      BY <1>2, <2>1 DEF LoadHash, Goto, Outcome!Look
    <3>. QED BY <3>1 DEF Outcome!Next
  <2>2. CASE Return(b, Nil)
    <3>1. Outcome!Answer(b)
      BY <1>2, <2>2, Answered DEF LoadHash
    <3>. QED BY <3>1 DEF Outcome!Next
  <2>. QED BY <1>2, <2>1, <2>2 DEF LoadHash
<1>3. CASE LoadRead(b)
  <2> DEFINE entry == disk[LoadFile(b)]
  <2>1. CASE Goto(b, "compile") /\ UNCHANGED <<hash, built, handle>>
    BY <1>3, <2>1 DEF LoadRead, Goto, Outcome!vars
  <2>2. ASSUME NEW c \in {Nil, Checked(b, entry)}, Return(b, c), c # Nil => entry \in Contract
        PROVE  Outcome!Answer(b)
    <3>1. pc[b] = "read" /\ UNCHANGED <<main, req>> /\ ~req[b].noCache /\ hash[b] \in Versions
      BY <1>3 DEF LoadRead, BuildInv
    <3>2. LoadFile(b) \in File /\ LoadFile(b)[2] = hash[b] /\ LoadFile(b)[3] = req[b].coverage
      BY <3>1, EntryFileType DEF LoadFile, Request
    <3>3. CASE c = Nil
      BY <2>2, <3>1, <3>3, Answered
    <3>4. CASE c # Nil
      <4>1. c = entry /\ c \in Contract /\ c.name = req[b].name
        BY <2>2, <3>4 DEF Checked
      <4>2. /\ c.name \in Declares[c.main] /\ c.coverage = req[b].coverage
            /\ ~EditsWhileStoring => c.main = hash[b]
        BY <3>2, <4>1 DEF DiskInv
      <4>3. c.main \in Outcome!Texts(b)
        BY <3>1, <4>1, <4>2 DEF Outcome!Texts, Contract
      <4>. QED BY <2>2, <3>1, <4>1, <4>2, <4>3, Answered
    <3>. QED BY <3>3, <3>4
  <2>. QED BY <1>3, <2>1, <2>2 DEF LoadRead, Outcome!Next
<1>4. CASE Compile(b)
  <2> DEFINE contract == [name |-> req[b].name, main |-> main, coverage |-> req[b].coverage]
  <2>1. contract \in Contract /\ pc[b] = "compile" /\ (req[b].noCache => main \in Outcome!Texts(b))
    BY <1>4 DEF Compile, Contract, Request, Outcome!Texts
  <2>2. CASE \/ Return(b, Nil)
             \/ req[b].name \in Declares[main] /\ req[b].noCache /\ Return(b, contract)
    <3>1. Outcome!Answer(b)
      BY <1>4, <2>1, <2>2, Answered DEF Compile
    <3>. QED BY <3>1 DEF Outcome!Next
  <2>3. CASE Goto(b, "store") /\ built' = [built EXCEPT ![b] = contract] /\ UNCHANGED <<hash, handle>>
    <3>1. Outcome!Look(b)
      BY <1>4, <2>1, <2>3 DEF Compile, Goto, Outcome!Look
    <3>. QED BY <3>1 DEF Outcome!Next
  <2>. QED BY <1>4, <2>2, <2>3 DEF Compile
<1>5. CASE StoreHash(b) \/ StoreOpen(b) \/ StoreWrite(b)
  <2>1. /\ pc[b] \in {"store", "open", "write"} /\ UNCHANGED <<main, req>>
        /\ Return(b, built[b]) \/ \E l \in {"open", "write"} : Goto(b, l) /\ UNCHANGED built
    BY <1>5 DEF StoreHash, StoreOpen, StoreWrite
  <2>2. CASE Return(b, built[b])
    <3>1. /\ built[b] \in Contract
          /\ built[b].name = req[b].name /\ built[b].coverage = req[b].coverage
          /\ built[b].name \in Declares[built[b].main]
          /\ ~req[b].noCache
      BY <2>1 DEF BuildInv
    <3>2. built[b].main \in Outcome!Texts(b)
      BY <2>1, <3>1 DEF Outcome!Texts, Contract
    <3>3. Outcome!Answer(b)
      BY <2>1, <2>2, <3>1, <3>2, Answered
    <3>. QED BY <3>3 DEF Outcome!Next
  <2>3. ASSUME NEW l \in {"open", "write"}, Goto(b, l), UNCHANGED built
        PROVE  UNCHANGED Outcome!vars
    <3>1. \A d \in Builders : d # b => pc'[d] = pc[d] /\ hash'[d] = hash[d]
      BY <1>5, <2>3 DEF StoreHash, StoreOpen, StoreWrite, Goto, Leave, Return
    <3>. QED BY <2>1, <2>3, <3>1 DEF Goto, Outcome!vars
  <2>. QED BY <2>1, <2>2, <2>3
<1>6. CASE Kill(b)
  <2>1. Outcome!Answer(b)
    BY <1>6 DEF Kill, Leave, Outcome!Answer
  <2>. QED BY <2>1 DEF Outcome!Next
<1>. QED BY <1>1, <1>2, <1>3, <1>4, <1>5, <1>6 DEF Build

\* A build returns what a compiler without a cache would have made of the source at one moment
\* of the call, and with edits during a store at least of some text that the source can have.
THEOREM CacheKeepsPromise == Spec => CompilesAtOneMoment
<1>1. Init => Outcome!Init
  BY DEF Init, Outcome!Init
<1>2. IInv /\ [Next]_vars => [Outcome!Next]_(Outcome!vars)
  <2> SUFFICES ASSUME IInv, [Next]_vars PROVE [Outcome!Next]_(Outcome!vars)
    OBVIOUS
  <2>1. ASSUME NEW b \in Builders, Build(b) PROVE [Outcome!Next]_(Outcome!vars)
    BY <2>1, BuildKeepsPromise
  <2>2. ASSUME NEW f \in File, Clear(f) PROVE UNCHANGED Outcome!vars
    BY <2>2 DEF Clear, Outcome!vars
  <2>3. CASE Edit
    BY <2>3 DEF Edit, Outcome!Next, Outcome!Edit
  <2>4. CASE UNCHANGED vars
    BY <2>4 DEF vars, Outcome!vars
  <2>. QED BY <2>1, <2>2, <2>3, <2>4 DEF Next
<1>. QED BY <1>1, <1>2, Invariance, PTL DEF Spec, CompilesAtOneMoment, Outcome!Spec

\* A build returns the contract it was asked for, in the mode it was asked for: the promise is
\* enough to see it.
THEOREM RequestAnswered == Spec => []Outcome!AnswersTheRequest
<1>1. Outcome!Init => Outcome!AnswersTheRequest
  BY DEF Outcome!Init, Outcome!AnswersTheRequest
<1>2. TypeOK /\ Outcome!AnswersTheRequest /\ [Outcome!Next]_(Outcome!vars)
      => Outcome!AnswersTheRequest'
  <2> SUFFICES ASSUME TypeOK, Outcome!AnswersTheRequest, [Outcome!Next]_(Outcome!vars)
               PROVE  Outcome!AnswersTheRequest'
    OBVIOUS
  <2> USE DEF TypeOK, Outcome!AnswersTheRequest
  <2>1. ASSUME NEW b \in Builders, Outcome!Ask(b) \/ Outcome!Look(b) \/ Outcome!Answer(b)
        PROVE  Outcome!AnswersTheRequest'
    BY <2>1 DEF Outcome!Ask, Outcome!Look, Outcome!Answer, Outcome!Compiled
  <2>2. CASE Outcome!Edit \/ UNCHANGED Outcome!vars
    BY <2>2 DEF Outcome!Edit, Outcome!vars
  <2>. QED BY <2>1, <2>2 DEF Outcome!Next
<1>. QED BY <1>1, <1>2, TypeCorrect, CacheKeepsPromise, PTL DEF CompilesAtOneMoment, Outcome!Spec

=============================================================================
