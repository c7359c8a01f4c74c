----------------------------- MODULE BuildCache -----------------------------
(***************************************************************************)
(* getCompiledContract (deployer/util.go) over the build cache             *)
(* (deployer/build_cache.go): builds that share one cache directory, each  *)
(* a goroutine or an etherman process of its own, while the source is      *)
(* edited, a build is killed or a disk is full.                            *)
(*                                                                         *)
(* The source's text is its version, and so is the hash of the text.  The  *)
(* compiled contract remembers the version it was compiled from; of its    *)
(* imports, which no cache key knows, nothing is said.                     *)
(***************************************************************************)
EXTENDS Naturals, FiniteSets

CONSTANTS
    Builders,           \* builds that run at the same time
    Names,              \* contract names
    Lower,              \* strings.ToLower on them
    Versions,           \* texts of the main source file
    Declares,           \* the contracts a text declares
    EditsWhileStoring,  \* the source may change between compilation and hashing for the store
    Interrupts,         \* a build may be killed, a write may fail
    NoEntry,            \* what a missing cache file reads as
    Torn,               \* what a file cut short, or two writes in one, read as
    Nil                 \* the nil contract

Contract == [name: Names, main: Versions, coverage: BOOLEAN]
Request == [name: Names, coverage: BOOLEAN, noCache: BOOLEAN]
File == {Lower[n] : n \in Names} \X Versions \X BOOLEAN

ASSUME CacheAssumption ==
    /\ DOMAIN Lower = Names
    /\ Declares \in [Versions -> SUBSET Names]
    /\ EditsWhileStoring \in BOOLEAN
    /\ Interrupts \in BOOLEAN
    /\ {NoEntry, Torn, Nil} \cap Contract = {}
    /\ NoEntry # Torn

VARIABLES
    main,     \* the text of the source
    disk,     \* disk[f]: what cache file f holds
    pc,       \* pc[b]: the next step of build b
    req,      \* req[b]: its arguments and options
    hash,     \* hash[b]: the hash of the source it took last
    built,    \* built[b]: the contract it compiled
    handle,   \* handle[b]: the file it writes is its own, another build's too, or unlinked
    result    \* result[b]: what it returned

vars == <<main, disk, pc, req, hash, built, handle, result>>

Init ==
    /\ main \in Versions
    /\ disk = [f \in File |-> NoEntry]
    /\ pc = [b \in Builders |-> "idle"]
    /\ req \in [Builders -> {r \in Request : ~r.coverage /\ ~r.noCache}]
    /\ hash = [b \in Builders |-> Nil]
    /\ built = [b \in Builders |-> Nil]
    /\ handle = [b \in Builders |-> "sole"]
    /\ result = [b \in Builders |-> Nil]

-----------------------------------------------------------------------------
(* What the steps are made of                                              *)

Goto(b, l) == pc' = [pc EXCEPT ![b] = l] /\ UNCHANGED result

\* A build that ends, its locals with it.
Leave(b, l, c) ==
    /\ pc' = [pc EXCEPT ![b] = l]
    /\ result' = [result EXCEPT ![b] = c]
    /\ hash' = [hash EXCEPT ![b] = Nil]
    /\ built' = [built EXCEPT ![b] = Nil]
    /\ handle' = [handle EXCEPT ![b] = "sole"]

Return(b, c) == Leave(b, "done", c)

\* sol_<lower name>_<hash>.json, or sol_<lower name>_<hash>_coverage.json
EntryFile_NoSuffix(name, h, coverage) == <<Lower[name], h, FALSE>>
EntryFile(name, h, coverage) == <<Lower[name], h, coverage>>

LoadFile(b) == EntryFile(req[b].name, hash[b], req[b].coverage)
StoreFile(b) == EntryFile(built[b].name, hash[b], built[b].coverage)

\* The builds that have the file open for writing.
Writers(f) == {b \in Builders : pc[b] = "write" /\ StoreFile(b) = f /\ handle[b] # "unlinked"}

\* What a write leaves: each build writes at the offsets of its own handle, so the tail of a
\* longer entry may outlive a shorter one written over it.
Written_Null(b) == {Nil}
Written(b) == {built[b]} \union (IF handle[b] = "mixed" THEN {Torn} ELSE {})

-----------------------------------------------------------------------------
(* The steps of a build                                                    *)

\* getCompiledContract is called; a cache directory that cannot be made is done without.
Start(b) ==
    /\ pc[b] \in {"idle", "done"}
    /\ \E r \in Request, l \in {"hash", "compile"} :
          /\ r.noCache => l = "compile"
          /\ req' = [req EXCEPT ![b] = r]
          /\ Leave(b, l, Nil)
    /\ UNCHANGED <<main, disk>>

\* LoadContract hashes the source ...
LoadHash(b) ==
    /\ pc[b] = "hash"
    /\ \/ Goto(b, "read") /\ hash' = [hash EXCEPT ![b] = main] /\ UNCHANGED <<built, handle>>
       \/ Return(b, Nil)
    /\ UNCHANGED <<main, disk, req>>

\* ... and reads the entry.  A name that differs in case finds the other's file: the error
\* made for it wraps a nil one and is nil too, so the nil contract goes out as loaded.
Checked(b, entry) == IF entry.name = req[b].name THEN entry ELSE Nil

LoadRead(b) ==
    /\ pc[b] = "read"
    /\ LET entry == disk[LoadFile(b)] IN
          \/ entry = NoEntry /\ Goto(b, "compile") /\ UNCHANGED <<hash, built, handle>>
          \/ (entry = Torn \/ Interrupts) /\ Return(b, Nil)
          \/ entry \in Contract /\ Return(b, Checked(b, entry))
    /\ UNCHANGED <<main, disk, req>>

\* solc reads the source and compiles every contract in it; the one asked for may be missing.
Compile(b) ==
    /\ pc[b] = "compile"
    /\ LET contract == [name |-> req[b].name, main |-> main, coverage |-> req[b].coverage] IN
          \/ /\ req[b].name \in Declares[main]
             /\ IF req[b].noCache THEN Return(b, contract)
                ELSE /\ Goto(b, "store")
                     /\ built' = [built EXCEPT ![b] = contract]
                     /\ UNCHANGED <<hash, handle>>
          \/ Return(b, Nil)
    /\ UNCHANGED <<main, disk, req>>

\* StoreContract hashes the source once more, as it is by now.  Whatever goes wrong from
\* here on is logged, and the contract returned.
StoreHash(b) ==
    /\ pc[b] = "store"
    /\ \/ Goto(b, "open") /\ hash' = [hash EXCEPT ![b] = main] /\ UNCHANGED <<built, handle>>
       \/ Return(b, built[b])
    /\ UNCHANGED <<main, disk, req>>

\* ioutil.WriteFile truncates the file when it opens it ...
StoreOpen(b) ==
    /\ pc[b] = "open"
    /\ \/ LET others == Writers(StoreFile(b)) IN
             /\ disk' = [disk EXCEPT ![StoreFile(b)] = Torn]
             /\ handle' = [d \in Builders |->
                              IF d \in others THEN "mixed"
                              ELSE IF d # b THEN handle[d]
                              ELSE IF others = {} THEN "sole" ELSE "mixed"]
             /\ Goto(b, "write")
             /\ UNCHANGED <<hash, built>>
       \/ Return(b, built[b]) /\ UNCHANGED disk
    /\ UNCHANGED <<main, req>>

\* ... and fills it, unless the write fails half-way.
StoreWrite(b) ==
    /\ pc[b] = "write"
    /\ \/ /\ handle[b] # "unlinked"
          /\ \E e \in Written(b) : disk' = [disk EXCEPT ![StoreFile(b)] = e]
       \/ (Interrupts \/ handle[b] = "unlinked") /\ UNCHANGED disk
    /\ Return(b, built[b])
    /\ UNCHANGED <<main, req>>

\* The process is killed between two steps; another takes its place.
Kill(b) ==
    /\ Interrupts /\ pc[b] \notin {"idle", "done"}
    /\ Leave(b, "idle", Nil)
    /\ UNCHANGED <<main, disk, req>>

Build(b) ==
    \/ Start(b) \/ LoadHash(b) \/ LoadRead(b) \/ Compile(b)
    \/ StoreHash(b) \/ StoreOpen(b) \/ StoreWrite(b) \/ Kill(b)

\* Clear removes the entries one by one; who has the file open goes on writing to no file.
Clear(f) ==
    /\ disk[f] # NoEntry
    /\ disk' = [disk EXCEPT ![f] = NoEntry]
    /\ handle' = [b \in Builders |-> IF b \in Writers(f) THEN "unlinked" ELSE handle[b]]
    /\ UNCHANGED <<main, pc, req, hash, built, result>>

\* Somebody edits the source.
Edit ==
    /\ EditsWhileStoring \/ \A b \in Builders : pc[b] # "store"
    /\ main' \in Versions \ {main}
    /\ UNCHANGED <<disk, pc, req, hash, built, handle, result>>

Next == (\E b \in Builders : Build(b)) \/ (\E f \in File : Clear(f)) \/ Edit

Spec == Init /\ [][Next]_vars

-----------------------------------------------------------------------------
(* What the cache guarantees                                               *)

\* Every variable keeps to its domain.
TypeOK ==
    /\ main \in Versions
    /\ disk \in [File -> Contract \union {NoEntry, Torn}]
    /\ pc \in [Builders -> {"idle", "hash", "read", "compile", "store", "open", "write", "done"}]
    /\ req \in [Builders -> Request]
    /\ hash \in [Builders -> Versions \union {Nil}]
    /\ built \in [Builders -> Contract \union {Nil}]
    /\ handle \in [Builders -> {"sole", "mixed", "unlinked"}]
    /\ result \in [Builders -> Contract \union {Nil}]

\* What of it BuildOutcome knows: before a contract is there, a build has looked at the text
\* it hashed; from then on, at the one it compiled.
Outcome == INSTANCE BuildOutcome WITH
    Steady <- ~EditsWhileStoring,
    busy <- [b \in Builders |-> pc[b] \notin {"idle", "done"}],
    seen <- [b \in Builders |->
                IF pc[b] \in {"store", "open", "write"} THEN built[b].main ELSE hash[b]]

\* Whoever else builds, writes, clears or dies in the same directory, a build that returns a
\* contract returns the one it was asked for, in the mode it was asked for, as a compiler
\* would have made it of the source at one moment of the call (util.go:106-153,
\* build_cache.go:57-126).
CompilesAtOneMoment == Outcome!Spec

\* A hit is the contract compiled from the very text whose hash was taken, as long as the
\* source holds still from its compilation to its store (build_cache.go:57-64, 91-103).
NoStaleHit ==
    [][\A b \in Builders :
          pc[b] = "read" /\ pc'[b] = "done" /\ result'[b] # Nil
          => result'[b].main = hash[b]]_vars

-----------------------------------------------------------------------------
(* What is said of it and does not hold                                    *)

\* "codeHash" (build_cache.go:30): an entry was compiled from the code whose hash it states.
CodeHashNamesTheCode == \A f \in File : disk[f] \in Contract => disk[f].main = f[2]

=============================================================================
