--------------------------- MODULE CompileOutput ---------------------------
(***************************************************************************)
(* What etherman makes of the output of solc: solCompiler.Compile and      *)
(* CompileWithCoverage (sol/sol.go), with the part of addCoverageMarkers   *)
(* (sol/sol_coverage.go) that gives a contract its coverage ID and the     *)
(* standard JSON that build makes of its paths (standard_json.go).         *)
(*                                                                         *)
(* solc lists the sources by index and the contracts as "path:name".  Both *)
(* functions go from there through two maps, from names to paths and from  *)
(* indexes to names, and range over Go maps, in any order: where two       *)
(* entries meet in one key, either may be the one that stays.              *)
(***************************************************************************)
EXTENDS Naturals, Sequences, SequencesExt

CONSTANTS
    Names,        \* contract names
    Paths,        \* source files
    Interfaces,   \* the names that are interfaces: they carry no coverage ID
    MaxSources,   \* bound: sources of one compilation
    Blank         \* the empty string, as a name and as a path

ASSUME CompileAssumption ==
    /\ Blank \notin Names /\ Blank \notin Paths
    /\ Interfaces \subseteq Names
    /\ MaxSources \in Nat

Id == [path: Paths, name: Names]

VARIABLES
    coverage,   \* CompileWithCoverage, and not Compile
    sources,    \* sourceList
    ids,        \* the keys of contracts
    pathOf,     \* contractPathsByName
    nameAt,     \* contractNamesOrdered
    pc,         \* the next step
    idx,        \* the loop over contractNamesOrdered
    seen,       \* seenPaths
    files,      \* contractFilePaths
    markedAs,   \* markedAs[f]: the name in the coverage ID that file f's contracts were given
    result,     \* the map returned: names to the id the contract came from
    err,        \* the error returned
    json        \* the sources in the standard JSON that was made

vars == <<coverage, sources, ids, pathOf, nameAt, pc, idx, seen, files, markedAs, result, err, json>>
input == <<coverage, sources, ids>>

Init ==
    /\ coverage \in BOOLEAN
    /\ \E n \in 1..MaxSources :
          sources \in {s \in [1..n -> Paths] : IsInjective(s)}
    /\ ids \in SUBSET {id \in Id : id.path \in ToSet(sources)}
    /\ pathOf = [n \in {} |-> Blank]
    /\ nameAt = <<>>
    /\ pc = "solc"
    /\ idx = 1
    /\ seen = {}
    /\ files = <<>>
    /\ markedAs = [f \in Paths |-> Blank]
    /\ result = [n \in {} |-> Blank]
    /\ err = "nil"
    /\ json = {}

-----------------------------------------------------------------------------
(* What the steps are made of                                              *)

Declared(f) == {id \in ids : id.path = f}

\* One entry for each name, from any of the contracts that have it.
ByName == {g \in [{id.name : id \in ids} -> ids] : \A n \in DOMAIN g : g[n].name = n}

\* contractPathsByName[name] on the blank of an index that no name claimed
PathOf(n) == IF n = Blank THEN Blank ELSE pathOf[n]

\* The names that claim index i: those whose path is the source.
Claims(i) == {n \in DOMAIN pathOf : pathOf[n] = sources[i]}

Fail(e) == pc' = "done" /\ err' = e

-----------------------------------------------------------------------------
(* The steps of a compilation                                              *)

\* solc fails, prints what is not JSON, or compiles; no contracts are an error.
Solc ==
    /\ pc = "solc"
    /\ \/ Fail("solc") /\ UNCHANGED pathOf
       \/ ids = {} /\ Fail("no contracts") /\ UNCHANGED pathOf
       \/ /\ ids # {}
          /\ \E g \in ByName : pathOf' = [n \in DOMAIN g |-> g[n].path]
          /\ pc' = "order"
          /\ UNCHANGED err
    /\ UNCHANGED <<input, nameAt, idx, seen, files, markedAs, result, json>>

Order ==
    /\ pc = "order"
    /\ nameAt' \in {s \in [DOMAIN sources -> Names \union {Blank}] :
                       \A i \in DOMAIN sources :
                          IF Claims(i) = {} THEN s[i] = Blank ELSE s[i] \in Claims(i)}
    /\ pc' = "walk"
    /\ UNCHANGED <<input, pathOf, idx, seen, files, markedAs, result, err, json>>

\* Compile: the path of each index, once.
Listed_Seen(f) == IF f \in seen THEN Append(files, f) ELSE files
Listed(f) == IF f \in seen THEN files ELSE Append(files, f)

Walk ==
    /\ pc = "walk" /\ ~coverage /\ idx <= Len(sources)
    /\ LET f == PathOf(nameAt[idx]) IN files' = Listed(f) /\ seen' = seen \union {f}
    /\ idx' = idx + 1
    /\ UNCHANGED <<input, pathOf, nameAt, pc, markedAs, result, err, json>>

\* addCoverageMarkers: every contract of the file that is no interface gets the coverage ID,
\* in the name that its index has.  There is no AST under the blank path, and any other may be
\* one that it does not understand.
Marked_Main(f, n) == nameAt[1]
Marked(f, n) == n

NoAST_Skipped(f) == FALSE
NoAST(f) == f = Blank

WalkCovered ==
    /\ pc = "walk" /\ coverage /\ idx <= Len(sources)
    /\ LET n == nameAt[idx]
           f == PathOf(n)
       IN  /\ seen' = seen \union {f}
           /\ \/ /\ Fail(IF f \in seen THEN "multiple contracts in the same file"
                         ELSE "failed to orchestrate")
                 /\ UNCHANGED <<idx, files, markedAs>>
              \/ /\ f \notin seen /\ ~NoAST(f)
                 /\ files' = Append(files, f)
                 /\ markedAs' = [g \in Paths |-> IF g = f THEN Marked(f, n) ELSE markedAs[g]]
                 /\ idx' = idx + 1
                 /\ UNCHANGED <<pc, err>>
    /\ UNCHANGED <<input, pathOf, nameAt, result, json>>

\* The contracts by their names; with coverage, as solc compiled them from the marked AST.
Finish ==
    /\ pc = "walk" /\ idx > Len(sources)
    /\ \/ coverage /\ Fail("solc") /\ UNCHANGED result
       \/ pc' = "done" /\ result' \in ByName /\ UNCHANGED err
    /\ UNCHANGED <<input, pathOf, nameAt, idx, seen, files, markedAs, json>>

\* build --standard-json: the sources in AllPaths are read again, and none may fail.
Unreadable_Skipped(f) == FALSE
Unreadable(f) == f = Blank

CollectStandardJSON ==
    /\ pc = "done" /\ err = "nil"
    /\ pc' = "collected"
    /\ \/ err' = "failed to collect" /\ UNCHANGED json
       \/ /\ ~\E f \in ToSet(files) : Unreadable(f)
          /\ json' = ToSet(files)
          /\ UNCHANGED err
    /\ UNCHANGED <<input, pathOf, nameAt, idx, seen, files, markedAs, result>>

Done == pc \in {"done", "collected"} /\ UNCHANGED vars

Next == Solc \/ Order \/ Walk \/ WalkCovered \/ Finish \/ CollectStandardJSON \/ Done

Spec == Init /\ [][Next]_vars

-----------------------------------------------------------------------------
(* What the compilation guarantees                                         *)

Succeeded == pc \in {"done", "collected"} /\ err = "nil"

\* Names are unique, and every source has one contract.
Tidy ==
    /\ \A id1, id2 \in ids : id1.name = id2.name \/ id1.path = id2.path => id1 = id2
    /\ \A i \in DOMAIN sources : Declared(sources[i]) # {}

\* Every variable keeps to its domain.
TypeOK ==
    /\ coverage \in BOOLEAN
    /\ sources \in Seq(Paths)
    /\ ids \subseteq Id
    /\ DOMAIN pathOf \subseteq Names /\ \A n \in DOMAIN pathOf : pathOf[n] \in Paths
    /\ nameAt \in Seq(Names \union {Blank})
    /\ pc \in {"solc", "order", "walk", "done", "collected"}
    /\ idx \in 1..(Len(sources) + 1)
    /\ seen \subseteq Paths \union {Blank}
    /\ files \in Seq(Paths \union {Blank})
    /\ markedAs \in [Paths -> Names \union {Blank}]
    /\ DOMAIN result \subseteq Names /\ \A n \in DOMAIN result : result[n] \in ids
    /\ err \in {"nil", "solc", "no contracts", "failed to orchestrate",
                "multiple contracts in the same file", "failed to collect"}
    /\ json \subseteq Paths

\* The file numbers that solc puts into the source positions of a covered contract are
\* indexes into its AllPaths, whatever order the maps were walked in: the collector reads the
\* one by the other (sol.go:243-267, coverage.go:129).
IndexNamesFile == Succeeded /\ coverage => files = sources

\* In a covered build of one contract to a file and name, every contract that is no
\* interface is marked with the name that GetCoverageEventInfo will ask it for
\* (coverage_event.go:35, 100-118).
AnswersToItsName ==
    Succeeded /\ coverage /\ Tidy
    => \A n \in DOMAIN result \ Interfaces : markedAs[result[n].path] = n

\* A source of its own contract is never missing from AllPaths, which the standard JSON is
\* made from, and none is there twice (sol.go:148-160).
EveryFileListed ==
    Succeeded /\ Tidy => ToSet(files) = ToSet(sources) /\ IsInjective(files)

\* A standard JSON is of all the sources that the contract was compiled from, whatever they
\* declare: the blank that stands for one without a contract, or for one whose contracts'
\* names were taken by others, makes none of it and not a JSON that misses it
\* (sol.go:150, standard_json.go:36).
StandardJSONComplete == pc = "collected" /\ err = "nil" => json = ToSet(sources)

-----------------------------------------------------------------------------
(* What is said of it and does not hold                                    *)

\* "multiple contracts in the same file is a big no-no" (sol.go:247): a covered build of such
\* a file is refused.  The check looks for a path met twice, and a path has one index.
OneContractPerFile ==
    Succeeded /\ coverage
    => \A id1, id2 \in ids : id1.path = id2.path => id1 = id2

=============================================================================
