------------------------- MODULE CompileOutputProofs -------------------------
(* Theorems about CompileOutput, for any output of solc.                   *)
EXTENDS CompileOutput, TLAPS

-----------------------------------------------------------------------------
(* The inductive invariant: an index has the name of one of its source's   *)
(* contracts, or the blank; the paths listed so far are those of the       *)
(* indexes gone through, and with coverage they are the sources.           *)

InputInv ==
    /\ coverage \in BOOLEAN
    /\ sources \in Seq(Paths) /\ IsInjective(sources)
    /\ ids \subseteq Id
    /\ \A id \in ids : id.path \in ToSet(sources)

\* contractPathsByName: each name has the path of one of its contracts.
PathInv ==
    pc = "solc" \/ (pc = "done" /\ err # "nil")
    \/ /\ DOMAIN pathOf = {id.name : id \in ids}
       /\ \A n \in DOMAIN pathOf : \E id \in ids : id.name = n /\ id.path = pathOf[n]

\* The name at an index
Named(i) == IF Claims(i) = {} THEN nameAt[i] = Blank ELSE nameAt[i] \in Claims(i)

Walking == pc \in {"walk", "collected"} \/ (pc = "done" /\ err = "nil")

\* The path that goes into the list for an index
Listing(i) == PathOf(nameAt[i])

OrderInv ==
    Walking => /\ DOMAIN nameAt = DOMAIN sources
               /\ \A i \in DOMAIN sources : Named(i)

ListInv ==
    /\ idx \in Nat \ {0}
    /\ pc \in {"solc", "order"} => idx = 1 /\ files = <<>> /\ seen = {}
    /\ Walking =>
          /\ idx <= Len(sources) + 1
          /\ files \in Seq(Paths \union {Blank})
          /\ coverage => /\ Len(files) = idx - 1
                         /\ \A j \in 1..(idx - 1) : files[j] = sources[j] /\ markedAs[sources[j]] = nameAt[j]
          /\ ~coverage => /\ ToSet(files) = {Listing(j) : j \in 1..(idx - 1)} /\ seen = ToSet(files)
                          /\ IsInjective(files)
          /\ pc # "walk" => idx = Len(sources) + 1

ResultInv == pc \in {"done", "collected"} /\ err = "nil" => result \in ByName

IInv == InputInv /\ PathInv /\ OrderInv /\ ListInv /\ ResultInv
        /\ pc \in {"solc", "order", "walk", "done", "collected"}
        /\ (pc \in {"solc", "order", "walk"} => err = "nil")
        /\ (pc = "collected" /\ err = "nil" => json = ToSet(files) /\ Blank \notin ToSet(files))
        /\ markedAs \in [Paths -> Names \union {Blank}]

\* The path of an index is that of its source, or the blank if no name claims it.
LEMMA ListingIsSource ==
    ASSUME IInv, Walking, NEW i \in DOMAIN sources
    PROVE  /\ sources[i] \in Paths
           /\ Claims(i) = {} => Listing(i) = Blank
           /\ Claims(i) # {} => Listing(i) = sources[i] /\ nameAt[i] # Blank
<1>1. sources[i] \in Paths /\ Named(i)
  BY DEF IInv, InputInv, OrderInv
<1>2. Claims(i) = {} => Listing(i) = Blank
  BY <1>1 DEF Named, Listing, PathOf
<1>3. ASSUME Claims(i) # {} PROVE Listing(i) = sources[i] /\ nameAt[i] # Blank
  <2>1. nameAt[i] \in DOMAIN pathOf /\ pathOf[nameAt[i]] = sources[i]
    BY <1>1, <1>3 DEF Named, Claims
  <2>2. PathInv /\ ids \subseteq Id
    BY DEF IInv, InputInv
  <2>3. DOMAIN pathOf \subseteq Names
    BY <2>2 DEF PathInv, Walking, Id
  <2>. QED
    BY <2>1, <2>3, CompileAssumption DEF Listing, PathOf
<1>. QED
  BY <1>1, <1>2, <1>3

LEMMA InitIInv == Init => IInv
<1> SUFFICES ASSUME Init PROVE IInv
  OBVIOUS
<1>1. InputInv
  <2>1. PICK n \in 1..MaxSources : sources \in [1..n -> Paths] /\ IsInjective(sources)
    BY DEF Init
  <2>. QED
    BY <2>1, CompileAssumption DEF Init, InputInv
<1>. QED
  BY <1>1 DEF Init, IInv, PathInv, OrderInv, ListInv, ResultInv, Walking

LEMMA SolcStep == ASSUME IInv, Solc PROVE IInv'
<1>1. UNCHANGED <<coverage, sources, ids, nameAt, idx, seen, files, markedAs, result, json>> /\ pc = "solc" /\ err = "nil"
  BY DEF Solc, input, IInv
<1>2. InputInv'
  BY <1>1 DEF IInv, InputInv
<1>3. CASE pc' = "done" /\ err' # "nil"
  BY <1>1, <1>2, <1>3 DEF IInv, PathInv, OrderInv, ListInv, ResultInv, Walking
<1>4. ASSUME NEW g \in ByName, pathOf' = [n \in DOMAIN g |-> g[n].path], pc' = "order", UNCHANGED err
      PROVE  IInv'
  <2>1. DOMAIN g = {id.name : id \in ids} /\ \A n \in DOMAIN g : g[n] \in ids /\ g[n].name = n
    BY DEF ByName
  <2>2. PathInv'
    BY <1>1, <1>4, <2>1 DEF PathInv
  <2>. QED
    BY <1>1, <1>2, <1>4, <2>2 DEF IInv, OrderInv, ListInv, ResultInv, Walking
<1>. QED
  BY <1>1, <1>3, <1>4 DEF Solc, Fail

LEMMA OrderStep == ASSUME IInv, Order PROVE IInv'
<1>1. UNCHANGED <<coverage, sources, ids, pathOf, idx, seen, files, markedAs, result, err, json>> /\ pc = "order" /\ pc' = "walk"
  BY DEF Order, input
<1>2. InputInv' /\ PathInv'
  BY <1>1 DEF IInv, InputInv, PathInv
<1>3. OrderInv'
  BY <1>1 DEF Order, OrderInv, Named, Claims
<1>4. ListInv'
  BY <1>1 DEF IInv, InputInv, ListInv, Walking, Listing, IsInjective, ToSet
<1>. QED
  BY <1>1, <1>2, <1>3, <1>4 DEF IInv, ResultInv

\* A path that is appended stands at the end, and is one more.
LEMMA Appended ==
    ASSUME NEW S, NEW s \in Seq(S), NEW e \in S
    PROVE  /\ Append(s, e) \in Seq(S)
           /\ Len(Append(s, e)) = Len(s) + 1
           /\ \A j \in 1..Len(s) : Append(s, e)[j] = s[j]
           /\ Append(s, e)[Len(s) + 1] = e
           /\ ToSet(Append(s, e)) = ToSet(s) \union {e}
           /\ IsInjective(s) /\ e \notin ToSet(s) => IsInjective(Append(s, e))
<1>1. /\ Append(s, e) \in Seq(S) /\ Len(Append(s, e)) = Len(s) + 1
      /\ \A j \in 1..Len(s) : Append(s, e)[j] = s[j]
      /\ Append(s, e)[Len(s) + 1] = e
  OBVIOUS
<1>2. DOMAIN s = 1..Len(s) /\ DOMAIN Append(s, e) = 1..(Len(s) + 1) /\ Len(s) \in Nat
  OBVIOUS
<1>3. ToSet(Append(s, e)) = ToSet(s) \union {e}
  BY <1>1, <1>2 DEF ToSet
<1>4. IsInjective(s) /\ e \notin ToSet(s) => IsInjective(Append(s, e))
  BY <1>1, <1>2 DEF ToSet, IsInjective
<1>. QED
  BY <1>1, <1>3, <1>4

\* Compile lists the path of an index once.
LEMMA WalkStep == ASSUME IInv, Walk PROVE IInv'
<1> DEFINE f == Listing(idx)
<1>1. /\ UNCHANGED <<coverage, sources, ids, pathOf, nameAt, pc, markedAs, result, err, json>>
      /\ pc = "walk" /\ ~coverage /\ idx <= Len(sources) /\ idx' = idx + 1
      /\ files' = Listed(f) /\ seen' = seen \union {f}
  BY DEF Walk, input, Listing
<1>2. /\ idx \in DOMAIN sources /\ idx \in Nat \ {0} /\ Len(sources) \in Nat
      /\ files \in Seq(Paths \union {Blank}) /\ IsInjective(files) /\ seen = ToSet(files)
      /\ ToSet(files) = {Listing(j) : j \in 1..(idx - 1)}
  BY <1>1 DEF IInv, InputInv, ListInv, Walking
<1>3. f \in Paths \union {Blank}
  BY <1>1, <1>2, ListingIsSource DEF Walking
<1>4. /\ files' \in Seq(Paths \union {Blank}) /\ IsInjective(files')
      /\ ToSet(files') = ToSet(files) \union {f}
  <2>1. CASE f \in seen
    BY <1>1, <1>2, <2>1 DEF Listed
  <2>2. CASE f \notin seen
    BY <1>1, <1>2, <1>3, <2>2, Appended DEF Listed
  <2>. QED
    BY <2>1, <2>2
<1>5. \A j : Listing(j)' = Listing(j)
  BY <1>1 DEF Listing, PathOf
<1>6. {Listing(j) : j \in 1..idx} = {Listing(j) : j \in 1..(idx - 1)} \union {f}
  BY <1>2
<1>7. ListInv'
  BY <1>1, <1>2, <1>4, <1>5, <1>6 DEF ListInv, Walking
<1>8. InputInv' /\ PathInv' /\ OrderInv'
  BY <1>1 DEF IInv, InputInv, PathInv, OrderInv, Named, Claims, Walking
<1>. QED
  BY <1>1, <1>7, <1>8 DEF IInv, ResultInv

\* With coverage the path of an index is its source, or the compilation ends.
LEMMA WalkCoveredStep == ASSUME IInv, WalkCovered PROVE IInv'
<1> DEFINE n == nameAt[idx]
           f == Listing(idx)
<1>1. /\ UNCHANGED <<coverage, sources, ids, pathOf, nameAt, result, json>>
      /\ pc = "walk" /\ coverage /\ idx <= Len(sources) /\ err = "nil"
  BY DEF WalkCovered, input, IInv
<1>2. InputInv'
  BY <1>1 DEF IInv, InputInv
<1>3. CASE /\ pc' = "done" /\ err' # "nil" /\ UNCHANGED <<idx, files, markedAs>>
  BY <1>1, <1>2, <1>3 DEF IInv, PathInv, OrderInv, ListInv, ResultInv, Walking
<1>4. CASE /\ f # Blank /\ files' = Append(files, f) /\ idx' = idx + 1 /\ UNCHANGED <<pc, err>>
           /\ markedAs' = [g \in Paths |-> IF g = f THEN n ELSE markedAs[g]]
  <2>1. /\ idx \in DOMAIN sources /\ idx \in Nat \ {0} /\ Len(sources) \in Nat
        /\ files \in Seq(Paths \union {Blank}) /\ Len(files) = idx - 1
        /\ \A j \in 1..(idx - 1) : files[j] = sources[j] /\ markedAs[sources[j]] = nameAt[j]
        /\ sources \in Seq(Paths) /\ IsInjective(sources)
    BY <1>1 DEF IInv, InputInv, ListInv, Walking
  <2>2. f = sources[idx] /\ f \in Paths /\ Named(idx) /\ Claims(idx) # {}
    BY <1>1, <1>4, <2>1, ListingIsSource DEF Walking, IInv, OrderInv
  <2>3. /\ files' \in Seq(Paths \union {Blank}) /\ Len(files') = idx
        /\ \A j \in 1..(idx - 1) : files'[j] = files[j]
        /\ files'[idx] = f
    BY <1>4, <2>1, <2>2, Appended
  <2>4. \A j \in 1..(idx - 1) : sources[j] # f /\ sources[j] \in Paths
    BY <2>1, <2>2 DEF IsInjective
  <2>5. \A j \in 1..idx : files'[j] = sources[j] /\ markedAs'[sources[j]] = nameAt[j]
    BY <1>4, <2>1, <2>2, <2>3, <2>4
  <2>6. ListInv'
    <3>1. idx' \in Nat \ {0} /\ idx' - 1 = idx /\ idx' <= Len(sources) + 1
      BY <1>1, <1>4, <2>1
    <3>2. Len(files') = idx' - 1
      BY <2>3, <3>1
    <3>3. \A j \in 1..(idx' - 1) : files'[j] = sources'[j] /\ markedAs'[sources'[j]] = nameAt'[j]
      BY <1>1, <2>5, <3>1
    <3>4. pc' = "walk" /\ coverage' = TRUE /\ sources' = sources
      BY <1>1, <1>4 DEF IInv, InputInv
    <3>. QED
      BY <2>3, <3>1, <3>2, <3>3, <3>4 DEF ListInv, Walking
  <2>7. PathInv' /\ OrderInv'
    BY <1>1, <1>4 DEF IInv, PathInv, OrderInv, Named, Claims, Walking
  <2>8. n \in Names
    <3>1. n \in DOMAIN pathOf
      BY <2>2 DEF Named, Claims
    <3>. QED
      BY <1>1, <3>1 DEF IInv, PathInv, InputInv, Id
  <2>9. markedAs' \in [Paths -> Names \union {Blank}]
    BY <1>4, <2>8 DEF IInv
  <2>. QED
    BY <1>1, <1>2, <1>4, <2>6, <2>7, <2>9 DEF IInv, ResultInv
<1>. QED
  BY <1>3, <1>4 DEF WalkCovered, Fail, NoAST, Marked, Listing

LEMMA FinishStep == ASSUME IInv, Finish PROVE IInv'
<1>1. /\ UNCHANGED <<coverage, sources, ids, pathOf, nameAt, idx, seen, files, markedAs, json>>
      /\ pc = "walk" /\ idx > Len(sources) /\ pc' = "done" /\ err = "nil"
  BY DEF Finish, input, IInv, Fail
<1>2. InputInv'
  BY <1>1 DEF IInv, InputInv
<1>3. CASE err' # "nil"
  BY <1>1, <1>2, <1>3 DEF IInv, PathInv, OrderInv, ListInv, ResultInv, Walking
<1>4. CASE err' = "nil" /\ result' \in ByName
  <2>1. ListInv'
    BY <1>1, <1>4 DEF IInv, InputInv, ListInv, Walking, Listing, PathOf
  <2>2. PathInv' /\ OrderInv' /\ ResultInv'
    BY <1>1, <1>4 DEF IInv, PathInv, OrderInv, Named, Claims, ResultInv, ByName, Walking
  <2>. QED
    BY <1>1, <1>2, <1>4, <2>1, <2>2 DEF IInv
<1>. QED
  BY <1>1, <1>3, <1>4 DEF Finish, Fail

\* The blank among the paths makes no JSON.
LEMMA CollectStep == ASSUME IInv, CollectStandardJSON PROVE IInv'
<1>1. /\ UNCHANGED <<coverage, sources, ids, pathOf, nameAt, idx, seen, files, markedAs, result>>
      /\ pc = "done" /\ err = "nil" /\ pc' = "collected"
  BY DEF CollectStandardJSON, input
<1>2. InputInv' /\ PathInv' /\ OrderInv'
  BY <1>1 DEF IInv, InputInv, PathInv, OrderInv, Named, Claims, Walking
<1>3. ListInv'
  BY <1>1 DEF IInv, ListInv, Walking, Listing, PathOf
<1>4. ResultInv' /\ (err' = "nil" => json' = ToSet(files) /\ Blank \notin ToSet(files))
  BY <1>1 DEF CollectStandardJSON, Unreadable, IInv, ResultInv, ByName
<1>. QED
  BY <1>1, <1>2, <1>3, <1>4 DEF IInv

THEOREM Invariance == Spec => []IInv
<1>1. IInv /\ [Next]_vars => IInv'
  <2> SUFFICES ASSUME IInv, UNCHANGED vars PROVE IInv'
    BY SolcStep, OrderStep, WalkStep, WalkCoveredStep, FinishStep, CollectStep DEF Next, Done
  <2>. QED
    BY DEF vars, IInv, InputInv, PathInv, OrderInv, Named, Claims, ListInv, Listing, PathOf,
           ResultInv, ByName, Walking
<1>. QED
  BY <1>1, InitIInv, PTL DEF Spec

\* The parts of TypeOK: the list that is made, the maps, the paths and the rest.
ListOK ==
    /\ nameAt \in Seq(Names \union {Blank})
    /\ seen \subseteq Paths \union {Blank}
    /\ idx \in 1..(Len(sources) + 1)
MapsOK ==
    /\ DOMAIN pathOf \subseteq Names /\ \A n \in DOMAIN pathOf : pathOf[n] \in Paths
    /\ DOMAIN result \subseteq Names /\ \A n \in DOMAIN result : result[n] \in ids
FilesOK == files \in Seq(Paths \union {Blank})
EndsOK ==
    /\ err \in {"nil", "solc", "no contracts", "failed to orchestrate",
                "multiple contracts in the same file", "failed to collect"}
    /\ json \subseteq Paths

\* A map by names is one from names to the contracts that have them.
LEMMA ByNameMaps ==
    ASSUME IInv, NEW g \in ByName
    PROVE  DOMAIN g \subseteq Names /\ \A n \in DOMAIN g : g[n] \in ids /\ g[n].path \in Paths
<1>1. \A id \in ids : id.name \in Names /\ id.path \in Paths
  BY DEF IInv, InputInv, Id
<1>2. DOMAIN g = {id.name : id \in ids} /\ \A n \in DOMAIN g : g[n] \in ids
  BY DEF ByName
<1>. QED
  BY <1>1, <1>2

\* The list, as the index goes through the sources
LEMMA ListKept == ASSUME IInv, ListOK, FilesOK, [Next]_vars PROVE ListOK' /\ FilesOK'
<1>1. CASE UNCHANGED <<sources, nameAt, seen, idx, files>>
  BY <1>1 DEF ListOK, FilesOK
<1>2. CASE Order
  <2>1. PICK n \in Nat : DOMAIN sources = 1..n
    BY DEF IInv, InputInv
  <2>2. nameAt' \in [1..n -> Names \union {Blank}]
    BY <1>2, <2>1 DEF Order
  <2>3. nameAt' \in Seq(Names \union {Blank})
    BY <2>2
  <2>. QED
    BY <1>2, <2>3 DEF Order, input, ListOK, FilesOK
<1>3. ASSUME pc = "walk", idx <= Len(sources)
      PROVE  PathOf(nameAt[idx]) \in Paths \union {Blank}
  <2>1. idx \in DOMAIN sources
    BY <1>3 DEF IInv, InputInv, ListInv
  <2>. QED
    BY <1>3, <2>1, ListingIsSource DEF Walking, Listing
<1>4. Len(sources) \in Nat
  BY DEF IInv, InputInv
<1>5. CASE Walk
  <2>1. PathOf(nameAt[idx]) \in Paths \union {Blank}
    BY <1>3, <1>5 DEF Walk
  <2>2. FilesOK'
    BY <1>5, <2>1, Appended DEF Walk, Listed, FilesOK
  <2>. QED
    BY <1>4, <1>5, <2>1, <2>2 DEF Walk, input, ListOK
<1>6. CASE WalkCovered
  <2>1. PathOf(nameAt[idx]) \in Paths \union {Blank}
    BY <1>3, <1>6 DEF WalkCovered
  <2>2. UNCHANGED <<files, idx>> \/ (files' = Append(files, PathOf(nameAt[idx])) /\ idx' = idx + 1)
    BY <1>6 DEF WalkCovered
  <2>3. /\ UNCHANGED <<sources, nameAt>> /\ idx <= Len(sources)
        /\ seen' = seen \union {PathOf(nameAt[idx])}
    BY <1>6 DEF WalkCovered, input
  <2>4. FilesOK'
    BY <2>1, <2>2, Appended DEF FilesOK
  <2>. QED
    BY <1>4, <2>1, <2>2, <2>3, <2>4 DEF ListOK
<1>. QED
  BY <1>1, <1>2, <1>5, <1>6 DEF Next, Solc, Finish, CollectStandardJSON, Done, vars, input

\* The maps, whatever order gives them
LEMMA MapsKept == ASSUME IInv, MapsOK, [Next]_vars PROVE MapsOK'
<1>1. CASE UNCHANGED <<ids, pathOf, result>>
  BY <1>1 DEF MapsOK
<1>2. CASE Solc
  <2>1. UNCHANGED <<ids, result>>
    BY <1>2 DEF Solc, input
  <2>2. ASSUME NEW g \in ByName, pathOf' = [n \in DOMAIN g |-> g[n].path]
        PROVE  MapsOK'
    BY <2>1, <2>2, ByNameMaps DEF MapsOK
  <2>. QED
    BY <1>1, <1>2, <2>1, <2>2 DEF Solc
<1>3. CASE Finish
  <2>1. UNCHANGED <<ids, pathOf>> /\ (UNCHANGED result \/ result' \in ByName)
    BY <1>3 DEF Finish, input
  <2>. QED
    BY <1>1, <2>1, ByNameMaps DEF MapsOK
<1>. QED
  BY <1>1, <1>2, <1>3 DEF Next, Order, Walk, WalkCovered, CollectStandardJSON, Done, vars, input

\* The error and the standard JSON
LEMMA EndsKept == ASSUME IInv, FilesOK, EndsOK, [Next]_vars PROVE EndsOK'
<1>1. CASE UNCHANGED <<err, json>>
  BY <1>1 DEF EndsOK
<1>2. CASE CollectStandardJSON
  <2>1. ToSet(files) \subseteq Paths \union {Blank}
    BY DEF ToSet, FilesOK
  <2>. QED
    BY <1>2, <2>1 DEF CollectStandardJSON, Unreadable, EndsOK
<1>. QED
  BY <1>1, <1>2 DEF Next, Solc, Order, Walk, WalkCovered, Finish, Done, Fail, vars, EndsOK

\* Every variable keeps to its domain.
THEOREM TypeCorrect == Spec => []TypeOK
<1>1. Init => ListOK /\ MapsOK /\ FilesOK /\ EndsOK
  <2>1. Init => Len(sources) \in Nat
    BY InitIInv DEF IInv, InputInv
  <2>. QED
    BY <2>1 DEF Init, ListOK, MapsOK, FilesOK, EndsOK
<1>2. IInv /\ ListOK /\ MapsOK /\ FilesOK /\ EndsOK /\ [Next]_vars
      => (ListOK /\ MapsOK /\ FilesOK /\ EndsOK)'
  BY ListKept, MapsKept, EndsKept
<1>3. IInv /\ ListOK /\ MapsOK /\ FilesOK /\ EndsOK => TypeOK
  BY DEF IInv, InputInv, ListOK, MapsOK, FilesOK, EndsOK, TypeOK
<1>. QED
  BY <1>1, <1>2, <1>3, Invariance, PTL DEF Spec

-----------------------------------------------------------------------------
(* What follows of it                                                      *)

\* A list that has each source at its index is the list of sources.
LEMMA CoveredList == IInv /\ Succeeded /\ coverage => files = sources
<1> SUFFICES ASSUME IInv, Succeeded, coverage PROVE files = sources
  OBVIOUS
<1>1. /\ files \in Seq(Paths \union {Blank}) /\ sources \in Seq(Paths)
      /\ idx = Len(sources) + 1 /\ Len(files) = idx - 1
      /\ \A j \in 1..(idx - 1) : files[j] = sources[j]
  BY DEF IInv, InputInv, ListInv, Walking, Succeeded
<1>2. Len(files) = Len(sources) /\ \A j \in 1..Len(sources) : files[j] = sources[j]
  BY <1>1
<1>. QED
  BY <1>1, <1>2

\* A list without the blank has every source.
LEMMA WholeList ==
    IInv /\ Succeeded /\ ~coverage /\ Blank \notin ToSet(files) => ToSet(files) = ToSet(sources)
<1> SUFFICES ASSUME IInv, Succeeded, ~coverage, Blank \notin ToSet(files)
             PROVE  ToSet(files) = ToSet(sources)
  OBVIOUS
<1>1. /\ DOMAIN sources = 1..(idx - 1)
      /\ ToSet(files) = {Listing(j) : j \in DOMAIN sources}
  BY DEF IInv, InputInv, ListInv, Walking, Succeeded
<1>2. \A j \in DOMAIN sources : Listing(j) = sources[j]
  BY <1>1, ListingIsSource DEF Walking, Succeeded
<1>. QED
  BY <1>1, <1>2 DEF ToSet

\* The file numbers of a covered contract are indexes into its AllPaths.
THEOREM NumbersNameFiles == Spec => []IndexNamesFile
<1>1. IInv => IndexNamesFile
  BY CoveredList DEF IndexNamesFile
<1>. QED
  BY <1>1, Invariance, PTL

\* A standard JSON misses none of the sources.
THEOREM StandardJSONIsComplete == Spec => []StandardJSONComplete
<1>1. IInv => StandardJSONComplete
  <2> SUFFICES ASSUME IInv, pc = "collected", err = "nil" PROVE json = ToSet(sources)
    BY DEF StandardJSONComplete
  <2>1. Succeeded /\ json = ToSet(files) /\ Blank \notin ToSet(files)
    BY DEF Succeeded, IInv
  <2>. QED
    BY <2>1, CoveredList, WholeList
<1>. QED
  BY <1>1, Invariance, PTL

\* Where sources have one contract each, each index has its source's.
LEMMA TidyNames ==
    ASSUME IInv, Succeeded, Tidy, NEW i \in DOMAIN sources
    PROVE  \E id \in ids : id.path = sources[i] /\ id.name = nameAt[i]
<1>1. Walking /\ PathInv /\ Named(i)
  BY DEF IInv, Succeeded, Walking, OrderInv
<1>2. PICK id \in ids : id.path = sources[i]
  BY DEF Tidy, Declared
<1>3. id.name \in DOMAIN pathOf /\ pathOf[id.name] = sources[i]
  BY <1>1, <1>2 DEF PathInv, Tidy, Walking
<1>4. nameAt[i] \in Claims(i)
  BY <1>1, <1>3 DEF Named, Claims
<1>. QED
  BY <1>1, <1>4 DEF Claims, PathInv, Walking

\* No source is missing from the list of paths, and none is there twice.
THEOREM AllFilesListed == Spec => []EveryFileListed
<1>1. IInv => EveryFileListed
  <2> SUFFICES ASSUME IInv, Succeeded, Tidy
               PROVE  ToSet(files) = ToSet(sources) /\ IsInjective(files)
    BY DEF EveryFileListed
  <2>1. CASE coverage
    BY <2>1, CoveredList DEF IInv, InputInv
  <2>2. CASE ~coverage
    <3>1. \A i \in DOMAIN sources : Claims(i) # {}
      <4> SUFFICES ASSUME NEW i \in DOMAIN sources PROVE Claims(i) # {}
        OBVIOUS
      <4>1. PICK id \in ids : id.path = sources[i] /\ id.name = nameAt[i]
        BY TidyNames
      <4>2. nameAt[i] # Blank
        BY <4>1, CompileAssumption DEF IInv, InputInv, Id
      <4>. QED
        BY <4>2 DEF IInv, OrderInv, Named, Walking, Succeeded
    <3>2. /\ DOMAIN sources = 1..(idx - 1) /\ IsInjective(files)
          /\ ToSet(files) = {Listing(j) : j \in DOMAIN sources}
      BY <2>2 DEF IInv, InputInv, ListInv, Walking, Succeeded
    <3>3. \A i \in DOMAIN sources : Listing(i) = sources[i] /\ sources[i] # Blank
      BY <3>1, ListingIsSource, CompileAssumption DEF Walking, Succeeded
    <3>4. Blank \notin ToSet(files)
      BY <3>2, <3>3
    <3>. QED
      BY <2>2, <3>2, <3>4, WholeList
  <2>. QED
    BY <2>1, <2>2
<1>. QED
  BY <1>1, Invariance, PTL

\* A covered contract is marked with the name that it is asked for.
THEOREM NameIsAnswered == Spec => []AnswersToItsName
<1>1. IInv => AnswersToItsName
  <2> SUFFICES ASSUME IInv, Succeeded, coverage, Tidy, NEW n \in DOMAIN result
               PROVE  markedAs[result[n].path] = n
    BY DEF AnswersToItsName
  <2>1. result[n] \in ids /\ result[n].name = n
    BY DEF IInv, ResultInv, ByName, Succeeded
  <2>2. PICK i \in DOMAIN sources : sources[i] = result[n].path
    BY <2>1 DEF IInv, InputInv, ToSet
  <2>3. nameAt[i] = n
    BY <2>1, <2>2, TidyNames DEF Tidy
  <2>4. markedAs[sources[i]] = nameAt[i]
    BY <2>2 DEF IInv, InputInv, ListInv, Walking, Succeeded
  <2>. QED
    BY <2>2, <2>3, <2>4
<1>. QED
  BY <1>1, Invariance, PTL

=============================================================================
