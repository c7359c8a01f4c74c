------------------------- MODULE CoverageCollector -------------------------
(***************************************************************************)
(* The coverage collector (deployer/coverage.go) that the calls of one     *)
(* session share: it reads the sources of a contract once, counts how      *)
(* often each statement is reported as executed, by the event of a         *)
(* transaction or the tag in the reason of a revert, and makes the reports *)
(* from the counts.  Each operation holds the mutex from its first access  *)
(* to the maps to its return, and is one step.                             *)
(*                                                                         *)
(* A spot is a source position as solc gives it: start, length, file.  The *)
(* collector turns it into lines and columns before it counts, so that two *)
(* spots are one statement if they get the same.                           *)
(***************************************************************************)
EXTENDS Integers, Sequences, FiniteSets, FiniteSetsExt

CONSTANTS
    Contracts,    \* the contracts of the session: name, covered or not, paths and statements
    Text,         \* Text[f]: the lengths of the lines of source f
    MaxReports,   \* bound: reports for one contract name
    None

Spot == [start: Int, len: Int, file: Int]

Contract(c) ==
    /\ {"name", "coverage", "paths", "spots"} \subseteq DOMAIN c
    /\ c.coverage \in BOOLEAN
    /\ c.paths \in Seq(DOMAIN Text)
    /\ c.spots \subseteq Spot

ASSUME CollectorAssumption ==
    /\ \A f \in DOMAIN Text : Text[f] \in Seq(Nat)
    /\ \A c \in Contracts : Contract(c)
    /\ MaxReports \in Nat

Names == {c.name : c \in Contracts}

Negative(s) == s.start < 0 \/ s.len < 0 \/ s.file < 0
End(s) == s.start + s.len

\* The characters of the first i lines of a source, newlines included, and its size
Characters(f, i) == UNION {{j} \X (0..Text[f][j]) : j \in 1..i}
Size(f) == Cardinality(Characters(f, Len(Text[f])))

\* What holds of the contracts of one compilation.  A name has one contract, whose sources are
\* listed once, and whose statements are in one of them: file numbers are indexes into its
\* list of paths (CompileOutput, IndexNamesFile).
Compiled ==
    /\ \A c, d \in Contracts : c.name = d.name => c = d
    /\ \A c \in Contracts : /\ \A i, j \in DOMAIN c.paths : c.paths[i] = c.paths[j] => i = j
                            /\ \A s \in c.spots : s.file < Len(c.paths)
                            /\ None # c.paths

\* And a statement is within the text of its source.
Placed ==
    \A c \in Contracts : \A s \in {t \in c.spots : ~Negative(t)} :
        LET f == c.paths[s.file + 1] IN s.start < Size(f) /\ End(s) <= Size(f)

VARIABLES
    paths,        \* paths[n]: the sources read for contract name n
    statements,   \* the count of each statement: a function on descriptors
    heard,        \* heard[n]: the spots reported under name n and accepted, in their order
    crashed       \* an index out of range has ended the process

vars == <<paths, statements, heard, crashed>>

Init ==
    /\ paths = [n \in Names |-> None]
    /\ statements = [d \in {} |-> 0]
    /\ heard = [n \in Names |-> <<>>]
    /\ crashed = FALSE

-----------------------------------------------------------------------------
(* From spots to lines                                                     *)

\* Where the lines start: each takes its length and the newline.
LineStart_NoNewline(f) ==
    LET at[i \in DOMAIN Text[f]] == IF i = 1 THEN 0 ELSE at[i - 1] + Text[f][i - 1]
    IN  at
LineStart(f) ==
    LET at[i \in DOMAIN Text[f]] == IF i = 1 THEN 0 ELSE at[i - 1] + Text[f][i - 1] + 1
    IN  at

Starts == [f \in DOMAIN Text |-> LineStart(f)]

\* PosToLine: the first line whose boundary holds the position.  A boundary holds the start
\* of the next line too, so column 1 of a line is found at the end of the one before.
Holding(f, pos) ==
    {i \in DOMAIN Text[f] :
        Starts[f][i] <= pos /\ pos <= Starts[f][i] + Text[f][i] + 1}

PosToLine(f, pos) ==
    IF Holding(f, pos) = {} THEN <<-1, -1>>
    ELSE <<Min(Holding(f, pos)), pos - Starts[f][Min(Holding(f, pos))] + 1>>

\* The descriptor of a spot in the sources known under a name; solc's files count from 0.
Descriptor(n, s) ==
    LET f == paths[n][s.file + 1]
    IN  [name |-> n, src |-> f, from |-> PosToLine(f, s.start), to |-> PosToLine(f, End(s))]

Known(n) == paths[n] # None
InRange(n, s) == s.file < Len(paths[n])

Crash == crashed' = TRUE /\ UNCHANGED <<paths, statements, heard>>

Counted(d) == IF d \in DOMAIN statements THEN statements[d] ELSE 0

SetCount(d, k) ==
    statements' = [e \in DOMAIN statements \union {d} |-> IF e = d THEN k ELSE statements[e]]

-----------------------------------------------------------------------------
(* The operations                                                          *)

\* LoadContract: all the sources can be read, or the name stays unknown.
ReadInto_Skipping(ps, unread) == SelectSeq(ps, LAMBDA f : f \notin unread)
ReadInto(ps, unread) == IF \E i \in DOMAIN ps : ps[i] \in unread THEN None ELSE ps

LoadContract(c) ==
    /\ ~crashed
    /\ c.coverage /\ c.paths # <<>> /\ ~Known(c.name)
    /\ \E unread \in SUBSET DOMAIN Text :
          paths' = [paths EXCEPT ![c.name] = ReadInto(c.paths, unread)]
    /\ UNCHANGED <<statements, heard, crashed>>

\* AddStatement, as the calls make it for each statement that has no negative part.
FirstCount_Zero(d) == 0
FirstCount(d) == Counted(d)

AddStatement(c, s) ==
    /\ ~crashed
    /\ ~Negative(s) /\ Known(c.name)
    /\ IF InRange(c.name, s)
       THEN /\ LET d == Descriptor(c.name, s) IN SetCount(d, FirstCount(d))
            /\ UNCHANGED <<paths, heard, crashed>>
       ELSE Crash

\* CollectCoverageEvent and, once it has its three numbers, CollectCoverageRevert.
Increment_Set(d) == 1
Increment(d) == Counted(d) + 1

Collect(c, s) ==
    /\ ~crashed
    /\ ~Negative(s) /\ Known(c.name)
    /\ Len(heard[c.name]) < MaxReports
    /\ IF InRange(c.name, s)
       THEN /\ LET d == Descriptor(c.name, s) IN SetCount(d, Increment(d))
            /\ heard' = [heard EXCEPT ![c.name] = Append(@, s)]
            /\ UNCHANGED <<paths, crashed>>
       ELSE Crash

\* ReportTextCoverfile, and the profile of ReportHTML: a line for each statement.
Shown(mode, k) == IF mode = "set" /\ k > 0 THEN 1 ELSE k

Report(mode, filter) ==
    {<<d, Shown(mode, statements[d])>> : d \in {e \in DOMAIN statements :
                                                   filter = {} \/ e.name \in filter}}

Next ==
    \/ \E c \in Contracts : LoadContract(c)
    \/ \E c \in Contracts : \E s \in c.spots : AddStatement(c, s) \/ Collect(c, s)

Spec == Init /\ [][Next]_vars

-----------------------------------------------------------------------------
(* What the collector guarantees                                           *)

\* Every variable keeps to its domain.
TypeOK ==
    /\ paths \in [Names -> {c.paths : c \in Contracts} \union {None}]
    /\ \A d \in DOMAIN statements : d.name \in Names /\ statements[d] \in Nat
    /\ \A n \in Names : heard[n] \in Seq(Spot)
    /\ crashed \in BOOLEAN

Times(n, s) == Cardinality({i \in DOMAIN heard[n] : heard[n][i] = s})

\* The count of a statement is the number of reports about its spot, in whatever order
\* statements were added and reports came in: no two spots of a contract fall together, none
\* is lost, and adding a statement again does not reset it.
CountsAreReports ==
    \A n \in Names :
        Known(n) => \A s \in UNION {c.spots : c \in {c \in Contracts : c.name = n}} :
                       InRange(n, s) /\ ~Negative(s)
                       => Counted(Descriptor(n, s)) = Times(n, s)

\* A contract whose sources were read in part is not known: its file numbers never miss the
\* sources read, and no report ends the process (coverage.go:110-114).
NoCrash == ~crashed

\* A newline's position is how many characters there are before it, and the line of a
\* position, how many newlines.
Newlines == [f \in DOMAIN Text |-> {Cardinality(Characters(f, i)) - 1 : i \in DOMAIN Text[f]}]
TrueLine(f, pos) == 1 + Cardinality({k \in Newlines[f] : k < pos})

\* A statement is shown at the line it starts in, unless it starts in the first column
\* (coverage.go:98-105, 356-365).
ShownAtItsLine ==
    \A n \in Names : \A i \in DOMAIN heard[n] :
        LET s == heard[n][i]
            f == paths[n][s.file + 1]
        IN  s.start - 1 \notin Newlines[f]
            => Descriptor(n, s).from[1] = TrueLine(f, s.start)

\* Counts only grow.
CountsGrow ==
    [][\A d \in DOMAIN statements :
          d \in DOMAIN statements' /\ statements'[d] >= statements[d]]_vars

=============================================================================
