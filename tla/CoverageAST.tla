----------------------------- MODULE CoverageAST -----------------------------
(***************************************************************************)
(* How a source is marked for coverage (sol/sol_coverage.go): in the AST   *)
(* that solc gives, addCoverageMarkers puts before each statement of each  *)
(* block the emission of an event with the statement's position, and gives *)
(* the statement's position to the reason of each require.                 *)
(*                                                                         *)
(* A node has a kind, a position and children.  Of a file the children are *)
(* functions, whose kind is their mutability, and of a function its body;  *)
(* of a block, its statements; of a branch (if, for, while, try), its      *)
(* bodies, which are blocks or, without braces, statements; an unchecked   *)
(* block is no block here.  A require has two arguments: with one, the     *)
(* code takes the second all the same, which ends the process.  Its reason *)
(* is a literal ("require") or is not ("requireVar").                      *)
(***************************************************************************)
EXTENDS Integers, Sequences, SequencesExt, TLC

Node(kind, src, kids) == [kind |-> kind, src |-> src, kids |-> kids]

IsRequire(s) == s.kind \in {"require", "requireVar"}

\* getBlocks: the paths of the blocks in a node, itself included, deepest first.
RECURSIVE Paths(_)
Paths(n) ==
    (IF n.kind = "block" THEN << <<>> >> ELSE <<>>)
    \o FlattenSeq([i \in DOMAIN n.kids |->
                      LET inner == Paths(n.kids[i])
                      IN  [j \in DOMAIN inner |-> <<i>> \o inner[j]]])

Before_Shallow(p, q) == Len(p) < Len(q)
Before(p, q) == Len(p) > Len(q)
Blocks(n) == SortSeq(Paths(n), Before)

\* What is at a path, and putting another node there.
Get(n, path) == FoldLeft(LAMBDA m, i : m.kids[i], n, path)

RECURSIVE Put(_, _, _)
Put(n, path, m) ==
    IF path = <<>> THEN m ELSE [n EXCEPT !.kids[Head(path)] = Put(@, Tail(path), m)]

\* getStatementSrcLocation: a block in a block reaches up to its first statement.
Location(s) ==
    IF s.kind = "block" /\ s.kids # <<>>
    THEN [s.src EXCEPT !.len = s.kids[1].src.start - s.src.start]
    ELSE s.src

\* What stands for a statement: the require with its position in the reason, if that is a
\* literal, and before any other a marker.
Marker(s) == Node("marker", Location(s), <<>>)
Tagged(s) == IF s.kind = "require" THEN [s EXCEPT !.kind = "tagged"] ELSE s

Code_After(s, inner) == IF IsRequire(s) THEN <<Tagged(s)>> ELSE <<inner, Marker(s)>>
Code(s, inner) == IF IsRequire(s) THEN <<Tagged(s)>> ELSE <<Marker(s), inner>>

\* Every block of a node, as it was found, is orchestrated and put back in its place; a block
\* that holds another comes after it, with the other in it once more.  Listed are the
\* statements of all of them.
RECURSIVE OrchestrateBlock(_)
Orchestrate(n) ==
    LET Step(acc, path) ==
            LET b == OrchestrateBlock(Get(n, path))
            IN  [ast |-> Put(acc.ast, path, b.ast), listed |-> acc.listed \o b.listed]
    IN  FoldLeft(Step, [ast |-> n, listed |-> <<>>], Blocks(n))

OrchestrateBlock(b) ==
    LET inner == [i \in DOMAIN b.kids |-> Orchestrate(b.kids[i])]
    IN  [ast |-> [b EXCEPT !.kids = FlattenSeq([i \in DOMAIN b.kids |->
                                                   Code(b.kids[i], inner[i].ast)])],
         listed |-> FlattenSeq([i \in DOMAIN b.kids |->
                                   <<Location(b.kids[i])>> \o inner[i].listed])]

\* addCoverageMarkers: a function that emits can be neither view nor pure.
NotView(f) == IF f.kind \in {"view", "pure"} THEN [f EXCEPT !.kind = "nonpayable"] ELSE f

AddCoverageMarkers(file) ==
    Orchestrate([file EXCEPT !.kids = [i \in DOMAIN file.kids |-> NotView(file.kids[i])]])

-----------------------------------------------------------------------------
(* What marking is meant to do                                             *)

\* One walk over the tree: each statement of a block once, with what is inside it.
RECURSIVE Walked(_)
Walked(n) ==
    LET kids == [i \in DOMAIN n.kids |-> Walked(n.kids[i])]
    IN  IF n.kind # "block" THEN NotView([n EXCEPT !.kids = kids])
        ELSE [n EXCEPT !.kids = FlattenSeq([i \in DOMAIN n.kids |-> Code(n.kids[i], kids[i])])]

\* The positions that execution can report.
RECURSIVE Reported(_)
Reported(n) ==
    (IF n.kind \in {"marker", "tagged"} THEN {n.src} ELSE {})
    \union UNION {Reported(n.kids[i]) : i \in DOMAIN n.kids}

\* The statements of a file's blocks.
RECURSIVE Statements(_)
Statements(n) ==
    (IF n.kind = "block" THEN ToSet(n.kids) ELSE {})
    \union UNION {Statements(n.kids[i]) : i \in DOMAIN n.kids}

-----------------------------------------------------------------------------
(* What the EVM makes of a marked body: the events it logs, those of the   *)
(* markers and those of the program, the statements it comes to, and how   *)
(* it ends.  A tag is the position in the reason of a revert.              *)

On == [logs |-> <<>>, did |-> <<>>, end |-> "on", tag |-> <<>>]
Logs(kind, s) == [On EXCEPT !.logs = <<[kind |-> kind, src |-> s.src]>>]
Does(s) == [On EXCEPT !.did = <<s.src>>]

Then(r, R) ==
    IF r.end # "on" THEN {r}
    ELSE {[q EXCEPT !.logs = r.logs \o @, !.did = r.did \o @] : q \in R}

RECURSIVE RunsOf(_), RunAll(_)
RunAll(nodes) ==
    IF nodes = <<>> THEN {On}
    ELSE UNION {Then(r, RunAll(Tail(nodes))) : r \in RunsOf(Head(nodes))}

\* A branch takes one of its bodies or none.
RunsOf(s) ==
    CASE s.kind = "marker" -> {Logs("marker", s)}
      [] s.kind = "emit" -> Then(Does(s), {Logs("event", s)})
      [] s.kind = "plain" -> {Does(s)}
      [] s.kind = "return" -> {[Does(s) EXCEPT !.end = "return"]}
      [] s.kind = "requireVar" -> {Does(s), [Does(s) EXCEPT !.end = "revert"]}
      [] s.kind = "tagged" -> {Does(s), [Does(s) EXCEPT !.end = "revert", !.tag = <<s.src>>]}
      [] s.kind = "branch" -> {Does(s)} \union
                              UNION {Then(Does(s), RunsOf(s.kids[i])) : i \in DOMAIN s.kids}
      [] s.kind \in {"block", "unchecked"} -> Then(Does(s), RunAll(s.kids))

\* A call of the function runs its body; the marks are gone with a revert.
Executions(f) ==
    {IF r.end = "revert" THEN [r EXCEPT !.logs = <<>>] ELSE r : r \in RunAll(f.kids[1].kids)}

=============================================================================
