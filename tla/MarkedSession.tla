---------------------------- MODULE MarkedSession ----------------------------
(***************************************************************************)
(* A session from the source to the report: what CoverageSession takes of  *)
(* its contracts is what marking (CoverageAST) makes of their sources, and *)
(* the EVM of the marks.                                                   *)
(***************************************************************************)
EXTENDS CoverageSession, CoverageAST

\* A contract has the ASTs of its files besides, and the functions that can be called on it.
\* The sources of a contract, marked:
Marked == [k \in SessionContracts |-> [i \in DOMAIN k.files |-> AddCoverageMarkers(k.files[i])]]

MarkedListed == [k \in SessionContracts |->
                    FlattenSeq([i \in DOMAIN k.files |-> Marked[k][i].listed])]

MarkedRuns == [k \in SessionContracts |->
                  UNION {Executions(Marked[k][e[1]].ast.kids[e[2]]) : e \in k.entry}]

\* Of a require the reason can have the position, of another statement a marker before it,
\* which is not heard of where it is inherited from another file.
MarkedBy(k, s) ==
    CASE s.kind = "require" -> "tag"
      [] s.kind # "require" /\ ~IsRequire(s) /\ s.src.file = k.own -> "marker"
      [] OTHER -> "none"

Site(k, s) == [src |-> s.src, mark |-> Location(s), by |-> MarkedBy(k, s)]

MarkedSites == [k \in SessionContracts |->
                   {Site(k, s) : s \in UNION {Statements(k.files[i]) : i \in DOMAIN k.files}}]

ASSUME MarkedAssumption == Listed = MarkedListed /\ Runs = MarkedRuns /\ Sites = MarkedSites

\* A file comes out of marking with one mark for each statement of a block, blocks within
\* blocks included, which are found by themselves and inside of others; listed are exactly
\* the statements of its blocks; and a run emits for each what it comes to
\* (sol_coverage.go:79-94, 150-181).
MarkedOnce ==
    /\ \A c \in Calls :
          LET k == order[c].contract IN
          at[c] # "load"
          => \A i \in DOMAIN k.files :
                /\ Marked[k][i].ast = Walked(k.files[i])
                /\ Reported(Marked[k][i].ast) \subseteq ToSet(Marked[k][i].listed)
                /\ ToSet(Marked[k][i].listed) = {Location(s) : s \in Statements(k.files[i])}
    /\ Faithful

=============================================================================
