--------------------------- MODULE CoverageReport ---------------------------
(***************************************************************************)
(* The HTML report of the collector: ReportHTML (deployer/coverage.go) and *)
(* what htmlOutput makes of its profiles before it prints them             *)
(* (deployer/coverage_html.go).  A profile has the statements of one       *)
(* source, under whatever contract names they were counted; statements of  *)
(* one extent are merged, for which they have to stand next to each other. *)
(***************************************************************************)
EXTENDS CoverageCollector, SequencesExt

\* Two statements of a source that start together are one.
StartsApart ==
    \A c, d \in Contracts : \A s \in {s \in c.spots : ~Negative(s)} : \A t \in {t \in d.spots : ~Negative(t)} :
        c.paths[s.file + 1] = d.paths[t.file + 1] /\ s.start = t.start => s.len = t.len

\* blocksByStart
Earlier_ByLine(b, c) == b.from[1] < c.from[1]
Earlier(b, c) == b.from[1] < c.from[1] \/ (b.from[1] = c.from[1] /\ b.from[2] < c.from[2])

\* What sort.Sort can make of the statements that the map gives in any order: it is not stable,
\* and leaves those of one start in any order.
Earliest(ds) == {d \in ds : \A e \in ds : ~Earlier(e, d)}

Sorted(ds) ==
    LET first[k \in 0..Cardinality(ds)] ==
            IF k = 0 THEN {<<>>}
            ELSE UNION {{Append(p, d) : d \in Earliest(ds \ ToSet(p))} : p \in first[k - 1]}
    IN  first[Cardinality(ds)]

\* ReportHTML: a block for each statement of the source.
Block(mode, d) == [from |-> d.from, to |-> d.to, count |-> Shown(mode, statements[d])]

Shows(filter, f) == {d \in DOMAIN statements : d.src = f /\ (filter = {} \/ d.name \in filter)}

Profiles(mode, filter, f) ==
    {[i \in DOMAIN p |-> Block(mode, p[i])] : p \in Sorted(Shows(filter, f))}

SameExtent(b, c) == b.from = c.from /\ b.to = c.to

\* The | of counts that are 0 or 1, or their sum.
Merge(mode, b, c) == [b EXCEPT !.count = Shown(mode, @ + c.count)]

\* mergeSortProfiles, for one of them: a block is merged into the last of those before it, or
\* comes after them.
Merged(mode, blocks) ==
    LET done[i \in 0..Len(blocks)] ==
            IF i = 0 THEN <<>>
            ELSE LET rows == done[i - 1]
                     n == Len(rows)
                 IN  IF n > 0 /\ SameExtent(rows[n], blocks[i])
                     THEN [rows EXCEPT ![n] = Merge(mode, @, blocks[i])]
                     ELSE Append(rows, blocks[i])
    IN  done[Len(blocks)]

\* percentCovered, as a pair
Covered(profile) == Cardinality({i \in DOMAIN profile : profile[i].count > 0})
PercentCovered(profile) == <<Covered(profile), Len(profile)>>

-----------------------------------------------------------------------------
(* What the report guarantees                                              *)

Extent(d) == <<d.from, d.to>>

\* The executions that the lines of a text report have for an extent, under any of its names
Executed(lines, x) ==
    Cardinality(UNION {{l[1]} \X (1..l[2]) : l \in {l \in lines : Extent(l[1]) = x}})

\* In the HTML report a statement of a source has one row, whichever names of contracts it was
\* counted under and in whatever order the map and the sort gave them, with all the executions
\* that the text report has on its lines, or 1 for them in mode set; and the percentage of the
\* source is that of its statements, none counted twice (coverage.go:243,
\* coverage_html.go:104-130, 164-179).
OneRowPerStatement ==
    \A f \in DOMAIN Text : \A filter \in SUBSET Names : \A mode \in {"set", "count"} :
        LET lines == {l \in Report("count", filter) : l[1].src = f}
            extents == {Extent(l[1]) : l \in lines}
        IN  \A blocks \in Profiles(mode, filter, f) :
                LET rows == Merged(mode, blocks) IN
                /\ \A x \in extents : \E i \in DOMAIN rows :
                      /\ \A j \in DOMAIN rows : Extent(rows[j]) = x <=> j = i
                      /\ rows[i].count = IF mode = "set" /\ Executed(lines, x) > 0 THEN 1
                                         ELSE Executed(lines, x)
                /\ PercentCovered(rows)
                   = <<Cardinality({x \in extents : Executed(lines, x) > 0}), Cardinality(extents)>>

=============================================================================
