----------------------- MODULE CoverageCollectorProofs -----------------------
(* Theorems about CoverageCollector and CoverageReport, for any sources and *)
(* any contracts that the compiler can have made of them.                  *)
EXTENDS CoverageReport, FiniteSetTheorems, WellFoundedInduction, TLAPS

-----------------------------------------------------------------------------
(* Positions and lines                                                     *)

\* A set of numbers has a least one.
LEMMA LeastOf ==
    ASSUME NEW S \in SUBSET Nat, S # {}
    PROVE  \E x \in S : \A y \in S : x <= y
<1>1. PICK x \in S : \A y \in S : ~(<<y, x>> \in OpToRel(<, Nat))
  BY WFMin, NatLessThanWellFounded
<1>2. \A y \in S : x <= y
  <2> SUFFICES ASSUME NEW y \in S, y < x PROVE FALSE
    OBVIOUS
  <2>1. <<y, x>> \in {ss \in Nat \X Nat : ss[1] < ss[2]}
    OBVIOUS
  <2>2. {ss \in Nat \X Nat : ss[1] < ss[2]} = OpToRel(<, Nat)
    BY DEF OpToRel
  <2>. QED BY <1>1, <2>1, <2>2
<1>. QED BY <1>2

LEMMA MinInSet ==
    ASSUME NEW S \in SUBSET Nat, S # {}
    PROVE  Min(S) \in S
  BY LeastOf DEF Min

\* Every line of a source starts somewhere: the first at 0, another after the one before it.
LEMMA LineStarts ==
    ASSUME NEW f \in DOMAIN Text
    PROVE  \A i \in DOMAIN Text[f] :
              /\ Starts[f][i] \in Nat
              /\ Starts[f][i] = IF i = 1 THEN 0 ELSE Starts[f][i - 1] + Text[f][i - 1] + 1
<1> DEFINE T == Text[f]
           Rec(g, i) == IF i = 1 THEN 0 ELSE g[i - 1] + T[i - 1] + 1
           Upto(g, n) == g \in [1..n -> Nat] /\ \A i \in 1..n : g[i] = Rec(g, i)
           Has(n) == \E g : Upto(g, n)
           Without == {n \in Nat : n <= Len(T) /\ ~Has(n)}
<1>1. T \in Seq(Nat) /\ DOMAIN T = 1..Len(T) /\ Len(T) \in Nat
  BY CollectorAssumption
<1> HIDE DEF Has
<1>2. Without = {}
  <2> SUFFICES ASSUME Without # {} PROVE FALSE
    OBVIOUS
  <2>1. PICK n \in Without : \A m \in Without : n <= m
    BY LeastOf
  <2>2. n \in Nat /\ n <= Len(T) /\ ~Has(n)
    BY <2>1
  <2>3. n # 0
    <3>1. Upto([i \in 1..0 |-> 0], 0)
      OBVIOUS
    <3>. QED BY <2>2, <3>1 DEF Has
  <2>4. n - 1 \in Nat /\ n - 1 <= Len(T) /\ n - 1 \notin Without
    BY <1>1, <2>1, <2>2, <2>3
  <2>5. PICK g : Upto(g, n - 1)
    BY <2>4 DEF Has
  <2> DEFINE h == [i \in 1..n |-> Rec(g, i)]
  <2>6. \A i \in 1..n : h[i] \in Nat
    <3> SUFFICES ASSUME NEW i \in 1..n, i # 1 PROVE Rec(g, i) \in Nat
      OBVIOUS
    <3>1. i - 1 \in 1..(n - 1) /\ i - 1 \in 1..Len(T)
      BY <1>1, <2>2
    <3>2. g[i - 1] \in Nat /\ T[i - 1] \in Nat
      BY <1>1, <2>5, <3>1
    <3>. QED BY <3>2
  <2>7. \A i \in 1..(n - 1) : h[i] = g[i]
    BY <2>2, <2>5
  <2>8. ASSUME NEW i \in 1..n PROVE Rec(h, i) = Rec(g, i)
    <3>1. i # 1 => i - 1 \in 1..(n - 1)
      BY <2>2
    <3>2. i # 1 => h[i - 1] = g[i - 1]
      BY <2>7, <3>1
    <3>. QED BY <3>2
  <2>9. Upto(h, n)
    BY <2>6, <2>8
  <2>. QED BY <2>2, <2>9 DEF Has
<1>3. PICK g : Upto(g, Len(T))
  <2>1. Has(Len(T))
    BY <1>1, <1>2
  <2>. QED BY <2>1 DEF Has
<1> DEFINE Fix(h) == h = [i \in DOMAIN T |-> Rec(h, i)]
<1>4. Fix(g)
  BY <1>1, <1>3
<1> DEFINE a == CHOOSE h : Fix(h)
<1>5. Fix(a)
  <2> HIDE DEF Fix
  <2>. QED BY <1>4
<1>6. Starts[f] = a
  BY DEF Starts, LineStart
<1> HIDE DEF a
<1> DEFINE Bad == {i \in Nat : i \in 1..Len(T) /\ a[i] \notin Nat}
<1>7. Bad = {}
  <2> SUFFICES ASSUME Bad # {} PROVE FALSE
    OBVIOUS
  <2>1. PICK n \in Bad : \A m \in Bad : n <= m
    BY LeastOf
  <2>2. n \in 1..Len(T) /\ a[n] \notin Nat /\ a[n] = Rec(a, n)
    BY <1>1, <1>5, <2>1
  <2>3. n # 1
    BY <2>2
  <2>4. n - 1 \in 1..Len(T) /\ n - 1 \notin Bad
    BY <1>1, <2>1, <2>2, <2>3
  <2>5. a[n - 1] \in Nat /\ T[n - 1] \in Nat
    BY <1>1, <2>4
  <2>. QED BY <2>2, <2>3, <2>5
<1>8. \A i \in DOMAIN T : a[i] = Rec(a, i)
  BY <1>5
<1>. QED BY <1>1, <1>6, <1>7, <1>8

\* The newline of a line comes after its characters.
LEMMA NewlineAt ==
    ASSUME NEW f \in DOMAIN Text
    PROVE  \A i \in DOMAIN Text[f] :
              /\ IsFiniteSet(Characters(f, i))
              /\ Cardinality(Characters(f, i)) - 1 = Starts[f][i] + Text[f][i]
<1> DEFINE T == Text[f]
           at == Starts[f]
           C(i) == Characters(f, i)
           L(j) == {j} \X (0..T[j])
           Good(i) == IsFiniteSet(C(i)) /\ Cardinality(C(i)) = at[i] + T[i] + 1
           Bad == {i \in Nat : i \in DOMAIN T /\ ~Good(i)}
<1>1. DOMAIN T = 1..Len(T) /\ Len(T) \in Nat /\ \A i \in DOMAIN T : T[i] \in Nat
  BY CollectorAssumption
<1>2. \A i \in DOMAIN T : at[i] \in Nat /\ at[i] = IF i = 1 THEN 0 ELSE at[i - 1] + T[i - 1] + 1
  BY LineStarts
<1>3. ASSUME NEW i \in DOMAIN T PROVE IsFiniteSet(L(i)) /\ Cardinality(L(i)) = T[i] + 1
  <2> DEFINE g == [k \in 0..T[i] |-> <<i, k>>]
  <2>1. IsFiniteSet(0..T[i]) /\ Cardinality(0..T[i]) = T[i] + 1
    BY <1>1, FS_Interval
  <2>2. g \in Bijection(0..T[i], L(i))
    <3>1. g \in [0..T[i] -> L(i)]
      OBVIOUS
    <3>2. \A k, l \in 0..T[i] : g[k] = g[l] => k = l
      OBVIOUS
    <3>3. \A p \in L(i) : \E k \in 0..T[i] : g[k] = p
      OBVIOUS
    <3>4. DOMAIN g = 0..T[i]
      OBVIOUS
    <3> HIDE DEF g
    <3>. QED BY <3>1, <3>2, <3>3, <3>4 DEF Bijection, Injection, Surjection, IsInjective
  <2>. QED BY <2>1, <2>2, FS_Bijection DEF ExistsBijection
<1> HIDE DEF T, at, L
<1>4. Bad = {}
  <2> SUFFICES ASSUME Bad # {} PROVE FALSE
    OBVIOUS
  <2>1. PICK i \in Bad : \A j \in Bad : i <= j
    BY LeastOf
  <2>2. i \in DOMAIN T /\ i \in Nat /\ ~Good(i)
    BY <2>1
  <2>3. CASE i = 1
    <3>1. C(i) = L(1)
      BY <2>3 DEF Characters, L, T
    <3>. QED BY <1>1, <1>2, <1>3, <2>2, <2>3, <3>1
  <2>4. CASE i # 1
    <3> DEFINE h == i - 1
    <3>1. h \in DOMAIN T /\ h \in Nat /\ i = h + 1
      BY <1>1, <2>2, <2>4
    <3>2. h \notin Bad
      BY <2>1, <3>1
    <3> HIDE DEF h
    <3>3. IsFiniteSet(C(h)) /\ Cardinality(C(h)) = at[h] + T[h] + 1
      BY <3>1, <3>2
    <3>4. C(i) = C(h) \union L(i)
      <4>1. 1..i = (1..h) \union {i}
        BY <3>1
      <4>. QED BY <4>1 DEF Characters, L, T
    <3>5. C(h) \intersect L(i) = {}
      <4>1. \A j \in 1..h : j # i
        BY <3>1
      <4>. QED BY <4>1 DEF Characters, L, T
    <3>6. IsFiniteSet(L(i)) /\ Cardinality(L(i)) = T[i] + 1
      BY <1>3, <2>2
    <3>7. Cardinality(C(h) \intersect L(i)) = 0
      BY <3>5, FS_EmptySet
    <3>8. IsFiniteSet(C(h) \union L(i))
          /\ Cardinality(C(h) \union L(i)) = at[h] + T[h] + 1 + (T[i] + 1) - 0
      BY <3>3, <3>6, <3>7, FS_Union
    <3>9. at[i] = at[h] + T[h] + 1 /\ at[h] \in Nat /\ T[h] \in Nat /\ T[i] \in Nat
      BY <1>1, <1>2, <2>2, <2>4, <3>1 DEF h
    <3>. QED BY <2>2, <3>4, <3>8, <3>9
  <2>. QED BY <2>3, <2>4
<1>5. ASSUME NEW i \in DOMAIN T PROVE IsFiniteSet(C(i)) /\ Cardinality(C(i)) - 1 = at[i] + T[i]
  <2>1. i \in Nat /\ i \notin Bad
    BY <1>1, <1>4
  <2>. QED BY <1>1, <1>2, <2>1
<1>. QED BY <1>5 DEF T, at

\* Every position in a source is on some line, the end included.
LEMMA OnSomeLine ==
    ASSUME NEW f \in DOMAIN Text, NEW pos \in Nat, pos <= Size(f), Size(f) > 0
    PROVE  Holding(f, pos) # {}
<1> DEFINE T == Text[f]
           at == Starts[f]
           After == {i \in Nat : i \in DOMAIN T /\ pos <= at[i] + T[i] + 1}
<1>1. DOMAIN T = 1..Len(T) /\ Len(T) \in Nat /\ \A i \in DOMAIN T : T[i] \in Nat
  BY CollectorAssumption
<1>2. \A i \in DOMAIN T : at[i] \in Nat /\ at[i] = IF i = 1 THEN 0 ELSE at[i - 1] + T[i - 1] + 1
  BY LineStarts
<1>3. Len(T) # 0
  <2> SUFFICES ASSUME Len(T) = 0 PROVE FALSE
    OBVIOUS
  <2>1. Characters(f, Len(T)) = {}
    BY DEF Characters
  <2>. QED BY <2>1, FS_EmptySet DEF Size
<1>4. Len(T) \in After
  <2>1. Len(T) \in DOMAIN T
    BY <1>1, <1>3
  <2>2. /\ IsFiniteSet(Characters(f, Len(T)))
        /\ Cardinality(Characters(f, Len(T))) - 1 = at[Len(T)] + T[Len(T)]
    BY <2>1, NewlineAt
  <2>3. Size(f) \in Nat /\ Size(f) - 1 = at[Len(T)] + T[Len(T)]
    BY <2>2, FS_CardinalityType DEF Size
  <2>. QED BY <1>1, <1>2, <2>1, <2>3
<1>5. PICK i \in After : \A j \in After : i <= j
  <2> HIDE DEF After
  <2>1. After \in SUBSET Nat
    BY DEF After
  <2>. QED BY <1>4, <2>1, LeastOf
<1> HIDE DEF T, at
<1>6. i \in Nat /\ i \in DOMAIN T /\ pos <= at[i] + T[i] + 1
  BY <1>5
<1>7. at[i] <= pos
  <2>1. CASE i = 1
    BY <1>2, <1>6, <2>1
  <2>2. CASE i # 1
    <3> DEFINE h == i - 1
    <3>1. h \in DOMAIN T /\ h \in Nat /\ h < i
      BY <1>1, <1>6, <2>2
    <3>2. at[i] = at[h] + T[h] + 1
      BY <1>2, <1>6, <2>2
    <3>3. h \notin After
      BY <1>5, <3>1
    <3> HIDE DEF h
    <3>4. ~(pos <= at[h] + T[h] + 1)
      BY <3>1, <3>3
    <3>5. at[h] \in Nat /\ T[h] \in Nat
      BY <1>1, <1>2, <3>1
    <3>. QED BY <3>2, <3>4, <3>5
  <2>. QED BY <2>1, <2>2
<1>. QED BY <1>6, <1>7 DEF Holding, T, at

\* A line ends before a later one starts.
LEMMA LinesInOrder ==
    ASSUME NEW f \in DOMAIN Text
    PROVE  \A i, j \in DOMAIN Text[f] : i < j => Starts[f][i] + Text[f][i] < Starts[f][j]
<1> DEFINE T == Text[f]
           at == Starts[f]
           Bad == {j \in Nat : j \in DOMAIN T /\ \E i \in DOMAIN T : i < j /\ ~(at[i] + T[i] < at[j])}
<1>1. DOMAIN T = 1..Len(T) /\ Len(T) \in Nat /\ \A i \in DOMAIN T : T[i] \in Nat
  BY CollectorAssumption
<1>2. \A i \in DOMAIN T : at[i] \in Nat /\ at[i] = IF i = 1 THEN 0 ELSE at[i - 1] + T[i - 1] + 1
  BY LineStarts
<1> HIDE DEF T, at
<1>3. Bad = {}
  <2> SUFFICES ASSUME Bad # {} PROVE FALSE
    OBVIOUS
  <2>1. PICK j \in Bad : \A m \in Bad : j <= m
    BY LeastOf
  <2>2. PICK i \in DOMAIN T : i < j /\ ~(at[i] + T[i] < at[j])
    BY <2>1
  <2> DEFINE h == j - 1
  <2>3. j \in DOMAIN T /\ j \in Nat /\ h \in DOMAIN T /\ h \in Nat /\ h < j /\ i <= h
    BY <1>1, <2>1, <2>2
  <2>4. at[j] = at[h] + T[h] + 1 /\ at[h] \in Nat /\ T[h] \in Nat
    <3>1. j # 1
      BY <1>1, <2>2
    <3>. QED BY <1>1, <1>2, <2>3, <3>1
  <2>5. h \notin Bad
    BY <2>1, <2>3
  <2> HIDE DEF h
  <2>6. i < h => at[i] + T[i] < at[h]
    BY <2>3, <2>5
  <2>7. at[i] \in Nat /\ T[i] \in Nat
    BY <1>1, <1>2
  <2>8. CASE i = h
    BY <2>2, <2>4, <2>8
  <2>9. CASE i < h
    BY <2>2, <2>4, <2>6, <2>7, <2>9
  <2>10. i \in Nat
    BY <1>1
  <2>. QED BY <2>3, <2>8, <2>9, <2>10
<1>4. \A i, j \in DOMAIN T : i < j => at[i] + T[i] < at[j]
  BY <1>1, <1>3
<1>. QED BY <1>4 DEF T, at

\* A position is on the line after as many newlines as come before it, or is the first of one.
LEMMA LineIsTrue ==
    ASSUME NEW f \in DOMAIN Text, NEW pos \in Int, Holding(f, pos) # {}, pos - 1 \notin Newlines[f]
    PROVE  PosToLine(f, pos)[1] = TrueLine(f, pos)
<1> DEFINE T == Text[f]
           nl(j) == Starts[f][j] + Text[f][j]
           i == Min(Holding(f, pos))
           before == {k \in Newlines[f] : k < pos}
<1>1. DOMAIN T = 1..Len(T) /\ Len(T) \in Nat /\ \A j \in DOMAIN T : T[j] \in Nat
  BY CollectorAssumption
<1>2. \A j \in DOMAIN T : Starts[f][j] \in Nat /\ nl(j) \in Nat
  BY <1>1, LineStarts
<1>3. \A j, k \in DOMAIN T : j < k => nl(j) < Starts[f][k] /\ nl(j) < nl(k)
  <2> SUFFICES ASSUME NEW j \in DOMAIN T, NEW k \in DOMAIN T, j < k
               PROVE  nl(j) < Starts[f][k] /\ nl(j) < nl(k)
    OBVIOUS
  <2>1. nl(j) < Starts[f][k]
    BY LinesInOrder
  <2>. QED BY <1>1, <1>2, <2>1
<1>4. Newlines[f] = {nl(j) : j \in DOMAIN T}
  BY NewlineAt DEF Newlines
<1>5. i \in DOMAIN T /\ Starts[f][i] <= pos /\ pos <= nl(i) + 1
  <2>1. Holding(f, pos) \in SUBSET Nat
    BY <1>1 DEF Holding
  <2>2. i \in Holding(f, pos)
    BY <2>1, MinInSet
  <2>. QED BY <2>2 DEF Holding
<1>6. PosToLine(f, pos)[1] = i
  BY DEF PosToLine
<1> HIDE DEF i, T
<1>7. nl(i) >= pos
  BY <1>2, <1>4, <1>5
<1> HIDE DEF nl
<1>8. before = {nl(j) : j \in 1..(i - 1)}
  <2>1. ASSUME NEW j \in DOMAIN T PROVE nl(j) < pos <=> j < i
    BY <1>1, <1>2, <1>3, <1>5, <1>7
  <2>2. \A j : j \in 1..(i - 1) <=> j \in DOMAIN T /\ j < i
    BY <1>1, <1>5
  <2>. QED BY <1>4, <2>1, <2>2
<1>9. Cardinality(before) = i - 1
  <2> DEFINE g == [j \in 1..(i - 1) |-> nl(j)]
             N == 1..(i - 1)
  <2>1. N \subseteq DOMAIN T /\ IsFiniteSet(N) /\ Cardinality(N) = i - 1
    <3>1. i \in Nat /\ 1 <= i /\ i <= Len(T)
      BY <1>1, <1>5
    <3> DEFINE h == i - 1
    <3>2. h \in Nat /\ N = 1..h /\ N \subseteq DOMAIN T
      BY <1>1, <3>1
    <3> HIDE DEF h, N
    <3>3. IsFiniteSet(1..h) /\ Cardinality(1..h) = h
      BY <3>2, FS_Interval
    <3>. QED BY <3>2, <3>3 DEF h
  <2>2. \A j, k \in N : g[j] = g[k] => j = k
    <3> SUFFICES ASSUME NEW j \in N, NEW k \in N, j # k PROVE nl(j) # nl(k)
      OBVIOUS
    <3>1. j \in DOMAIN T /\ k \in DOMAIN T /\ (j < k \/ k < j)
      BY <1>1, <2>1
    <3>. QED BY <1>2, <1>3, <3>1
  <2>3. g \in [N -> before] /\ (\A k \in before : \E j \in N : g[j] = k) /\ DOMAIN g = N
    BY <1>8
  <2> HIDE DEF g, N, before
  <2>4. g \in Bijection(N, before)
    BY <2>2, <2>3 DEF Bijection, Injection, Surjection, IsInjective
  <2>. QED BY <2>1, <2>4, FS_Bijection DEF ExistsBijection
<1>10. i \in Nat
  BY <1>1, <1>5
<1>11. TrueLine(f, pos) = 1 + (i - 1)
  BY <1>9 DEF TrueLine
<1>. QED BY <1>6, <1>10, <1>11

\* No two positions on lines of a source get the same line and column.
LEMMA PositionsApart ==
    ASSUME NEW f \in DOMAIN Text, NEW p \in Int, NEW q \in Int,
           Holding(f, p) # {}, Holding(f, q) # {}, PosToLine(f, p) = PosToLine(f, q)
    PROVE  p = q
<1> DEFINE i == Min(Holding(f, p))
<1>1. DOMAIN Text[f] \subseteq Nat
  BY CollectorAssumption
<1>2. i \in DOMAIN Text[f]
  BY <1>1, MinInSet DEF Holding
<1>3. Starts[f][i] \in Nat
  BY <1>2, LineStarts
<1> DEFINE j == Min(Holding(f, q))
<1>4. PosToLine(f, p) = <<i, p - Starts[f][i] + 1>> /\ PosToLine(f, q) = <<j, q - Starts[f][j] + 1>>
  BY DEF PosToLine
<1> HIDE DEF i, j
<1>5. i = j /\ p - Starts[f][i] + 1 = q - Starts[f][j] + 1
  <2>1. <<i, p - Starts[f][i] + 1>> = <<j, q - Starts[f][j] + 1>>
    BY <1>4
  <2>. QED BY ONLY <2>1
<1>. QED BY <1>3, <1>5

-----------------------------------------------------------------------------
(* The inductive invariant: a name that is not known has been told nothing  *)
(* and has no statements; a known one has the sources of its contract, and  *)
(* the count of each of its statements is the number of reports on it.      *)

Sources ==
    \A n \in Names : paths[n] # None => \E c \in Contracts : c.name = n /\ paths[n] = c.paths

Reportable(n, s) == ~Negative(s) /\ \E c \in Contracts : c.name = n /\ s \in c.spots

Heard ==
    \A n \in Names : /\ heard[n] \in Seq(Spot)
                     /\ paths[n] = None => heard[n] = <<>>
                     /\ \A i \in DOMAIN heard[n] : Reportable(n, heard[n][i])

Numbers ==
    /\ paths \in [Names -> {c.paths : c \in Contracts} \union {None}]
    /\ \A d \in DOMAIN statements : statements[d] \in Nat
    /\ \A d \in DOMAIN statements : d.name \in Names /\ Known(d.name)

RInv == Numbers /\ Sources /\ Heard /\ heard \in [Names -> Seq(Spot)] /\ CountsAreReports

LEMMA InitRInv == ASSUME Compiled, Init PROVE RInv
  BY DEF Init, RInv, Numbers, Sources, Heard, CountsAreReports, Known

\* Who reads a source has all of the contract's.
LEMMA LoadNumbers ==
    ASSUME Numbers, Sources, NEW c \in Contracts, LoadContract(c)
    PROVE  Numbers' /\ Sources' /\ (\A n \in Names : n # c.name => paths'[n] = paths[n])
           /\ UNCHANGED <<statements, heard, crashed>> /\ paths[c.name] = None
<1>1. c.name \in Names
  BY DEF Names
<1>2. \A u \in SUBSET DOMAIN Text : ReadInto(c.paths, u) \in {c.paths, None}
  BY DEF ReadInto
<1>3. PICK r \in {c.paths, None} : paths' = [paths EXCEPT ![c.name] = r]
  BY <1>2 DEF LoadContract
<1>4. UNCHANGED <<statements, heard, crashed>> /\ paths[c.name] = None
  BY DEF LoadContract, Known
<1>5. Numbers'
  BY <1>1, <1>3, <1>4 DEF Numbers, Known
<1>6. Sources'
  BY <1>1, <1>3, <1>4 DEF Numbers, Sources
<1>. QED BY <1>1, <1>3, <1>4, <1>5, <1>6 DEF Numbers

\* A name that is known has the sources of its contract.
LEMMA SourcesOf ==
    ASSUME Compiled, Sources, NEW c \in Contracts, Known(c.name)
    PROVE  paths[c.name] = c.paths
  BY DEF Compiled, Sources, Names, Known

\* The ends of a statement are on lines of its source.
LEMMA StatementOnLines ==
    ASSUME Compiled, Placed, NEW c \in Contracts, NEW s \in c.spots, ~Negative(s)
    PROVE  /\ s.file + 1 \in DOMAIN c.paths /\ c.paths[s.file + 1] \in DOMAIN Text
           /\ Holding(c.paths[s.file + 1], s.start) # {}
           /\ Holding(c.paths[s.file + 1], End(s)) # {}
<1> DEFINE f == c.paths[s.file + 1]
           e == End(s)
<1>1. /\ s \in Spot /\ c.paths \in Seq(DOMAIN Text) /\ s.file < Len(c.paths)
      /\ s.file \in Nat /\ s.start \in Nat /\ s.len \in Nat
  BY CollectorAssumption DEF Contract, Compiled, Negative, Spot
<1>2. s.file + 1 \in DOMAIN c.paths
  BY <1>1
<1>3. f \in DOMAIN Text
  BY <1>1, <1>2
<1>4. e \in Nat
  BY <1>1 DEF End
<1>5. s.start < Size(f) /\ e <= Size(f)
  BY DEF Placed
<1> HIDE DEF f, e
<1>6. Size(f) \in Nat
  <2>1. Text[f] \in Seq(Nat)
    BY <1>3, CollectorAssumption
  <2>2. CASE Len(Text[f]) = 0
    <3>1. Characters(f, Len(Text[f])) = {}
      BY <2>2 DEF Characters
    <3>. QED BY <3>1, FS_EmptySet DEF Size
  <2>3. CASE Len(Text[f]) # 0
    <3>1. Len(Text[f]) \in DOMAIN Text[f]
      BY <2>1, <2>3
    <3>. QED BY <1>3, <3>1, NewlineAt, FS_CardinalityType DEF Size
  <2>. QED BY <2>2, <2>3
<1>7. Holding(f, s.start) # {} /\ Holding(f, e) # {}
  <2>1. Size(f) > 0 /\ s.start <= Size(f)
    BY <1>1, <1>5, <1>6
  <2>. QED BY <1>1, <1>3, <1>4, <1>5, <2>1, OnSomeLine
<1>. QED BY <1>2, <1>3, <1>7 DEF f, e

\* The collector keeps statements apart: they are told by their lines and columns.
LEMMA StatementsApart ==
    ASSUME Compiled, Placed, Sources,
           NEW c \in Contracts, NEW s \in c.spots, ~Negative(s), Known(c.name),
           NEW d \in Contracts, NEW t \in d.spots, ~Negative(t), Known(d.name),
           Descriptor(c.name, s) = Descriptor(d.name, t)
    PROVE  c = d /\ s = t
<1> DEFINE f == c.paths[s.file + 1]
           g == d.paths[t.file + 1]
<1>1. paths[c.name] = c.paths /\ paths[d.name] = d.paths
  BY SourcesOf
<1>2. /\ Descriptor(c.name, s) = [name |-> c.name, src |-> f, from |-> PosToLine(f, s.start),
                                  to |-> PosToLine(f, End(s))]
      /\ Descriptor(d.name, t) = [name |-> d.name, src |-> g, from |-> PosToLine(g, t.start),
                                  to |-> PosToLine(g, End(t))]
  BY <1>1 DEF Descriptor
<1>3. c.name = d.name /\ f = g /\ PosToLine(f, s.start) = PosToLine(g, t.start)
      /\ PosToLine(f, End(s)) = PosToLine(g, End(t))
  <2> DEFINE p == PosToLine(f, s.start)
             q == PosToLine(f, End(s))
             u == PosToLine(g, t.start)
             v == PosToLine(g, End(t))
  <2>1. [name |-> c.name, src |-> f, from |-> p, to |-> q]
        = [name |-> d.name, src |-> g, from |-> u, to |-> v]
    BY <1>2
  <2> HIDE DEF f, g, p, q, u, v
  <2>2. c.name = d.name /\ f = g /\ p = u /\ q = v
    BY ONLY <2>1
  <2>. QED BY <2>2 DEF p, q, u, v
<1>4. c = d
  BY <1>3 DEF Compiled
<1>5. /\ s \in Spot /\ t \in Spot /\ c.paths \in Seq(DOMAIN Text)
      /\ s.file < Len(c.paths) /\ t.file < Len(c.paths)
      /\ s.file \in Nat /\ t.file \in Nat
  BY <1>4, CollectorAssumption DEF Contract, Compiled, Negative, Spot
<1>6. s.file + 1 \in DOMAIN c.paths /\ t.file + 1 \in DOMAIN c.paths /\ f \in DOMAIN Text
  BY <1>5
<1>7. s.file = t.file
  <2>1. s.file + 1 = t.file + 1
    BY <1>3, <1>4, <1>6 DEF Compiled
  <2>. QED BY <1>5, <2>1
<1>8. /\ s.start \in Int /\ t.start \in Int /\ s.len \in Int /\ t.len \in Int
      /\ End(s) \in Int /\ End(t) \in Int
  BY <1>5 DEF Spot, End
<1>9. /\ Holding(f, s.start) # {} /\ Holding(f, t.start) # {}
      /\ Holding(f, End(s)) # {} /\ Holding(f, End(t)) # {}
  BY <1>3, <1>4, StatementOnLines
<1>10. s.start = t.start /\ End(s) = End(t)
  BY <1>3, <1>6, <1>8, <1>9, PositionsApart
<1>11. s.len = t.len
  <2>1. s.start + s.len = t.start + t.len
    BY <1>10 DEF End
  <2> DEFINE x == s.start  u == s.len  v == t.len
  <2>2. x \in Int /\ u \in Int /\ v \in Int /\ x + u = x + v
    BY <1>8, <1>10, <2>1
  <2> HIDE DEF x, u, v
  <2>3. u = v
    BY ONLY <2>2
  <2>. QED BY <2>3 DEF u, v
<1>. QED BY <1>4, <1>5, <1>7, <1>10, <1>11 DEF Spot

\* One more report of a spot
CountOf(h, t) == Cardinality({i \in DOMAIN h : h[i] = t})

LEMMA CountOfAppend ==
    ASSUME NEW h \in Seq(Spot), NEW s \in Spot, NEW t
    PROVE  /\ CountOf(h, t) \in Nat
           /\ CountOf(Append(h, s), t) = IF s = t THEN CountOf(h, t) + 1 ELSE CountOf(h, t)
<1> DEFINE H == {i \in DOMAIN h : h[i] = t}
           A == {i \in DOMAIN Append(h, s) : Append(h, s)[i] = t}
<1>1. /\ DOMAIN h = 1..Len(h) /\ DOMAIN Append(h, s) = 1..(Len(h) + 1) /\ Len(h) \in Nat
      /\ \A i \in 1..Len(h) : Append(h, s)[i] = h[i]
      /\ Append(h, s)[Len(h) + 1] = s
  OBVIOUS
<1>2. IsFiniteSet(H) /\ Cardinality(H) \in Nat
  <2>1. IsFiniteSet(1..Len(h))
    BY <1>1, FS_Interval
  <2>. QED BY <1>1, <2>1, FS_Subset, FS_CardinalityType
<1>3. CASE s = t
  <2>1. A = H \union {Len(h) + 1} /\ Len(h) + 1 \notin H
    BY <1>1, <1>3
  <2>2. Cardinality(A) = Cardinality(H) + 1
    BY <1>2, <2>1, FS_AddElement
  <2>. QED BY <1>2, <1>3, <2>2 DEF CountOf
<1>4. CASE s # t
  <2>1. A = H
    BY <1>1, <1>4
  <2>. QED BY <1>2, <1>4, <2>1 DEF CountOf
<1>. QED BY <1>3, <1>4

-----------------------------------------------------------------------------
(* The steps                                                               *)

\* The statements of a name are those of its one contract.
LEMMA SpotsOf ==
    ASSUME Compiled, NEW n \in Names,
           NEW s \in UNION {c.spots : c \in {c \in Contracts : c.name = n}}
    PROVE  \E c \in Contracts : c.name = n /\ s \in c.spots
  OBVIOUS

\* What a report or an addition makes of the counts
LEMMA CountKept ==
    ASSUME Compiled, Placed, RInv, NEW c \in Contracts, NEW s \in c.spots,
           ~Negative(s), Known(c.name), NEW k \in Nat, SetCount(Descriptor(c.name, s), k),
           paths' = paths,
           NEW d \in Contracts, NEW t \in d.spots, ~Negative(t), Known(d.name)
    PROVE  /\ Descriptor(d.name, t)' = Descriptor(d.name, t)
           /\ Counted(Descriptor(d.name, t))'
              = IF c = d /\ s = t THEN k ELSE Counted(Descriptor(d.name, t))
<1> DEFINE a == Descriptor(c.name, s)
           b == Descriptor(d.name, t)
<1>1. b' = b
  BY DEF Descriptor
<1>2. a = b => c = d /\ s = t
  BY StatementsApart DEF RInv
<1>3. /\ DOMAIN statements' = DOMAIN statements \union {a}
      /\ \A e \in DOMAIN statements \union {a} :
            statements'[e] = IF e = a THEN k ELSE statements[e]
  BY DEF SetCount
<1>4. c = d /\ s = t => a = b
  OBVIOUS
<1> HIDE DEF a, b
<1>5. Counted(b)' = IF b \in DOMAIN statements' THEN statements'[b] ELSE 0
  BY <1>1 DEF Counted
<1>6. Counted(b)' = IF a = b THEN k ELSE Counted(b)
  BY <1>3, <1>5 DEF Counted
<1>7. Counted(b)' = IF c = d /\ s = t THEN k ELSE Counted(b)
  BY <1>2, <1>4, <1>6
<1>. QED BY <1>1, <1>7 DEF b

\* Numbers stay numbers when a count is set.
LEMMA SetNumbers ==
    ASSUME Numbers, NEW c \in Contracts, NEW s, Known(c.name), NEW k \in Nat,
           SetCount(Descriptor(c.name, s), k), paths' = paths
    PROVE  Numbers'
<1>1. c.name \in Names /\ Descriptor(c.name, s).name = c.name
  BY DEF Names, Descriptor
<1>. QED BY <1>1 DEF Numbers, SetCount, Known

\* A file number never misses the sources read.
LEMMA NeverOutOfRange ==
    ASSUME Compiled, Sources, NEW c \in Contracts, NEW s \in c.spots, Known(c.name)
    PROVE  InRange(c.name, s)
  BY SourcesOf DEF InRange, Compiled

LEMMA LoadStep ==
    ASSUME Compiled, RInv, NEW c \in Contracts, LoadContract(c)
    PROVE  RInv' /\ UNCHANGED <<statements, crashed>>
<1>1. /\ Numbers' /\ Sources' /\ (\A n \in Names : n # c.name => paths'[n] = paths[n])
      /\ UNCHANGED <<statements, heard, crashed>> /\ paths[c.name] = None
  BY LoadNumbers DEF RInv
<1>2. Heard'
  BY <1>1 DEF RInv, Heard
<1>3. CountsAreReports'
  <2> SUFFICES ASSUME NEW n \in Names, Known(n)',
                      NEW s \in UNION {d.spots : d \in {d \in Contracts : d.name = n}},
                      InRange(n, s)', ~Negative(s)
               PROVE  Counted(Descriptor(n, s))' = Times(n, s)'
    BY DEF CountsAreReports
  <2>1. CASE n # c.name
    <3>1. paths'[n] = paths[n] /\ Descriptor(n, s)' = Descriptor(n, s)
      BY <1>1, <2>1 DEF Descriptor
    <3>2. Counted(Descriptor(n, s)) = Times(n, s)
      BY <3>1 DEF RInv, CountsAreReports, Known, InRange
    <3>. QED BY <1>1, <3>1, <3>2 DEF Counted, Times
  <2>2. CASE n = c.name
    <3>1. heard[n] = <<>> /\ heard' = heard
      BY <1>1, <2>2 DEF RInv, Heard
    <3>2. Times(n, s)' = 0
      <4>1. {i \in DOMAIN heard'[n] : heard'[n][i] = s} = {}
        BY <3>1
      <4>. QED BY <4>1, FS_EmptySet DEF Times
    <3>3. Descriptor(n, s)'.name = n
      BY DEF Descriptor
    <3>4. Descriptor(n, s)' \notin DOMAIN statements'
      BY <1>1, <2>2, <3>3 DEF RInv, Numbers, Known
    <3>. QED BY <3>2, <3>4 DEF Counted
  <2>. QED BY <2>1, <2>2
<1>. QED BY <1>1, <1>2, <1>3 DEF RInv

LEMMA AddStep ==
    ASSUME Compiled, Placed, RInv, NEW c \in Contracts, NEW s \in c.spots, AddStatement(c, s)
    PROVE  RInv' /\ crashed' = crashed
           /\ \A d \in DOMAIN statements : d \in DOMAIN statements' /\ statements'[d] >= statements[d]
<1> DEFINE a == Descriptor(c.name, s)
<1>1. Known(c.name) /\ ~Negative(s) /\ InRange(c.name, s)
  BY NeverOutOfRange DEF AddStatement, RInv
<1>2. SetCount(a, Counted(a)) /\ UNCHANGED <<paths, heard, crashed>>
  BY <1>1 DEF AddStatement, FirstCount
<1>3. Counted(a) \in Nat
  BY DEF RInv, Numbers, Counted
<1>4. Numbers'
  BY <1>1, <1>2, <1>3, SetNumbers DEF RInv
<1>5. CountsAreReports'
  <2> SUFFICES ASSUME NEW n \in Names, Known(n)',
                      NEW t \in UNION {d.spots : d \in {d \in Contracts : d.name = n}},
                      InRange(n, t)', ~Negative(t)
               PROVE  Counted(Descriptor(n, t))' = Times(n, t)'
    BY DEF CountsAreReports
  <2>1. PICK d \in Contracts : d.name = n /\ t \in d.spots
    BY SpotsOf
  <2>2. Known(n) /\ InRange(n, t) /\ Times(n, t)' = Times(n, t)
    BY <1>2 DEF Known, InRange, Times
  <2>3. Counted(Descriptor(n, t)) = Times(n, t)
    BY <2>2 DEF RInv, CountsAreReports
  <2>4. /\ Descriptor(n, t)' = Descriptor(n, t)
        /\ Counted(Descriptor(n, t))'
           = IF c = d /\ s = t THEN Counted(a) ELSE Counted(Descriptor(n, t))
    BY <1>1, <1>2, <1>3, <2>1, <2>2, CountKept
  <2>. QED BY <2>1, <2>2, <2>3, <2>4
<1>6. \A d \in DOMAIN statements : d \in DOMAIN statements' /\ statements'[d] >= statements[d]
  <2> HIDE DEF a
  <2>. QED BY <1>2, <1>3 DEF SetCount, Counted, RInv, Numbers
<1>. QED BY <1>2, <1>4, <1>5, <1>6 DEF RInv, Sources, Heard

LEMMA CollectStep ==
    ASSUME Compiled, Placed, RInv, NEW c \in Contracts, NEW s \in c.spots, Collect(c, s)
    PROVE  RInv' /\ crashed' = crashed
           /\ \A d \in DOMAIN statements : d \in DOMAIN statements' /\ statements'[d] >= statements[d]
<1> DEFINE a == Descriptor(c.name, s)
<1>1. Known(c.name) /\ ~Negative(s) /\ InRange(c.name, s) /\ c.name \in Names /\ s \in Spot
  BY NeverOutOfRange, CollectorAssumption DEF Collect, RInv, Names, Contract
<1>2. SetCount(a, Counted(a) + 1) /\ UNCHANGED <<paths, crashed>>
      /\ heard' = [heard EXCEPT ![c.name] = Append(heard[c.name], s)]
  BY <1>1 DEF Collect, Increment
<1>3. Counted(a) \in Nat /\ Counted(a) + 1 \in Nat
  BY DEF RInv, Numbers, Counted
<1>4. Numbers'
  BY <1>1, <1>2, <1>3, SetNumbers DEF RInv
<1>5. heard' \in [Names -> Seq(Spot)] /\ Heard'
  <2>1. \A n \in Names : heard'[n] = IF n = c.name THEN Append(heard[n], s) ELSE heard[n]
    BY <1>2 DEF RInv
  <2>2. ASSUME NEW n \in Names, NEW i \in DOMAIN heard'[n] PROVE Reportable(n, heard'[n][i])
    <3>1. heard[n] \in Seq(Spot) /\ \A j \in DOMAIN heard[n] : Reportable(n, heard[n][j])
      BY DEF RInv, Heard
    <3>2. Reportable(c.name, s)
      BY <1>1 DEF Reportable
    <3>3. CASE n = c.name
      <4> DEFINE h == heard[n]
      <4>1. heard'[n] = Append(h, s) /\ h \in Seq(Spot)
        BY <2>1, <3>1, <3>3
      <4> HIDE DEF h
      <4>2. (i \in DOMAIN h /\ heard'[n][i] = h[i]) \/ heard'[n][i] = s
        BY <1>1, <2>2, <4>1
      <4>. QED BY <3>1, <3>2, <3>3, <4>2 DEF h
    <3>4. CASE n # c.name
      BY <2>1, <2>2, <3>1, <3>4
    <3>. QED BY <3>3, <3>4
  <2>. QED BY <1>1, <1>2, <2>1, <2>2 DEF RInv, Heard, Known
<1>6. CountsAreReports'
  <2> SUFFICES ASSUME NEW n \in Names, Known(n)',
                      NEW t \in UNION {d.spots : d \in {d \in Contracts : d.name = n}},
                      InRange(n, t)', ~Negative(t)
               PROVE  Counted(Descriptor(n, t))' = Times(n, t)'
    BY DEF CountsAreReports
  <2>1. PICK d \in Contracts : d.name = n /\ t \in d.spots
    BY SpotsOf
  <2>2. Known(n) /\ InRange(n, t)
    BY <1>2 DEF Known, InRange
  <2>3. Counted(Descriptor(n, t)) = Times(n, t)
    BY <2>2 DEF RInv, CountsAreReports
  <2>4. /\ Descriptor(n, t)' = Descriptor(n, t)
        /\ Counted(Descriptor(n, t))'
           = IF c = d /\ s = t THEN Counted(a) + 1 ELSE Counted(Descriptor(n, t))
    BY <1>1, <1>2, <1>3, <2>1, <2>2, CountKept
  <2>5. Times(n, t)' = IF c = d /\ s = t THEN Times(n, t) + 1 ELSE Times(n, t)
    <3>1. CASE n = c.name
      <4>1. c = d
        BY <2>1, <3>1 DEF Compiled
      <4>2. heard'[n] = Append(heard[n], s) /\ heard[n] \in Seq(Spot)
        BY <1>2, <3>1 DEF RInv
      <4>3. Times(n, t) = CountOf(heard[n], t) /\ Times(n, t)' = CountOf(Append(heard[n], s), t)
        BY <4>2 DEF Times, CountOf
      <4>4. CountOf(Append(heard[n], s), t)
            = IF s = t THEN CountOf(heard[n], t) + 1 ELSE CountOf(heard[n], t)
        BY <1>1, <4>2, CountOfAppend
      <4>. QED BY <4>1, <4>3, <4>4
    <3>2. CASE n # c.name
      <4>1. c # d /\ heard'[n] = heard[n]
        BY <1>2, <2>1, <3>2 DEF RInv
      <4>. QED BY <4>1 DEF Times
    <3>. QED BY <3>1, <3>2
  <2>. QED BY <2>1, <2>3, <2>4, <2>5
<1>7. \A d \in DOMAIN statements : d \in DOMAIN statements' /\ statements'[d] >= statements[d]
  <2> HIDE DEF a
  <2>. QED BY <1>2, <1>3 DEF SetCount, Counted, RInv, Numbers
<1>. QED BY <1>2, <1>4, <1>5, <1>6, <1>7 DEF RInv, Sources

LEMMA RInvStays ==
    ASSUME Compiled, Placed, RInv, ~crashed, [Next]_vars
    PROVE  (RInv /\ ~crashed)'
<1> SUFFICES ASSUME UNCHANGED vars PROVE (RInv /\ ~crashed)'
  BY LoadStep, AddStep, CollectStep DEF Next
<1>. QED BY DEF vars, RInv, Numbers, Sources, Heard, CountsAreReports, Known, InRange, Counted,
             Descriptor, Times

\* Where sources and contracts come of the compiler, the invariant holds in every state.
THEOREM Invariance == Compiled /\ Placed => (Spec => [](RInv /\ ~crashed))
<1> SUFFICES ASSUME Compiled, Placed PROVE Spec => [](RInv /\ ~crashed)
  OBVIOUS
<1>1. Init => RInv /\ ~crashed
  BY InitRInv DEF Init
<1>2. RInv /\ ~crashed /\ [Next]_vars => (RInv /\ ~crashed)'
  BY RInvStays
<1>. QED BY <1>1, <1>2, PTL DEF Spec

\* Every variable keeps to its domain.
THEOREM TypeCorrect == Compiled /\ Placed => (Spec => []TypeOK)
<1>1. Init => crashed \in BOOLEAN
  BY DEF Init
<1>2. crashed \in BOOLEAN /\ [Next]_vars => (crashed \in BOOLEAN)'
  BY DEF Next, vars, LoadContract, AddStatement, Collect, Crash
<1>3. RInv /\ crashed \in BOOLEAN => TypeOK
  <2>1. RInv => \A d \in DOMAIN statements : d.name \in Names /\ statements[d] \in Nat
    BY DEF RInv, Numbers
  <2>2. RInv => \A n \in Names : heard[n] \in Seq(Spot)
    BY DEF RInv, Heard
  <2>3. RInv => paths \in [Names -> {c.paths : c \in Contracts} \union {None}]
    BY DEF RInv, Numbers
  <2>. QED
    BY <2>1, <2>2, <2>3 DEF TypeOK
<1>. QED BY <1>1, <1>2, <1>3, Invariance, PTL DEF Spec

\* No report ends the process, whichever sources could be read.
THEOREM NeverCrashes == Compiled /\ Placed => (Spec => []NoCrash)
<1>1. RInv /\ ~crashed => NoCrash
  BY DEF NoCrash
<1>. QED BY <1>1, Invariance, PTL

\* The count of a statement is the number of reports on it, for sources with lines of any length.
THEOREM CountsExact == Compiled /\ Placed => (Spec => []CountsAreReports)
<1>1. RInv /\ ~crashed => CountsAreReports
  BY DEF RInv
<1>. QED BY <1>1, Invariance, PTL

\* What was reported is shown at its line.
LEMMA HeardIsShown ==
    ASSUME Compiled, Placed, RInv
    PROVE  ShownAtItsLine
<1> SUFFICES ASSUME NEW n \in Names, NEW i \in DOMAIN heard[n],
                    heard[n][i].start - 1 \notin Newlines[paths[n][heard[n][i].file + 1]]
             PROVE  Descriptor(n, heard[n][i]).from[1]
                    = TrueLine(paths[n][heard[n][i].file + 1], heard[n][i].start)
  BY DEF ShownAtItsLine
<1> DEFINE s == heard[n][i]
           f == paths[n][s.file + 1]
<1>1. heard[n] # <<>>
  BY DEF RInv, Heard
<1>2. PICK c \in Contracts : c.name = n /\ s \in c.spots /\ ~Negative(s)
  BY DEF RInv, Heard, Reportable
<1>3. paths[n] = c.paths
  <2>1. Known(n)
    BY <1>1 DEF RInv, Heard, Known
  <2>. QED BY <1>2, <2>1, SourcesOf DEF RInv
<1>4. f \in DOMAIN Text /\ s.start \in Int
  <2>1. s \in Spot /\ c.paths \in Seq(DOMAIN Text) /\ s.file < Len(c.paths) /\ s.file \in Nat
    BY <1>2, CollectorAssumption DEF Contract, Compiled, Negative, Spot
  <2>2. s.file + 1 \in DOMAIN c.paths
    BY <2>1
  <2>. QED BY <1>3, <2>1, <2>2 DEF Spot
<1>5. Holding(f, s.start) # {}
  BY <1>2, <1>3, StatementOnLines
<1>6. PosToLine(f, s.start)[1] = TrueLine(f, s.start)
  BY <1>4, <1>5, LineIsTrue
<1>. QED BY <1>6 DEF Descriptor

\* A statement that does not start in the first column is shown at the line it starts in.
THEOREM LinesExact == Compiled /\ Placed => (Spec => []ShownAtItsLine)
<1> SUFFICES ASSUME Compiled, Placed PROVE Spec => []ShownAtItsLine
  OBVIOUS
<1>1. RInv /\ ~crashed => ShownAtItsLine
  BY HeardIsShown
<1>. QED BY <1>1, Invariance, PTL

\* Counts only grow.
THEOREM CountsOnlyGrow == Compiled /\ Placed => (Spec => CountsGrow)
<1> SUFFICES ASSUME Compiled, Placed PROVE Spec => CountsGrow
  OBVIOUS
<1>1. RInv /\ [Next]_vars
      => [\A d \in DOMAIN statements :
             d \in DOMAIN statements' /\ statements'[d] >= statements[d]]_vars
  <2> SUFFICES ASSUME RInv, Next
               PROVE  \A d \in DOMAIN statements :
                         d \in DOMAIN statements' /\ statements'[d] >= statements[d]
    OBVIOUS
  <2>1. ASSUME NEW c \in Contracts, LoadContract(c)
        PROVE  \A d \in DOMAIN statements :
                  d \in DOMAIN statements' /\ statements'[d] >= statements[d]
    BY <2>1, LoadStep DEF RInv, Numbers
  <2>. QED BY <2>1, AddStep, CollectStep DEF Next
<1>. QED BY <1>1, Invariance, PTL DEF Spec, CountsGrow

-----------------------------------------------------------------------------
(* The report's blocks: sorted, then merged.                               *)

\* A function that is defined step by step exists.
LEMMA StepByStep ==
    ASSUME NEW V, NEW a \in V, NEW n \in Nat, NEW step \in [1..n -> [V -> V]]
    PROVE  \E g \in [0..n -> V] : g[0] = a /\ \A k \in 1..n : g[k] = step[k][g[k - 1]]
<1> DEFINE Upto(g, m) == g \in [0..m -> V] /\ g[0] = a /\ \A k \in 1..m : g[k] = step[k][g[k - 1]]
           Has(m) == \E g : Upto(g, m)
           Without == {m \in Nat : m <= n /\ ~Has(m)}
<1> HIDE DEF Has
<1>1. Without = {}
  <2> SUFFICES ASSUME Without # {} PROVE FALSE
    OBVIOUS
  <2>1. PICK m \in Without : \A l \in Without : m <= l
    BY LeastOf
  <2>2. m \in Nat /\ m <= n /\ ~Has(m)
    BY <2>1
  <2>3. m # 0
    <3>1. Upto([k \in 0..0 |-> a], 0)
      OBVIOUS
    <3>. QED BY <2>2, <3>1 DEF Has
  <2>4. m - 1 \in Nat /\ m - 1 <= n /\ m - 1 \notin Without
    BY <2>1, <2>2, <2>3
  <2>5. PICK g : Upto(g, m - 1)
    BY <2>4 DEF Has
  <2> DEFINE v == step[m][g[m - 1]]
             h == [k \in 0..m |-> IF k = m THEN v ELSE g[k]]
  <2>6. v \in V
    <3>1. g[m - 1] \in V /\ m \in 1..n
      BY <2>2, <2>3, <2>4, <2>5
    <3>. QED BY <3>1
  <2> HIDE DEF v
  <2>7. h \in [0..m -> V] /\ h[0] = a
    BY <2>2, <2>3, <2>5, <2>6
  <2>8. ASSUME NEW k \in 1..m PROVE h[k] = step[k][h[k - 1]]
    <3>1. h[k - 1] = g[k - 1]
      BY <2>2
    <3>2. CASE k = m
      <4>1. h[k] = v
        BY <3>2
      <4>. QED BY <3>1, <3>2, <4>1 DEF v
    <3>3. CASE k # m
      <4>1. k \in 1..(m - 1) /\ h[k] = g[k]
        BY <2>2, <3>3
      <4>. QED BY <2>5, <3>1, <4>1
    <3>. QED BY <3>2, <3>3
  <2>9. Upto(h, m)
    BY <2>7, <2>8
  <2>. QED BY <2>2, <2>9 DEF Has
<1>2. PICK g : Upto(g, n)
  <2>1. n \in Nat /\ n <= n /\ n \notin Without
    BY <1>1
  <2>2. Has(n)
    BY <2>1
  <2>. QED BY <2>2 DEF Has
<1>. QED BY <1>2

\* A sequence of the first k statements, in order of start
First(ds, p, k) ==
    /\ p \in Seq(ds) /\ Len(p) = k
    /\ \A i, j \in 1..k : p[i] = p[j] => i = j
    /\ \A i, j \in 1..k : i < j => ~Earlier(p[j], p[i])
    /\ \A i \in 1..k : \A e \in ds \ ToSet(p) : ~Earlier(e, p[i])

LEMMA FirstOne ==
    ASSUME NEW ds, NEW k \in Nat, NEW p, First(ds, p, k), NEW d \in Earliest(ds \ ToSet(p))
    PROVE  First(ds, Append(p, d), k + 1)
<1> DEFINE q == Append(p, d)
<1>1. p \in Seq(ds) /\ Len(p) = k /\ DOMAIN p = 1..k
  BY DEF First
<1>2. d \in ds /\ d \notin ToSet(p) /\ \A e \in ds \ ToSet(p) : ~Earlier(e, d)
  BY DEF Earliest
<1>3. q \in Seq(ds) /\ Len(q) = k + 1 /\ q[k + 1] = d /\ \A i \in 1..k : q[i] = p[i]
  BY <1>1, <1>2
<1>4. \A i \in 1..k : p[i] \in ToSet(p)
  BY <1>1 DEF ToSet
<1>5. ToSet(p) \subseteq ToSet(q)
  <2>1. \A i \in 1..k : i \in DOMAIN q /\ q[i] = p[i]
    BY <1>1, <1>3
  <2>. QED BY <1>1, <2>1 DEF ToSet
<1> HIDE DEF q
<1>6. ASSUME NEW i \in 1..(k + 1) PROVE i = k + 1 \/ i \in 1..k
  OBVIOUS
<1>7. \A i, j \in 1..(k + 1) : q[i] = q[j] => i = j
  BY <1>2, <1>3, <1>4, <1>6 DEF First
<1>8. \A i, j \in 1..(k + 1) : i < j => ~Earlier(q[j], q[i])
  <2> SUFFICES ASSUME NEW i \in 1..(k + 1), NEW j \in 1..(k + 1), i < j
               PROVE  ~Earlier(q[j], q[i])
    OBVIOUS
  <2>1. i \in 1..k /\ q[i] = p[i]
    BY <1>3
  <2>2. CASE j = k + 1
    BY <1>2, <1>3, <2>1, <2>2 DEF First
  <2>3. CASE j # k + 1
    BY <1>3, <1>6, <2>1, <2>3 DEF First
  <2>. QED BY <2>2, <2>3
<1>9. \A i \in 1..(k + 1) : \A e \in ds \ ToSet(q) : ~Earlier(e, q[i])
  BY <1>2, <1>3, <1>5, <1>6 DEF First
<1>. QED BY <1>3, <1>7, <1>8, <1>9 DEF First, q

\* Sorted has all the statements, each once, in order of start.
LEMMA SortedIs ==
    ASSUME NEW ds, IsFiniteSet(ds), NEW p \in Sorted(ds)
    PROVE  First(ds, p, Cardinality(ds)) /\ ToSet(p) = ds
<1> DEFINE n == Cardinality(ds)
           V == SUBSET Seq(ds)
           More(R) == UNION {{Append(q, d) : d \in Earliest(ds \ ToSet(q))} : q \in R}
           Rec(h, k) == IF k = 0 THEN {<<>>} ELSE More(h[k - 1])
           Fix(h) == h = [k \in 0..n |-> Rec(h, k)]
           a == CHOOSE h : Fix(h)
           step == [k \in 1..n |-> [R \in V |-> More(R)]]
<1>1. n \in Nat
  BY FS_CardinalityType
<1>2. ASSUME NEW R \in V PROVE More(R) \in V
  <2>1. ASSUME NEW q \in R, NEW d \in Earliest(ds \ ToSet(q)) PROVE Append(q, d) \in Seq(ds)
    BY <2>1 DEF Earliest
  <2>2. ASSUME NEW x \in More(R) PROVE x \in Seq(ds)
    <3>1. PICK q \in R : x \in {Append(q, d) : d \in Earliest(ds \ ToSet(q))}
      BY <2>2
    <3>2. PICK d \in Earliest(ds \ ToSet(q)) : x = Append(q, d)
      BY <3>1
    <3>. QED BY <2>1, <3>2
  <2> HIDE DEF More
  <2>. QED BY <2>2
<1>3. PICK g \in [0..n -> V] : g[0] = {<<>>} /\ \A k \in 1..n : g[k] = step[k][g[k - 1]]
  <2> HIDE DEF More
  <2>1. step \in [1..n -> [V -> V]]
    BY <1>2
  <2> DEFINE b == {<<>>}
  <2>2. b \in V
    OBVIOUS
  <2> HIDE DEF n, V, step, b
  <2>3. \E g \in [0..n -> V] : g[0] = b /\ \A k \in 1..n : g[k] = step[k][g[k - 1]]
    BY <1>1, <2>1, <2>2, StepByStep
  <2>. QED BY <2>3 DEF b
<1>4. Fix(g)
  <2> HIDE DEF More
  <2>1. ASSUME NEW k \in 1..n PROVE g[k] = More(g[k - 1])
    <3>1. k - 1 \in 0..n
      BY <1>1
    <3>2. g[k - 1] \in V
      BY <1>3, <3>1
    <3>3. g[k] = step[k][g[k - 1]]
      BY <1>3
    <3> HIDE DEF V
    <3>. QED BY <3>2, <3>3
  <2>2. \A k \in 0..n : k = 0 \/ k \in 1..n
    BY <1>1
  <2>3. \A k \in 0..n : g[k] = Rec(g, k)
    BY <1>3, <2>1, <2>2
  <2>. QED BY <1>3, <2>3
<1>5. Fix(a)
  <2> HIDE DEF Fix
  <2>. QED BY <1>4
<1>6. Sorted(ds) = a[n]
  BY DEF Sorted
<1> HIDE DEF a
<1>7. \A k \in 0..n : a[k] = Rec(a, k)
  BY <1>5
<1> HIDE DEF Fix, n
<1> DEFINE Good(k) == \A q \in a[k] : First(ds, q, k)
           Bad == {k \in Nat : k <= n /\ ~Good(k)}
<1>8. Bad = {}
  <2> SUFFICES ASSUME Bad # {} PROVE FALSE
    OBVIOUS
  <2>1. PICK k \in Bad : \A l \in Bad : k <= l
    <3> HIDE DEF Bad
    <3>1. Bad \subseteq Nat
      BY DEF Bad
    <3>. QED BY <3>1, LeastOf
  <2>2. k \in Nat /\ k \in 0..n /\ ~Good(k)
    BY <1>1, <2>1
  <2>3. CASE k = 0
    <3>1. a[k] = {<<>>}
      BY <1>7, <2>2, <2>3
    <3>2. First(ds, <<>>, 0)
      BY DEF First
    <3>. QED BY <2>2, <2>3, <3>1, <3>2
  <2>4. CASE k # 0
    <3> DEFINE l == k - 1
    <3>1. l \in Nat /\ l <= n /\ l < k /\ k = l + 1
      BY <1>1, <2>2, <2>4
    <3>2. l \notin Bad
      BY <2>1, <2>2, <3>1
    <3>3. a[k] = More(a[l])
      BY <1>7, <2>2, <2>4
    <3> HIDE DEF l
    <3>4. Good(l)
      BY <3>1, <3>2
    <3>5. ASSUME NEW q \in a[k] PROVE First(ds, q, k)
      <4>1. PICK r \in a[l] : \E d \in Earliest(ds \ ToSet(r)) : q = Append(r, d)
        BY <3>3, <3>5
      <4>2. PICK d \in Earliest(ds \ ToSet(r)) : q = Append(r, d)
        BY <4>1
      <4>. QED BY <3>1, <3>4, <4>2, FirstOne
    <3>. QED BY <2>2, <3>5
  <2>. QED BY <2>3, <2>4
<1>9. First(ds, p, n)
  <2>1. n \in Nat /\ n <= n /\ n \notin Bad
    BY <1>1, <1>8
  <2>2. Good(n)
    BY <2>1
  <2>. QED BY <1>6, <2>2
<1>10. ToSet(p) = ds
  <2>1. p \in [1..n -> ds] /\ \A i, j \in 1..n : p[i] = p[j] => i = j
    BY <1>9 DEF First
  <2>2. p \in Injection(1..n, ds)
    BY <2>1 DEF Injection, IsInjective
  <2>3. Cardinality(1..n) = Cardinality(ds)
    BY <1>1, FS_Interval DEF n
  <2>4. p \in Surjection(1..n, ds)
    BY <2>2, <2>3, FS_Injection
  <2>5. DOMAIN p = 1..n /\ \A d \in ds : \E i \in 1..n : p[i] = d
    BY <2>1, <2>4 DEF Surjection
  <2>. QED BY <2>1, <2>5 DEF ToSet
<1>. QED BY <1>9, <1>10 DEF n

\* The statements of an extent among the first i, and the executions of some
Upto(p, i, x) == {p[j] : j \in {j \in 1..i : Extent(p[j]) = x}}
Executions(S) == UNION {{d} \X (1..statements[d]) : d \in S}

\* Where a statement comes to a position in text, and two that start together are one
Apart(ds) == \A d, e \in ds : d.from \in Int \X Int /\ (d.from = e.from => d.to = e.to)

\* The rows after the first i of the blocks
Row(ds) == [from: {d.from : d \in ds}, to: {d.to : d \in ds}, count: Nat]

Rowed(mode, ds, p, i, rows) ==
    /\ rows \in Seq(Row(ds))
    /\ \A j \in 1..i : \E r \in DOMAIN rows : Extent(rows[r]) = Extent(p[j])
    /\ \A r \in DOMAIN rows : \E j \in 1..i : Extent(rows[r]) = Extent(p[j])
    /\ \A r, s \in DOMAIN rows : Extent(rows[r]) = Extent(rows[s]) => r = s
    /\ i > 0 => Len(rows) > 0 /\ Extent(rows[Len(rows)]) = Extent(p[i])
    /\ \A x : IsFiniteSet(Executions(Upto(p, i, x)))
    /\ \A r \in DOMAIN rows :
          rows[r].count = Shown(mode, Cardinality(Executions(Upto(p, i, Extent(rows[r])))))

\* A further statement brings its executions.
LEMMA OneMore ==
    ASSUME NEW S, IsFiniteSet(Executions(S)), NEW d, d \notin S, statements[d] \in Nat
    PROVE  /\ IsFiniteSet(Executions(S \union {d}))
           /\ Cardinality(Executions(S \union {d})) = Cardinality(Executions(S)) + statements[d]
<1> DEFINE w == statements[d]
           T == {d} \X (1..w)
           g == [k \in 1..w |-> <<d, k>>]
<1>1. IsFiniteSet(T) /\ Cardinality(T) = w
  <2>1. IsFiniteSet(1..w) /\ Cardinality(1..w) = w
    BY FS_Interval
  <2>2. g \in Bijection(1..w, T)
    <3>1. g \in [1..w -> T] /\ DOMAIN g = 1..w
      OBVIOUS
    <3>2. \A k, l \in 1..w : g[k] = g[l] => k = l
      OBVIOUS
    <3>3. \A x \in T : \E k \in 1..w : g[k] = x
      OBVIOUS
    <3> HIDE DEF g
    <3>. QED BY <3>1, <3>2, <3>3 DEF Bijection, Injection, Surjection, IsInjective
  <2>. QED BY <2>1, <2>2, FS_Bijection DEF ExistsBijection
<1>2. Executions(S \union {d}) = Executions(S) \union T
  BY DEF Executions
<1>3. Executions(S) \intersect T = {}
  BY DEF Executions
<1>4. Cardinality(Executions(S) \intersect T) = 0
  BY <1>3, FS_EmptySet
<1> HIDE DEF T
<1>5. Cardinality(Executions(S)) \in Nat
  BY FS_CardinalityType
<1>6. IsFiniteSet(Executions(S) \union T)
      /\ Cardinality(Executions(S) \union T)
         = Cardinality(Executions(S)) + w - Cardinality(Executions(S) \intersect T)
  BY <1>1, FS_Union
<1> DEFINE E == Executions(S \union {d})
           F == Executions(S) \union T
<1>7. E = F
  BY <1>2
<1>8. IsFiniteSet(F) /\ Cardinality(F) = Cardinality(Executions(S)) + w
  BY <1>4, <1>5, <1>6
<1> HIDE DEF E, F
<1>9. IsFiniteSet(E) /\ Cardinality(E) = Cardinality(Executions(S)) + w
  BY <1>7, <1>8
<1>. QED BY <1>9 DEF E

\* What a further block adds to the extents
LEMMA UptoNext ==
    ASSUME NEW ds, NEW n \in Nat, NEW p, First(ds, p, n), \A d \in ds : statements[d] \in Nat,
           NEW i \in Nat, i < n, \A x : IsFiniteSet(Executions(Upto(p, i, x)))
    PROVE  /\ \A x : IsFiniteSet(Executions(Upto(p, i + 1, x)))
           /\ \A x : Cardinality(Executions(Upto(p, i + 1, x)))
                     = Cardinality(Executions(Upto(p, i, x)))
                       + IF x = Extent(p[i + 1]) THEN statements[p[i + 1]] ELSE 0
<1> SUFFICES ASSUME NEW x
             PROVE  /\ IsFiniteSet(Executions(Upto(p, i + 1, x)))
                    /\ Cardinality(Executions(Upto(p, i + 1, x)))
                       = Cardinality(Executions(Upto(p, i, x)))
                         + IF x = Extent(p[i + 1]) THEN statements[p[i + 1]] ELSE 0
  OBVIOUS
<1>1. i + 1 \in 1..n /\ \A j \in 1..i : j \in 1..n /\ j # i + 1
  OBVIOUS
<1>2. p[i + 1] \in ds
  BY <1>1 DEF First
<1>3. \A j \in 1..(i + 1) : j \in 1..i \/ j = i + 1
  OBVIOUS
<1>4. i + 1 \in 1..(i + 1) /\ \A j \in 1..i : j \in 1..(i + 1)
  OBVIOUS
<1>5. CASE x = Extent(p[i + 1])
  <2>1. Upto(p, i + 1, x) = Upto(p, i, x) \union {p[i + 1]}
    BY <1>3, <1>4, <1>5 DEF Upto
  <2>2. p[i + 1] \notin Upto(p, i, x)
    <3>1. \A j \in 1..i : p[j] # p[i + 1]
      BY <1>1 DEF First
    <3>. QED BY <3>1 DEF Upto
  <2>. QED BY <1>2, <1>5, <2>1, <2>2, OneMore
<1>6. CASE x # Extent(p[i + 1])
  <2>1. Upto(p, i + 1, x) = Upto(p, i, x)
    BY <1>3, <1>4, <1>6 DEF Upto
  <2>2. Cardinality(Executions(Upto(p, i, x))) \in Nat
    BY FS_CardinalityType
  <2>. QED BY <1>6, <2>1, <2>2
<1>. QED BY <1>5, <1>6

\* What is shown of a count
LEMMA ShownIs ==
    ASSUME NEW mode \in {"set", "count"}, NEW c \in Nat
    PROVE  Shown(mode, c) \in Nat /\ (Shown(mode, c) > 0 <=> c > 0)
  BY DEF Shown

\* A block of the extent of the last row goes into it.
LEMMA RowGrows ==
    ASSUME NEW mode \in {"set", "count"}, NEW ds, \A d \in ds : statements[d] \in Nat,
           NEW n \in Nat, NEW p, First(ds, p, n), NEW i \in Nat, i < n,
           NEW rows, Rowed(mode, ds, p, i, rows), Len(rows) > 0,
           SameExtent(rows[Len(rows)], Block(mode, p[i + 1]))
    PROVE  Rowed(mode, ds, p, i + 1,
                 [rows EXCEPT ![Len(rows)] = Merge(mode, @, Block(mode, p[i + 1]))])
<1> DEFINE m == Len(rows)
           d == p[i + 1]
           x == Extent(d)
           last == Merge(mode, rows[m], Block(mode, d))
           more == [rows EXCEPT ![m] = last]
           C(j, y) == Cardinality(Executions(Upto(p, j, y)))
<1>1. /\ rows \in Seq(Row(ds)) /\ DOMAIN rows = 1..m /\ m \in Nat
      /\ m \in 1..m /\ rows[m] \in Row(ds)
  BY DEF Rowed
<1>2. d \in ds /\ statements[d] \in Nat
  <2>1. i + 1 \in 1..n
    OBVIOUS
  <2>2. d \in ds
    BY <2>1 DEF First
  <2>. QED BY <2>2
<1>3. Extent(rows[m]) = x
  BY DEF SameExtent, Block, Extent
<1>4. \A y : IsFiniteSet(Executions(Upto(p, i, y))) /\ C(i, y) \in Nat
  BY FS_CardinalityType DEF Rowed
<1>5. /\ \A y : IsFiniteSet(Executions(Upto(p, i + 1, y)))
      /\ \A y : C(i + 1, y) = C(i, y) + IF y = x THEN statements[d] ELSE 0
  BY <1>4, UptoNext
<1> HIDE DEF C
<1>6. rows[m].count = Shown(mode, C(i, x))
  BY <1>1, <1>3 DEF Rowed, C
<1>7. /\ last.count = Shown(mode, rows[m].count + Shown(mode, statements[d]))
      /\ last \in Row(ds) /\ Extent(last) = x
  <2> DEFINE k == Shown(mode, rows[m].count + Shown(mode, statements[d]))
  <2>1. rows[m].count \in Nat /\ Shown(mode, statements[d]) \in Nat
    BY <1>1, <1>2, ShownIs DEF Row
  <2>2. k \in Nat
    <3>1. rows[m].count + Shown(mode, statements[d]) \in Nat
      BY <2>1
    <3>. QED BY <3>1, ShownIs
  <2>3. last = [rows[m] EXCEPT !.count = k]
    BY DEF Merge, Block
  <2> HIDE DEF k, last
  <2>4. last.count = k /\ last \in Row(ds) /\ last.from = rows[m].from /\ last.to = rows[m].to
    BY <1>1, <2>2, <2>3 DEF Row
  <2>. QED BY <1>3, <2>4 DEF k, Extent
<1>8. last.count = Shown(mode, C(i + 1, x))
  <2>1. C(i, x) \in Nat /\ C(i + 1, x) = C(i, x) + statements[d]
    BY <1>4, <1>5
  <2> DEFINE u == C(i, x)
             w == statements[d]
  <2>2. Shown(mode, Shown(mode, u) + Shown(mode, w)) = Shown(mode, u + w)
    <3> HIDE DEF u, w
    <3>1. u \in Nat /\ w \in Nat
      BY <1>2, <2>1 DEF u, w
    <3>. QED BY <3>1 DEF Shown
  <2>3. C(i + 1, x) = u + w
    BY <2>1
  <2>4. last.count = Shown(mode, Shown(mode, u) + Shown(mode, w))
    <3> HIDE DEF last
    <3>. QED BY <1>6, <1>7
  <2> HIDE DEF last, u, w, C, x
  <2>. QED BY <2>2, <2>3, <2>4
<1> HIDE DEF last
<1>9. /\ more \in Seq(Row(ds)) /\ DOMAIN more = 1..m /\ Len(more) = m /\ more[m] = last
      /\ \A r \in 1..m : r # m => more[r] = rows[r]
  BY <1>1, <1>7
<1> HIDE DEF more
<1>10. \A r \in 1..m : Extent(more[r]) = Extent(rows[r])
  BY <1>3, <1>7, <1>9
<1>11. \A j \in 1..(i + 1) : j \in 1..i \/ j = i + 1
  OBVIOUS
<1>12. \A j \in 1..i : j \in 1..(i + 1)
  OBVIOUS
<1>13. \A j \in 1..(i + 1) : \E r \in DOMAIN more : Extent(more[r]) = Extent(p[j])
  <2> SUFFICES ASSUME NEW j \in 1..(i + 1) PROVE \E r \in 1..m : Extent(more[r]) = Extent(p[j])
    BY <1>9
  <2>1. CASE j = i + 1
    BY <1>1, <1>3, <1>10, <2>1
  <2>2. CASE j \in 1..i
    BY <1>1, <1>10, <2>2 DEF Rowed
  <2>. QED BY <1>11, <2>1, <2>2
<1>14. \A r \in DOMAIN more : \E j \in 1..(i + 1) : Extent(more[r]) = Extent(p[j])
  <2> SUFFICES ASSUME NEW r \in 1..m PROVE \E j \in 1..(i + 1) : Extent(more[r]) = Extent(p[j])
    BY <1>9
  <2>1. PICK j \in 1..i : Extent(rows[r]) = Extent(p[j])
    BY <1>1 DEF Rowed
  <2>. QED BY <1>10, <1>12, <2>1
<1>15. \A r, s \in DOMAIN more : Extent(more[r]) = Extent(more[s]) => r = s
  BY <1>1, <1>9, <1>10 DEF Rowed
<1>16. Len(more) > 0 /\ Extent(more[Len(more)]) = Extent(p[i + 1])
  BY <1>7, <1>9
<1>17. ASSUME NEW r \in DOMAIN more PROVE more[r].count = Shown(mode, C(i + 1, Extent(more[r])))
  <2>1. CASE r = m
    BY <1>7, <1>8, <1>9, <2>1
  <2>2. CASE r # m
    <3>1. Extent(more[r]) # x
      BY <1>1, <1>3, <1>9, <1>10, <2>2 DEF Rowed
    <3>2. more[r].count = Shown(mode, C(i, Extent(more[r])))
      BY <1>1, <1>9, <2>2 DEF Rowed, C
    <3>3. C(i + 1, Extent(more[r])) = C(i, Extent(more[r]))
      BY <1>4, <1>5, <3>1 DEF C
    <3>. QED BY <3>2, <3>3
  <2>. QED BY <2>1, <2>2
<1>18. Rowed(mode, ds, p, i + 1, more)
  BY <1>5, <1>9, <1>13, <1>14, <1>15, <1>16, <1>17 DEF Rowed, C
<1>. QED BY <1>18 DEF more, last

\* A block of another extent than the last row's has one that no row has.
LEMMA RowIsNew ==
    ASSUME NEW mode \in {"set", "count"}, NEW ds, \A d \in ds : statements[d] \in Nat, Apart(ds),
           NEW n \in Nat, NEW p, First(ds, p, n), NEW i \in Nat, i < n,
           NEW rows, Rowed(mode, ds, p, i, rows),
           ~(Len(rows) > 0 /\ SameExtent(rows[Len(rows)], Block(mode, p[i + 1])))
    PROVE  \A r \in DOMAIN rows : Extent(rows[r]) # Extent(p[i + 1])
<1> SUFFICES ASSUME NEW r \in DOMAIN rows, Extent(rows[r]) = Extent(p[i + 1]) PROVE FALSE
  OBVIOUS
<1>1. PICK j \in 1..i : Extent(p[j]) = Extent(p[i + 1])
  BY DEF Rowed
<1>2. i > 0 /\ Len(rows) > 0 /\ Extent(rows[Len(rows)]) = Extent(p[i])
  BY <1>1 DEF Rowed
<1>3. Extent(p[i]) # Extent(p[i + 1])
  BY <1>2 DEF SameExtent, Block, Extent
<1>4. j < i
  BY <1>1, <1>3
<1>5. j \in 1..n /\ i \in 1..n /\ i + 1 \in 1..n
  BY <1>2
<1>6. ~Earlier(p[i], p[j]) /\ ~Earlier(p[i + 1], p[i])
  BY <1>4, <1>5 DEF First
<1>7. p[j] \in ds /\ p[i] \in ds /\ p[i + 1] \in ds
  BY <1>5 DEF First
<1>8. p[j].from = p[i + 1].from /\ p[j].to = p[i + 1].to
  BY <1>1 DEF Extent
<1>9. p[j].from \in Int \X Int /\ p[i].from \in Int \X Int
  BY <1>7 DEF Apart
<1>10. p[i].from = p[j].from
  <2> DEFINE u == p[j].from
             v == p[i].from
  <2>1. ~(u[1] < v[1] \/ (u[1] = v[1] /\ u[2] < v[2]))
    BY <1>6, <1>8 DEF Earlier
  <2>2. ~(v[1] < u[1] \/ (v[1] = u[1] /\ v[2] < u[2]))
    BY <1>6 DEF Earlier
  <2>3. u \in Int \X Int /\ v \in Int \X Int
    BY <1>9
  <2> HIDE DEF u, v
  <2>4. u[1] = v[1] /\ u[2] = v[2]
    BY <2>1, <2>2, <2>3
  <2>5. u = <<u[1], u[2]>> /\ v = <<v[1], v[2]>>
    BY <2>3
  <2>. QED BY <2>4, <2>5 DEF u, v
<1>11. p[i].to = p[j].to
  BY <1>7, <1>10 DEF Apart
<1>. QED BY <1>3, <1>8, <1>10, <1>11 DEF Extent

\* Any other comes after the rows.
LEMMA RowAdded ==
    ASSUME NEW mode \in {"set", "count"}, NEW ds, \A d \in ds : statements[d] \in Nat, Apart(ds),
           NEW n \in Nat, NEW p, First(ds, p, n), NEW i \in Nat, i < n,
           NEW rows, Rowed(mode, ds, p, i, rows),
           ~(Len(rows) > 0 /\ SameExtent(rows[Len(rows)], Block(mode, p[i + 1])))
    PROVE  Rowed(mode, ds, p, i + 1, Append(rows, Block(mode, p[i + 1])))
<1> DEFINE m == Len(rows)
           d == p[i + 1]
           x == Extent(d)
           b == Block(mode, d)
           more == Append(rows, b)
           C(j, y) == Cardinality(Executions(Upto(p, j, y)))
<1>1. rows \in Seq(Row(ds)) /\ DOMAIN rows = 1..m /\ m \in Nat
  BY DEF Rowed
<1>2. d \in ds /\ statements[d] \in Nat
  <2>1. i + 1 \in 1..n
    OBVIOUS
  <2>2. d \in ds
    BY <2>1 DEF First
  <2>. QED BY <2>2
<1>3. \A r \in 1..m : Extent(rows[r]) # x
  BY <1>1, RowIsNew
<1>4. b \in Row(ds) /\ Extent(b) = x /\ b.count = Shown(mode, statements[d])
  <2>1. Shown(mode, statements[d]) \in Nat
    BY <1>2, ShownIs
  <2>. QED BY <1>2, <2>1 DEF Block, Row, Extent
<1>5. \A y : IsFiniteSet(Executions(Upto(p, i, y))) /\ C(i, y) \in Nat
  BY FS_CardinalityType DEF Rowed
<1>6. /\ \A y : IsFiniteSet(Executions(Upto(p, i + 1, y)))
      /\ \A y : C(i + 1, y) = C(i, y) + IF y = x THEN statements[d] ELSE 0
  BY <1>5, UptoNext
<1>7. C(i, x) = 0
  <2>1. \A j \in 1..i : Extent(p[j]) # x
    <3> SUFFICES ASSUME NEW j \in 1..i, Extent(p[j]) = x PROVE FALSE
      OBVIOUS
    <3>1. PICK r \in DOMAIN rows : Extent(rows[r]) = Extent(p[j])
      BY DEF Rowed
    <3>. QED BY <1>1, <1>3, <3>1
  <2>2. Upto(p, i, x) = {}
    BY <2>1 DEF Upto
  <2>3. Executions(Upto(p, i, x)) = {}
    BY <2>2 DEF Executions
  <2>. QED BY <2>3, FS_EmptySet
<1> HIDE DEF C, b
<1>8. /\ more \in Seq(Row(ds)) /\ DOMAIN more = 1..(m + 1) /\ Len(more) = m + 1 /\ more[m + 1] = b
      /\ \A r \in 1..m : more[r] = rows[r]
  BY <1>1, <1>4
<1> HIDE DEF more
<1>9. \A r \in 1..(m + 1) : r \in 1..m \/ r = m + 1
  BY <1>1
<1>10. \A r \in 1..m : r \in 1..(m + 1)
  BY <1>1
<1>11. m + 1 \in 1..(m + 1)
  BY <1>1
<1>12. \A j \in 1..(i + 1) : j \in 1..i \/ j = i + 1
  OBVIOUS
<1>13. \A j \in 1..i : j \in 1..(i + 1)
  OBVIOUS
<1>14. \A j \in 1..(i + 1) : \E r \in DOMAIN more : Extent(more[r]) = Extent(p[j])
  <2> SUFFICES ASSUME NEW j \in 1..(i + 1) PROVE \E r \in 1..(m + 1) : Extent(more[r]) = Extent(p[j])
    BY <1>8
  <2>1. CASE j = i + 1
    BY <1>4, <1>8, <1>11, <2>1
  <2>2. CASE j \in 1..i
    <3>1. PICK r \in 1..m : Extent(rows[r]) = Extent(p[j])
      BY <1>1, <2>2 DEF Rowed
    <3>. QED BY <1>8, <1>10, <3>1
  <2>. QED BY <1>12, <2>1, <2>2
<1>15. \A r \in DOMAIN more : \E j \in 1..(i + 1) : Extent(more[r]) = Extent(p[j])
  <2> SUFFICES ASSUME NEW r \in 1..(m + 1) PROVE \E j \in 1..(i + 1) : Extent(more[r]) = Extent(p[j])
    BY <1>8
  <2>1. CASE r = m + 1
    <3>1. i + 1 \in 1..(i + 1)
      OBVIOUS
    <3>. QED BY <1>4, <1>8, <2>1, <3>1
  <2>2. CASE r \in 1..m
    <3>1. PICK j \in 1..i : Extent(rows[r]) = Extent(p[j])
      BY <1>1, <2>2 DEF Rowed
    <3>. QED BY <1>8, <1>13, <2>2, <3>1
  <2>. QED BY <1>9, <2>1, <2>2
<1>16. \A r, s \in DOMAIN more : Extent(more[r]) = Extent(more[s]) => r = s
  <2>1. \A r, s \in 1..m : Extent(more[r]) = Extent(more[s]) => r = s
    BY <1>1, <1>8 DEF Rowed
  <2>2. \A r \in 1..m : Extent(more[r]) # Extent(more[m + 1])
    BY <1>3, <1>4, <1>8
  <2>. QED BY <1>8, <1>9, <2>1, <2>2
<1>17. Len(more) > 0 /\ Extent(more[Len(more)]) = Extent(p[i + 1])
  BY <1>1, <1>4, <1>8
<1>18. ASSUME NEW r \in DOMAIN more PROVE more[r].count = Shown(mode, C(i + 1, Extent(more[r])))
  <2>1. CASE r = m + 1
    <3>1. C(i + 1, x) = statements[d]
      BY <1>2, <1>6, <1>7
    <3>. QED BY <1>4, <1>8, <2>1, <3>1
  <2>2. CASE r \in 1..m
    <3>1. Extent(more[r]) # x
      BY <1>3, <1>8, <2>2
    <3>2. more[r].count = Shown(mode, C(i, Extent(more[r])))
      BY <1>1, <1>8, <2>2 DEF Rowed, C
    <3>3. C(i + 1, Extent(more[r])) = C(i, Extent(more[r]))
      BY <1>5, <1>6, <3>1 DEF C
    <3>. QED BY <3>2, <3>3
  <2>. QED BY <1>8, <1>9, <2>1, <2>2
<1>19. Rowed(mode, ds, p, i + 1, more)
  BY <1>6, <1>8, <1>14, <1>15, <1>16, <1>17, <1>18 DEF Rowed, C
<1>. QED BY <1>19 DEF more, b

\* Replacing the last of a sequence
LEMMA Replaced ==
    ASSUME NEW R, NEW q \in Seq(R), NEW l \in R
    PROVE  [q EXCEPT ![Len(q)] = l] \in Seq(R)
<1> DEFINE m == Len(q)
           f == [q EXCEPT ![m] = l]
<1>1. m \in Nat /\ q \in [1..m -> R]
  OBVIOUS
<1> HIDE DEF m
<1>2. f \in [1..m -> R]
  BY <1>1
<1> HIDE DEF f
<1>3. f \in Seq(R)
  BY <1>1, <1>2
<1>. QED BY <1>3 DEF f, m

\* Merged makes one row for each extent, with the executions of its statements.
LEMMA MergedIs ==
    ASSUME NEW mode \in {"set", "count"}, NEW ds, \A d \in ds : statements[d] \in Nat, Apart(ds),
           NEW n \in Nat, NEW p, First(ds, p, n)
    PROVE  Rowed(mode, ds, p, n, Merged(mode, [i \in DOMAIN p |-> Block(mode, p[i])]))
<1> DEFINE blocks == [i \in DOMAIN p |-> Block(mode, p[i])]
           V == Seq(Row(ds))
           Next1(rows, i) == IF Len(rows) > 0 /\ SameExtent(rows[Len(rows)], blocks[i])
                             THEN [rows EXCEPT ![Len(rows)] = Merge(mode, @, blocks[i])]
                             ELSE Append(rows, blocks[i])
           Rec(h, i) == IF i = 0 THEN <<>> ELSE Next1(h[i - 1], i)
           Fix(h) == h = [i \in 0..Len(blocks) |-> Rec(h, i)]
           a == CHOOSE h : Fix(h)
           step == [i \in 1..n |-> [rows \in V |-> Next1(rows, i)]]
<1>1. p \in Seq(ds) /\ Len(p) = n /\ DOMAIN p = 1..n
  BY DEF First
<1>2. /\ Len(blocks) = n /\ blocks \in V
      /\ \A i \in 1..n : blocks[i] = Block(mode, p[i]) /\ blocks[i].count \in Nat /\ blocks[i] \in Row(ds)
  <2>1. \A i \in 1..n : p[i] \in ds
    BY <1>1
  <2>2. \A i \in 1..n : Block(mode, p[i]) \in Row(ds)
    <3> SUFFICES ASSUME NEW i \in 1..n PROVE Block(mode, p[i]) \in Row(ds)
      OBVIOUS
    <3>1. Shown(mode, statements[p[i]]) \in Nat
      BY <2>1, ShownIs
    <3>. QED BY <2>1, <3>1 DEF Block, Row
  <2>3. blocks \in [1..n -> Row(ds)] /\ \A i \in 1..n : blocks[i] = Block(mode, p[i])
    BY <1>1, <2>2
  <2> HIDE DEF blocks
  <2>4. Len(blocks) = n /\ blocks \in V
    BY <2>3
  <2>. QED BY <2>2, <2>3, <2>4 DEF Row
<1> HIDE DEF blocks
<1>3. ASSUME NEW i \in 1..n, NEW rows \in V PROVE Next1(rows, i) \in V
  <2>1. CASE Len(rows) > 0 /\ SameExtent(rows[Len(rows)], blocks[i])
    <3> DEFINE r == rows[Len(rows)]
    <3>1. Len(rows) \in 1..Len(rows) /\ r \in Row(ds)
      BY <2>1
    <3>2. Merge(mode, r, blocks[i]) \in Row(ds)
      <4> DEFINE k == Shown(mode, r.count + blocks[i].count)
      <4>1. r.count + blocks[i].count \in Nat
        BY <1>2, <3>1 DEF Row
      <4>2. k \in Nat
        BY <4>1, ShownIs
      <4>3. Merge(mode, r, blocks[i]) = [r EXCEPT !.count = k]
        BY DEF Merge
      <4> HIDE DEF k, r
      <4>. QED BY <3>1, <4>2, <4>3 DEF Row
    <3> DEFINE l == Merge(mode, r, blocks[i])
    <3>3. Next1(rows, i) = [rows EXCEPT ![Len(rows)] = l]
      BY <2>1
    <3>4. l \in Row(ds)
      BY <3>2
    <3> HIDE DEF l
    <3>5. [rows EXCEPT ![Len(rows)] = l] \in V
      <4> DEFINE R == Row(ds)
      <4>1. rows \in Seq(R) /\ l \in R
        BY <3>4
      <4> HIDE DEF R
      <4>2. [rows EXCEPT ![Len(rows)] = l] \in Seq(R)
        BY <4>1, Replaced
      <4>. QED BY <4>2 DEF R
    <3>. QED BY <3>3, <3>5
  <2>2. CASE ~(Len(rows) > 0 /\ SameExtent(rows[Len(rows)], blocks[i]))
    BY <1>2, <2>2
  <2>. QED BY <2>1, <2>2
<1> HIDE DEF Next1
<1>4. PICK g \in [0..n -> V] : g[0] = <<>> /\ \A i \in 1..n : g[i] = step[i][g[i - 1]]
  <2> DEFINE b == <<>>
  <2>1. step \in [1..n -> [V -> V]] /\ b \in V
    BY <1>3
  <2> HIDE DEF V, step, b
  <2>2. \E g \in [0..n -> V] : g[0] = b /\ \A k \in 1..n : g[k] = step[k][g[k - 1]]
    BY <2>1, StepByStep
  <2>. QED BY <2>2 DEF b
<1>5. Fix(g)
  <2>1. ASSUME NEW i \in 1..n PROVE g[i] = Next1(g[i - 1], i)
    <3>1. i - 1 \in 0..n
      OBVIOUS
    <3>2. g[i - 1] \in V /\ g[i] = step[i][g[i - 1]]
      BY <1>4, <3>1
    <3> HIDE DEF V
    <3>. QED BY <3>2
  <2>2. \A i \in 0..n : i = 0 \/ i \in 1..n
    OBVIOUS
  <2>3. \A i \in 0..n : g[i] = Rec(g, i)
    BY <1>4, <2>1, <2>2
  <2>. QED BY <1>2, <1>4, <2>3
<1>6. Fix(a)
  <2> HIDE DEF Fix
  <2>. QED BY <1>5
<1>7. Merged(mode, blocks) = a[n]
  BY <1>2 DEF Merged, Next1
<1> HIDE DEF a
<1>8. \A i \in 0..n : a[i] = Rec(a, i)
  BY <1>2, <1>6
<1> HIDE DEF Fix
<1> DEFINE Good(i) == Rowed(mode, ds, p, i, a[i])
           Bad == {i \in Nat : i <= n /\ ~Good(i)}
<1>9. Bad = {}
  <2> SUFFICES ASSUME Bad # {} PROVE FALSE
    OBVIOUS
  <2>1. PICK i \in Bad : \A l \in Bad : i <= l
    <3> HIDE DEF Bad
    <3>1. Bad \subseteq Nat
      BY DEF Bad
    <3>. QED BY <3>1, LeastOf
  <2>2. i \in Nat /\ i \in 0..n /\ ~Good(i)
    BY <2>1
  <2>3. CASE i = 0
    <3>1. a[i] = <<>>
      BY <1>8, <2>2, <2>3
    <3>2. \A x : Upto(p, 0, x) = {}
      BY DEF Upto
    <3>3. \A x : IsFiniteSet(Executions(Upto(p, 0, x)))
      <4>1. Executions({}) = {}
        BY DEF Executions
      <4>. QED BY <3>2, <4>1, FS_EmptySet
    <3>4. Rowed(mode, ds, p, 0, <<>>)
      BY <3>3 DEF Rowed
    <3>. QED BY <2>2, <2>3, <3>1, <3>4
  <2>4. CASE i # 0
    <3> DEFINE l == i - 1
    <3>1. l \in Nat /\ l <= n /\ l < i /\ i = l + 1 /\ l < n
      BY <2>2, <2>4
    <3>2. l \notin Bad
      BY <2>1, <2>2, <3>1
    <3>3. a[i] = Next1(a[l], i)
      BY <1>8, <2>2, <2>4
    <3> HIDE DEF l
    <3>4. Rowed(mode, ds, p, l, a[l])
      BY <3>1, <3>2
    <3>5. blocks[i] = Block(mode, p[l + 1])
      BY <1>2, <2>2, <2>4, <3>1
    <3> DEFINE rows == a[l]
    <3>6. Rowed(mode, ds, p, l, rows) /\ a[i] = Next1(rows, i)
      BY <3>3, <3>4
    <3> HIDE DEF rows
    <3>7. CASE Len(rows) > 0 /\ SameExtent(rows[Len(rows)], Block(mode, p[l + 1]))
      <4>1. Next1(rows, i) = [rows EXCEPT ![Len(rows)] = Merge(mode, @, Block(mode, p[l + 1]))]
        BY <3>5, <3>7 DEF Next1
      <4>2. Rowed(mode, ds, p, l + 1, Next1(rows, i))
        <5>1. Rowed(mode, ds, p, l + 1,
                    [rows EXCEPT ![Len(rows)] = Merge(mode, @, Block(mode, p[l + 1]))])
          BY <3>1, <3>6, <3>7, RowGrows
        <5>. QED BY <4>1, <5>1
      <4>. QED BY <2>2, <3>1, <3>6, <4>2
    <3>8. CASE ~(Len(rows) > 0 /\ SameExtent(rows[Len(rows)], Block(mode, p[l + 1])))
      <4>1. Next1(rows, i) = Append(rows, Block(mode, p[l + 1]))
        BY <3>5, <3>8 DEF Next1
      <4>2. Rowed(mode, ds, p, l + 1, Next1(rows, i))
        BY <3>1, <3>6, <3>8, <4>1, RowAdded
      <4>. QED BY <2>2, <3>1, <3>6, <4>2
    <3>. QED BY <3>7, <3>8
  <2>. QED BY <2>3, <2>4
<1>10. Rowed(mode, ds, p, n, a[n])
  <2>1. n <= n /\ n \notin Bad
    BY <1>9
  <2>. QED BY <2>1
<1>. QED BY <1>7, <1>10 DEF blocks

-----------------------------------------------------------------------------
(* The statements of a report, and its rows                                *)

\* There are finitely many statements, and each is that of some spot of a known contract.
Described ==
    /\ IsFiniteSet(DOMAIN statements)
    /\ \A d \in DOMAIN statements : \E c \in Contracts : \E s \in c.spots :
          ~Negative(s) /\ Known(c.name) /\ d = Descriptor(c.name, s)

LEMMA DescribedStays ==
    ASSUME RInv, Described, [Next]_vars
    PROVE  Described'
<1>1. ASSUME UNCHANGED <<paths, statements>> PROVE Described'
  BY <1>1 DEF Described, Known, Descriptor
<1>2. ASSUME NEW c \in Contracts, LoadContract(c) PROVE Described'
  <2>1. UNCHANGED statements /\ paths[c.name] = None
        /\ \A n \in Names : n # c.name => paths'[n] = paths[n]
    BY <1>2, LoadNumbers DEF RInv
  <2> SUFFICES ASSUME NEW d \in DOMAIN statements
               PROVE  \E e \in Contracts : \E s \in e.spots :
                         ~Negative(s) /\ Known(e.name)' /\ d = Descriptor(e.name, s)'
    BY <2>1 DEF Described
  <2>2. PICK e \in Contracts : \E s \in e.spots :
              ~Negative(s) /\ Known(e.name) /\ d = Descriptor(e.name, s)
    BY DEF Described
  <2>3. PICK s \in e.spots : ~Negative(s) /\ Known(e.name) /\ d = Descriptor(e.name, s)
    BY <2>2
  <2>4. paths'[e.name] = paths[e.name]
    BY <2>1, <2>3 DEF Known, Names
  <2>5. Known(e.name)' /\ Descriptor(e.name, s)' = Descriptor(e.name, s)
    BY <2>3, <2>4 DEF Known, Descriptor
  <2>. QED BY <2>3, <2>5
<1>3. ASSUME NEW c \in Contracts, NEW s \in c.spots, NEW k, ~Negative(s), Known(c.name),
             SetCount(Descriptor(c.name, s), k), UNCHANGED paths
      PROVE  Described'
  <2>1. DOMAIN statements' = DOMAIN statements \union {Descriptor(c.name, s)}
    BY <1>3 DEF SetCount
  <2>2. IsFiniteSet(DOMAIN statements')
    BY <2>1, FS_AddElement DEF Described
  <2>3. \A n, t : Known(n)' = Known(n) /\ Descriptor(n, t)' = Descriptor(n, t)
    BY <1>3 DEF Known, Descriptor
  <2>. QED BY <1>3, <2>1, <2>2, <2>3 DEF Described
<1>4. ASSUME NEW c \in Contracts, NEW s \in c.spots, AddStatement(c, s) PROVE Described'
  BY <1>1, <1>3, <1>4 DEF AddStatement, Crash
<1>5. ASSUME NEW c \in Contracts, NEW s \in c.spots, Collect(c, s) PROVE Described'
  BY <1>1, <1>3, <1>5 DEF Collect, Crash
<1>. QED BY <1>1, <1>2, <1>4, <1>5 DEF Next, vars

\* The statements of a source that start together are of one extent.
LEMMA ShowsApart ==
    ASSUME Compiled, Placed, StartsApart, RInv, Described, NEW f \in DOMAIN Text, NEW filter
    PROVE  Apart(Shows(filter, f))
<1>1. ASSUME NEW d \in Shows(filter, f)
      PROVE  \E c \in Contracts : \E s \in c.spots :
                /\ ~Negative(s) /\ c.paths[s.file + 1] = f
                /\ d.from = PosToLine(f, s.start) /\ d.to = PosToLine(f, End(s))
  <2>1. PICK c \in Contracts : \E s \in c.spots :
              ~Negative(s) /\ Known(c.name) /\ d = Descriptor(c.name, s)
    BY DEF Described, Shows
  <2>2. PICK s \in c.spots : ~Negative(s) /\ Known(c.name) /\ d = Descriptor(c.name, s)
    BY <2>1
  <2>3. paths[c.name] = c.paths
    BY <2>2, SourcesOf DEF RInv
  <2>4. d.src = c.paths[s.file + 1] /\ d.from = PosToLine(d.src, s.start) /\ d.to = PosToLine(d.src, End(s))
    BY <2>2, <2>3 DEF Descriptor
  <2>. QED BY <2>2, <2>4 DEF Shows
<1>2. ASSUME NEW c \in Contracts, NEW s \in c.spots, ~Negative(s), c.paths[s.file + 1] = f
      PROVE  s.start \in Int /\ Holding(f, s.start) # {} /\ PosToLine(f, s.start) \in Int \X Int
  <2>1. s.start \in Int
    BY CollectorAssumption DEF Contract, Spot
  <2>2. Holding(f, s.start) # {}
    BY <1>2, StatementOnLines
  <2> DEFINE i == Min(Holding(f, s.start))
  <2>3. DOMAIN Text[f] \subseteq Nat
    BY CollectorAssumption
  <2>4. i \in DOMAIN Text[f] /\ i \in Nat
    BY <2>2, <2>3, MinInSet DEF Holding
  <2>5. Starts[f][i] \in Nat
    BY <2>4, LineStarts
  <2>6. PosToLine(f, s.start) = <<i, s.start - Starts[f][i] + 1>>
    BY <2>2 DEF PosToLine
  <2> HIDE DEF i
  <2>. QED BY <2>1, <2>2, <2>4, <2>5, <2>6
<1> SUFFICES ASSUME NEW d \in Shows(filter, f), NEW e \in Shows(filter, f)
             PROVE  d.from \in Int \X Int /\ (d.from = e.from => d.to = e.to)
  BY DEF Apart
<1>3. PICK c \in Contracts : \E s \in c.spots :
            /\ ~Negative(s) /\ c.paths[s.file + 1] = f
            /\ d.from = PosToLine(f, s.start) /\ d.to = PosToLine(f, End(s))
  BY <1>1
<1>4. PICK s \in c.spots :
            /\ ~Negative(s) /\ c.paths[s.file + 1] = f
            /\ d.from = PosToLine(f, s.start) /\ d.to = PosToLine(f, End(s))
  BY <1>3
<1>5. PICK b \in Contracts : \E t \in b.spots :
            /\ ~Negative(t) /\ b.paths[t.file + 1] = f
            /\ e.from = PosToLine(f, t.start) /\ e.to = PosToLine(f, End(t))
  BY <1>1
<1>6. PICK t \in b.spots :
            /\ ~Negative(t) /\ b.paths[t.file + 1] = f
            /\ e.from = PosToLine(f, t.start) /\ e.to = PosToLine(f, End(t))
  BY <1>5
<1>7. d.from \in Int \X Int
  BY <1>2, <1>4
<1>8. ASSUME d.from = e.from PROVE d.to = e.to
  <2>1. s.start = t.start
    <3>1. PosToLine(f, s.start) = PosToLine(f, t.start)
      BY <1>4, <1>6, <1>8
    <3>2. /\ s.start \in Int /\ Holding(f, s.start) # {}
          /\ t.start \in Int /\ Holding(f, t.start) # {}
      BY <1>2, <1>4, <1>6
    <3>. QED BY <3>1, <3>2, PositionsApart
  <2>2. s.len = t.len
    BY <1>4, <1>6, <2>1 DEF StartsApart
  <2>3. End(s) = End(t)
    BY <2>1, <2>2 DEF End
  <2>. QED BY <1>4, <1>6, <2>3
<1>. QED BY <1>7, <1>8

\* Extents and rows match one to one, and those with executions.
Matching(g, n, X) ==
    /\ g \in [1..n -> X]
    /\ \A i, j \in 1..n : g[i] = g[j] => i = j
    /\ \A x \in X : \E i \in 1..n : g[i] = x

Picked(g, n, X, I, Y) ==
    I \subseteq 1..n /\ Y \subseteq X /\ \A i \in 1..n : i \in I <=> g[i] \in Y

LEMMA RowsMatch ==
    ASSUME NEW X, NEW n \in Nat, NEW g, Matching(g, n, X), NEW I, NEW Y, Picked(g, n, X, I, Y)
    PROVE  Cardinality(I) = Cardinality(Y)
<1> DEFINE h == [i \in I |-> g[i]]
<1>1. h \in [I -> Y] /\ DOMAIN h = I
  BY DEF Matching, Picked
<1>2. \A i, j \in I : h[i] = h[j] => i = j
  BY DEF Matching, Picked
<1>3. \A y \in Y : \E i \in I : h[i] = y
  BY DEF Matching, Picked
<1> HIDE DEF h
<1>4. h \in Bijection(I, Y)
  BY <1>1, <1>2, <1>3 DEF Bijection, Injection, Surjection, IsInjective
<1>5. IsFiniteSet(I)
  <2>1. IsFiniteSet(1..n)
    BY FS_Interval
  <2>. QED BY <2>1, FS_Subset DEF Picked
<1>. QED BY <1>4, <1>5, FS_Bijection DEF ExistsBijection

\* A row for each extent of the statements, and no others.
CountsOf(count, ds) ==
    \A x \in {Extent(d) : d \in ds} :
        count[x] = Cardinality(Executions({d \in ds : Extent(d) = x}))

OneEach(mode, ds, rows, count) ==
    LET extents == {Extent(d) : d \in ds} IN
    /\ \A x \in extents : \E i \in DOMAIN rows :
          /\ \A j \in DOMAIN rows : Extent(rows[j]) = x <=> j = i
          /\ rows[i].count = Shown(mode, count[x])
    /\ PercentCovered(rows) = <<Cardinality({x \in extents : count[x] > 0}), Cardinality(extents)>>

LEMMA RowsAre ==
    ASSUME NEW mode \in {"set", "count"}, NEW ds, \A d \in ds : statements[d] \in Nat,
           NEW n \in Nat, NEW p, First(ds, p, n), ToSet(p) = ds,
           NEW rows, Rowed(mode, ds, p, n, rows), NEW count, CountsOf(count, ds)
    PROVE  OneEach(mode, ds, rows, count)
<1> DEFINE extents == {Extent(d) : d \in ds}
           m == Len(rows)
<1>1. p \in Seq(ds) /\ DOMAIN p = 1..n
  BY DEF First
<1>2. rows \in Seq(Row(ds)) /\ DOMAIN rows = 1..m /\ m \in Nat
  BY DEF Rowed
<1>3. \A x : Upto(p, n, x) = {d \in ds : Extent(d) = x}
  BY <1>1 DEF Upto, ToSet
<1>4. ASSUME NEW i \in 1..m
      PROVE  Extent(rows[i]) \in extents /\ rows[i].count = Shown(mode, count[Extent(rows[i])])
  <2>1. PICK j \in 1..n : Extent(rows[i]) = Extent(p[j])
    BY <1>2 DEF Rowed
  <2>2. p[j] \in ds
    BY <1>1
  <2>3. Extent(rows[i]) \in extents
    BY <2>1, <2>2
  <2>4. count[Extent(rows[i])] = Cardinality(Executions(Upto(p, n, Extent(rows[i]))))
    BY <1>3, <2>3 DEF CountsOf
  <2>. QED BY <1>2, <2>3, <2>4 DEF Rowed
<1>5. \A x \in extents : count[x] \in Nat
  <2> SUFFICES ASSUME NEW x \in extents PROVE count[x] \in Nat
    OBVIOUS
  <2>1. count[x] = Cardinality(Executions(Upto(p, n, x)))
    BY <1>3 DEF CountsOf
  <2>. QED BY <2>1, FS_CardinalityType DEF Rowed
<1>6. \A i, j \in 1..m : Extent(rows[i]) = Extent(rows[j]) => i = j
  BY <1>2 DEF Rowed
<1>7. ASSUME NEW x \in extents PROVE \E i \in 1..m : Extent(rows[i]) = x
  <2>1. PICK d \in ds : x = Extent(d)
    OBVIOUS
  <2>2. PICK j \in 1..n : p[j] = d
    BY <1>1 DEF ToSet
  <2>. QED BY <1>2, <2>1, <2>2 DEF Rowed
<1>8. \A i \in 1..m : Extent(rows[i]) \in extents
  BY <1>4
<1> HIDE DEF extents, m
<1>9. \A x \in extents : \E i \in DOMAIN rows :
         /\ \A j \in DOMAIN rows : Extent(rows[j]) = x <=> j = i
         /\ rows[i].count = Shown(mode, count[x])
  <2> SUFFICES ASSUME NEW x \in extents
               PROVE  \E i \in 1..m : /\ \A j \in 1..m : Extent(rows[j]) = x <=> j = i
                                      /\ rows[i].count = Shown(mode, count[x])
    BY <1>2
  <2>1. PICK i \in 1..m : Extent(rows[i]) = x
    BY <1>7
  <2>. QED BY <1>4, <1>6, <2>1
<1> DEFINE g == [i \in 1..m |-> Extent(rows[i])]
           I == {i \in 1..m : rows[i].count > 0}
           Y == {x \in extents : count[x] > 0}
<1>10. Matching(g, m, extents)
  <2>1. g \in [1..m -> extents]
    BY <1>8
  <2>2. \A i, j \in 1..m : g[i] = g[j] => i = j
    BY <1>6
  <2>3. \A x \in extents : \E i \in 1..m : g[i] = x
    BY <1>7
  <2> HIDE DEF g
  <2>. QED BY <2>1, <2>2, <2>3 DEF Matching
<1>11. \A i \in 1..m : i \in I <=> g[i] \in Y
  <2> SUFFICES ASSUME NEW i \in 1..m
               PROVE  rows[i].count > 0 <=> count[Extent(rows[i])] > 0
    BY <1>8
  <2> DEFINE k == count[Extent(rows[i])]
  <2>1. k \in Nat /\ rows[i].count = Shown(mode, k)
    BY <1>4, <1>5
  <2> HIDE DEF k
  <2>2. Shown(mode, k) > 0 <=> k > 0
    BY <2>1, ShownIs
  <2>. QED BY <2>1, <2>2 DEF k
<1>12. Cardinality(I) = Cardinality(Y)
  <2>1. I \subseteq 1..m /\ Y \subseteq extents
    OBVIOUS
  <2>2. m \in Nat
    BY <1>2
  <2> HIDE DEF g, I, Y
  <2>3. Picked(g, m, extents, I, Y)
    BY <1>11, <2>1 DEF Picked
  <2>. QED BY <1>10, <2>2, <2>3, RowsMatch
<1>13. m = Cardinality(extents)
  <2> DEFINE J == 1..m
  <2>1. J \subseteq 1..m /\ extents \subseteq extents /\ \A i \in 1..m : i \in J <=> g[i] \in extents
    BY <1>8
  <2>2. Cardinality(J) = Cardinality(extents)
    <3>1. m \in Nat
      BY <1>2
    <3> HIDE DEF g, J
    <3>2. Picked(g, m, extents, J, extents)
      BY <2>1 DEF Picked
    <3>. QED BY <1>10, <3>1, <3>2, RowsMatch
  <2>3. Cardinality(J) = m
    <3>1. m \in Nat
      BY <1>2
    <3>. QED BY <3>1, FS_Interval
  <2>. QED BY <2>2, <2>3
<1>14. PercentCovered(rows) = <<Cardinality(Y), Cardinality(extents)>>
  <2>1. Covered(rows) = Cardinality(I)
    BY <1>2 DEF Covered
  <2> HIDE DEF I, Y
  <2>. QED BY <1>12, <1>13, <2>1 DEF PercentCovered, m
<1>. QED BY <1>9, <1>14 DEF extents, OneEach

\* The lines of the text report are the statements with their counts.
LEMMA LinesAre ==
    ASSUME NEW filter, NEW f
    PROVE  LET ds == Shows(filter, f)
               lines == {l \in Report("count", filter) : l[1].src = f}
           IN  /\ {Extent(l[1]) : l \in lines} = {Extent(d) : d \in ds}
               /\ \A x : Executed(lines, x) = Cardinality(Executions({d \in ds : Extent(d) = x}))
<1> DEFINE ds == Shows(filter, f)
           lines == {l \in Report("count", filter) : l[1].src = f}
<1>1. lines = {<<d, statements[d]>> : d \in ds}
  BY DEF Report, Shows, Shown
<1> HIDE DEF lines, ds
<1>2. {Extent(l[1]) : l \in lines} = {Extent(d) : d \in ds}
  <2>1. ASSUME NEW l \in lines PROVE \E d \in ds : Extent(l[1]) = Extent(d)
    BY <1>1
  <2>2. ASSUME NEW d \in ds PROVE \E l \in lines : Extent(l[1]) = Extent(d)
    <3>1. <<d, statements[d]>> \in lines /\ <<d, statements[d]>>[1] = d
      BY <1>1
    <3>. QED BY <3>1
  <2>. QED BY <2>1, <2>2
<1>3. ASSUME NEW x
      PROVE  Executed(lines, x) = Cardinality(Executions({d \in ds : Extent(d) = x}))
  <2>1. {l \in lines : Extent(l[1]) = x} = {<<d, statements[d]>> : d \in {d \in ds : Extent(d) = x}}
    BY <1>1
  <2> DEFINE S == {d \in ds : Extent(d) = x}
             L == {l \in lines : Extent(l[1]) = x}
  <2>2. L = {<<d, statements[d]>> : d \in S}
    BY <2>1
  <2> HIDE DEF S, L
  <2>3. UNION {{l[1]} \X (1..l[2]) : l \in L} = UNION {{d} \X (1..statements[d]) : d \in S}
    <3> DEFINE A == UNION {{l[1]} \X (1..l[2]) : l \in L}
               B == UNION {{d} \X (1..statements[d]) : d \in S}
    <3>1. ASSUME NEW e \in A PROVE e \in B
      <4>1. PICK l \in L : e \in {l[1]} \X (1..l[2])
        OBVIOUS
      <4>2. PICK d \in S : l = <<d, statements[d]>>
        BY <2>2
      <4>. QED BY <4>1, <4>2
    <3>2. ASSUME NEW e \in B PROVE e \in A
      <4>1. PICK d \in S : e \in {d} \X (1..statements[d])
        OBVIOUS
      <4> DEFINE l == <<d, statements[d]>>
      <4>2. l \in L /\ l[1] = d /\ l[2] = statements[d]
        BY <2>2
      <4> HIDE DEF l
      <4>3. e \in {l[1]} \X (1..l[2])
        BY <4>1, <4>2
      <4>. QED BY <4>2, <4>3
    <3> HIDE DEF A, B
    <3>3. A = B
      BY <3>1, <3>2
    <3>. QED BY <3>3 DEF A, B
  <2>. QED BY <2>3 DEF Executed, Executions, S, L
<1>. QED BY <1>2, <1>3 DEF lines, ds

\* The reports of a state
LEMMA ReportedOnce ==
    ASSUME Compiled, Placed, StartsApart, RInv, Described
    PROVE  OneRowPerStatement
<1> SUFFICES ASSUME NEW f \in DOMAIN Text, NEW filter \in SUBSET Names,
                    NEW mode \in {"set", "count"}, NEW blocks \in Profiles(mode, filter, f)
             PROVE  LET lines == {l \in Report("count", filter) : l[1].src = f}
                        extents == {Extent(l[1]) : l \in lines}
                        rows == Merged(mode, blocks)
                    IN  /\ \A x \in extents : \E i \in DOMAIN rows :
                              /\ \A j \in DOMAIN rows : Extent(rows[j]) = x <=> j = i
                              /\ rows[i].count = IF mode = "set" /\ Executed(lines, x) > 0 THEN 1
                                                 ELSE Executed(lines, x)
                        /\ PercentCovered(rows)
                           = <<Cardinality({x \in extents : Executed(lines, x) > 0}),
                               Cardinality(extents)>>
  BY DEF OneRowPerStatement
<1> DEFINE ds == Shows(filter, f)
           n == Cardinality(ds)
           lines == {l \in Report("count", filter) : l[1].src = f}
           extents == {Extent(l[1]) : l \in lines}
           rows == Merged(mode, blocks)
           count == [x \in extents |-> Executed(lines, x)]
<1>1. IsFiniteSet(ds) /\ n \in Nat /\ \A d \in ds : statements[d] \in Nat
  <2>1. ds \subseteq DOMAIN statements
    BY DEF Shows
  <2>2. IsFiniteSet(ds)
    BY <2>1, FS_Subset DEF Described
  <2>. QED BY <2>1, <2>2, FS_CardinalityType DEF RInv, Numbers
<1>2. Apart(ds)
  BY ShowsApart
<1>3. PICK p \in Sorted(ds) : blocks = [i \in DOMAIN p |-> Block(mode, p[i])]
  BY DEF Profiles
<1> HIDE DEF ds
<1>4. First(ds, p, n) /\ ToSet(p) = ds
  BY <1>1, SortedIs
<1> HIDE DEF n
<1>5. Rowed(mode, ds, p, n, rows)
  BY <1>1, <1>2, <1>3, <1>4, MergedIs
<1>6. /\ extents = {Extent(d) : d \in ds}
      /\ \A x : Executed(lines, x) = Cardinality(Executions({d \in ds : Extent(d) = x}))
  BY LinesAre DEF ds
<1>7. CountsOf(count, ds)
  <2> HIDE DEF extents, lines
  <2>. QED BY <1>6 DEF CountsOf
<1> HIDE DEF rows, count, lines, extents
<1>8. /\ \A x \in extents : \E i \in DOMAIN rows :
            /\ \A j \in DOMAIN rows : Extent(rows[j]) = x <=> j = i
            /\ rows[i].count = Shown(mode, count[x])
      /\ PercentCovered(rows)
         = <<Cardinality({x \in extents : count[x] > 0}), Cardinality(extents)>>
  <2>1. OneEach(mode, ds, rows, count)
    BY <1>1, <1>4, <1>5, <1>7, RowsAre
  <2>. QED BY <1>6, <2>1 DEF OneEach
<1>9. \A x \in extents : count[x] = Executed(lines, x)
  BY DEF count
<1>10. {x \in extents : count[x] > 0} = {x \in extents : Executed(lines, x) > 0}
  BY <1>9
<1>11. /\ \A x \in extents : \E i \in DOMAIN rows :
             /\ \A j \in DOMAIN rows : Extent(rows[j]) = x <=> j = i
             /\ rows[i].count = IF mode = "set" /\ Executed(lines, x) > 0 THEN 1
                                ELSE Executed(lines, x)
       /\ PercentCovered(rows)
          = <<Cardinality({x \in extents : Executed(lines, x) > 0}), Cardinality(extents)>>
  <2>1. ASSUME NEW x \in extents
        PROVE  Shown(mode, count[x]) = IF mode = "set" /\ Executed(lines, x) > 0 THEN 1
                                       ELSE Executed(lines, x)
    BY <1>9 DEF Shown
  <2>. QED
    BY <1>8, <1>10, <2>1
<1>. QED BY <1>11 DEF rows, lines, extents

\* In the HTML report each statement of a source has one row, with all of its executions, for
\* any number of contracts that share the source, whatever the order the map gives them in
\* and whatever the sort leaves of it.
THEOREM RowsOnce == Compiled /\ Placed /\ StartsApart => (Spec => []OneRowPerStatement)
<1> SUFFICES ASSUME Compiled, Placed, StartsApart PROVE Spec => []OneRowPerStatement
  OBVIOUS
<1>1. Init => Described
  <2> SUFFICES ASSUME Init PROVE Described
    OBVIOUS
  <2>1. DOMAIN statements = {}
    BY DEF Init
  <2>. QED BY <2>1, FS_EmptySet DEF Described
<1>2. RInv /\ Described /\ [Next]_vars => Described'
  BY DescribedStays
<1>3. RInv /\ Described => OneRowPerStatement
  BY ReportedOnce
<1>. QED BY <1>1, <1>2, <1>3, Invariance, PTL DEF Spec

=============================================================================
