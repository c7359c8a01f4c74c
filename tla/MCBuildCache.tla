---------------------------- MODULE MCBuildCache ----------------------------
(* Instances of BuildCache for TLC: names that do or do not collide.       *)
EXTENDS BuildCache, TLC

CONSTANTS Token, TOKEN, Counter

\* Two spellings of one name, and a name of its own.
ToLower == [n \in Names |-> IF n = TOKEN THEN Token ELSE n]

\* Text 1 declares every name, text 2 has lost all but one.
Declared == [v \in Versions |-> IF v = 1 THEN Names ELSE Names \ {Token}]

BuilderSymmetry == Permutations(Builders)

=============================================================================
