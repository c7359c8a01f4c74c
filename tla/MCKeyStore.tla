----------------------------- MODULE MCKeyStore -----------------------------
(* Instances of KeyStore for TLC: two small trees of wallet files.         *)
EXTENDS KeyStore, TLC

CONSTANTS a1, a2, w1

File(d, claims, owner, password) ==
    [dir |-> d, claims |-> claims, owner |-> owner, password |-> password]

\* One directory; the second wallet claims the address of the first.
OneDir == [d \in Dirs |-> <<File(d, a1, a1, w1), File(d, a1, a2, Empty)>>]

\* Two directories, with a file that is no wallet at the end of the first.
TwoDirs ==
    [d \in Dirs |-> IF d = 1 THEN <<File(1, a1, a1, w1), Bad>> ELSE <<File(2, a2, a2, Empty)>>]

ProcSymmetry == Permutations(Procs)

=============================================================================
