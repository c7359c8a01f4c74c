--------------------------- MODULE MCCompileOutput --------------------------
(* Instances of CompileOutput for TLC: up to three files and names, with   *)
(* an interface among them.                                                *)
EXTENDS CompileOutput, TLC

CONSTANTS Token, Vault, IToken

PathSymmetry == Permutations(Paths)

=============================================================================
