--------------------------- MODULE MCTokenFaults ---------------------------
(* TokenFaults for TLC: identifiers are interchangeable model values. *)
EXTENDS TokenFaults, TLC

Symmetry == Permutations(Tokens) \cup Permutations(Families)
=============================================================================
