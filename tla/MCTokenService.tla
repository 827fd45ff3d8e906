--------------------------- MODULE MCTokenService ---------------------------
(* TokenService for TLC: identifiers are interchangeable model values. *)
EXTENDS TokenService, TLC

Symmetry == Permutations(Tokens) \cup Permutations(Families)
=============================================================================
