------------------------------ MODULE MCStorage -----------------------------
(* Storage on a small instance; symbols are interchangeable.                *)
EXTENDS Storage, TLC

SymbolSymmetry == Permutations(Symbols)
=============================================================================
