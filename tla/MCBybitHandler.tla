--------------------------- MODULE MCBybitHandler ---------------------------
(* BybitHandler on small instances: connections and fields are              *)
(* interchangeable.                                                         *)
EXTENDS BybitHandler, TLC

ConnFieldSymmetry == Permutations(Conns) \cup Permutations(Fields)
=============================================================================
