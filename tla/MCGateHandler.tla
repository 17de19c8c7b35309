---------------------------- MODULE MCGateHandler ---------------------------
(* GateHandler on small instances: model values for goroutines, connections *)
(* and symbols.                                                             *)
EXTENDS GateHandler, TLC

SafetySymmetry == Permutations(Conns) \cup Permutations(Callers)
=============================================================================
