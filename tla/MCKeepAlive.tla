----------------------------- MODULE MCKeepAlive ----------------------------
(* KeepAlive on small instances: model values for goroutines, connections   *)
(* and symbols.                                                             *)
EXTENDS KeepAlive, TLC
=============================================================================
