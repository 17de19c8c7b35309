--------------------------- MODULE MCTickerRequest --------------------------
(* TickerRequest on small instances: one configured symbol, one that is     *)
(* not, requests that are interchangeable.                                  *)
EXTENDS TickerRequest, TLC

RequestSymmetry == Permutations(Requests)
=============================================================================
