---------------------------- MODULE MCSymbolNames ---------------------------
(* SymbolNames for two symbols, any of them configured, on every exchange.  *)
EXTENDS SymbolNames, TLC
=============================================================================
