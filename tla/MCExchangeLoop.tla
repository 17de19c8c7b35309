--------------------------- MODULE MCExchangeLoop ---------------------------
(* ExchangeLoop on small instances: model values for goroutines,            *)
(* connections and symbols.                                                 *)
EXTENDS ExchangeLoop, TLC
=============================================================================
