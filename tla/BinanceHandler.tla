--------------------------- MODULE BinanceHandler ---------------------------
(***************************************************************************)
(* The symbol filter of internal/exchanges/binance.go.  One stream carries  *)
(* every symbol; the goroutine reading it looks each one up in              *)
(* subscribedSymbols under symbolsMu, and publishes it after the lock is    *)
(* released, while HTTP requests add and remove symbols.  The connection is *)
(* that of OkxHandler without subscribe and reconnect.                      *)
(***************************************************************************)
EXTENDS Naturals

CONSTANTS
  Symbols,
  Configured,      \* the symbols of the configuration
  ObjectSymbols,   \* symbols the exchange also sends as single objects
  NoSymbol,
  MaxLate          \* bound on the counter late

ASSUME BinanceAssumption ==
  /\ Configured \subseteq Symbols
  /\ ObjectSymbols \subseteq Symbols
  /\ NoSymbol \notin Symbols
  /\ MaxLate \in Nat

VARIABLES
  subscribed,   \* h.subscribedSymbols
  batch,        \* symbols of the current array still to be looked at
  passed,       \* the symbol past the filter and not yet published
  late          \* publications of a symbol not subscribed, since it last was

binanceVars == <<subscribed, batch, passed, late>>

BinanceInit ==
  /\ subscribed = Configured
  /\ batch = {}
  /\ passed = NoSymbol
  /\ late = [s \in Symbols |-> 0]

\* ReadMessage returns an array of mini tickers.
Receive(tickers) ==
  /\ batch = {} /\ passed = NoSymbol
  /\ batch' = tickers
  /\ UNCHANGED <<subscribed, passed, late>>

\* Anything that is one JSON object is processed without the filter.
ReceiveObject(s) ==
  /\ batch = {} /\ passed = NoSymbol
  /\ passed' = s
  /\ UNCHANGED <<subscribed, batch, late>>

\* Mutant: the look-up is left out.
CheckNothing(s) ==
  /\ s \in batch /\ passed = NoSymbol
  /\ batch' = batch \ {s}
  /\ passed' = s
  /\ UNCHANGED <<subscribed, late>>

\* The look-up, under symbolsMu.
Check(s) ==
  /\ s \in batch /\ passed = NoSymbol
  /\ batch' = batch \ {s}
  /\ passed' = IF s \in subscribed THEN s ELSE NoSymbol
  /\ UNCHANGED <<subscribed, late>>

\* processMiniTicker and the callback, which stores the ticker.
Publish ==
  /\ passed # NoSymbol
  /\ passed' = NoSymbol
  /\ late' = IF passed \in subscribed \/ late[passed] = MaxLate
               THEN late
               ELSE [late EXCEPT ![passed] = @ + 1]
  /\ UNCHANGED <<subscribed, batch>>

\* An event of another type is dropped after the filter.
Skip ==
  /\ passed # NoSymbol
  /\ passed' = NoSymbol
  /\ UNCHANGED <<subscribed, batch, late>>

Subscribe(s) ==
  /\ subscribed' = subscribed \cup {s}
  /\ late' = [late EXCEPT ![s] = 0]
  /\ UNCHANGED <<batch, passed>>

Unsubscribe(s) ==
  /\ subscribed' = subscribed \ {s}
  /\ UNCHANGED <<batch, passed, late>>

BinanceNext ==
  \/ \E tickers \in SUBSET Symbols \ {{}} : Receive(tickers)
  \/ \E s \in ObjectSymbols : ReceiveObject(s)
  \/ \E s \in Symbols : Check(s) \/ Subscribe(s) \/ Unsubscribe(s)
  \/ Publish
  \/ Skip

BinanceSpec == BinanceInit /\ [][BinanceNext]_binanceVars

-----------------------------------------------------------------------------
(* Types; only listed symbols are counted or in flight.                     *)
TypeOK ==
  /\ subscribed \subseteq Symbols
  /\ batch \subseteq Symbols
  /\ passed \in Symbols \cup {NoSymbol}
  /\ late \in [Symbols -> 0..MaxLate]

(* "Filters to subscribed symbols client-side": from its removal to its     *)
(* next subscription a symbol that comes in arrays is published at most     *)
(* once, by the look-up that was under way when it was removed.             *)
AtMostOneLate == \A s \in Symbols \ ObjectSymbols : late[s] <= 1
=============================================================================
