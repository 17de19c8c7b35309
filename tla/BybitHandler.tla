---------------------------- MODULE BybitHandler ----------------------------
(***************************************************************************)
(* The ticker cache of internal/exchanges/bybit.go on top of the connection *)
(* of ExchangeLoop, whose skeleton bybit.go shares.  Bybit sends a snapshot *)
(* of a symbol first and then deltas; the run loop merges what it reads     *)
(* into tickerCache and publishes the merged ticker, while reconnect, on    *)
(* behalf of a request, clears the cache between closing and dialing.       *)
(* A ticker is the set of its fields that have a value.                     *)
(***************************************************************************)
EXTENDS ExchangeLoop

CONSTANTS
  Fields,      \* fields of TickerData
  NoMessage

VARIABLES
  cache,        \* h.tickerCache: the populated fields of each symbol
  snapshotted,  \* symbols whose snapshot was sent, for each connection
  message,      \* the ticker message the run loop is processing
  partial,      \* connections that delivered a ticker published with a field missing
  stale         \* connections dialed before the cache was last cleared

bybitVars == <<vars, cache, snapshotted, message, partial, stale>>

BybitInit ==
  /\ Init
  /\ cache = [s \in Symbols |-> {}]
  /\ snapshotted = [c \in Conns |-> {}]
  /\ message = NoMessage
  /\ partial = {}
  /\ stale = {}

\* ReadMessage returns a ticker: all fields of a symbol, later any of them.
ReceiveTicker ==
  /\ pc[Loop] = "recv"
  /\ net[sock[Loop]] = "open"
  /\ \E s \in subs[sock[Loop]], fields \in SUBSET Fields \ {{}} :
       /\ s \notin snapshotted[sock[Loop]] => fields = Fields
       /\ message' = [symbol |-> s, fields |-> fields]
       /\ snapshotted' = [snapshotted EXCEPT ![sock[Loop]] = @ \cup {s}]
  /\ Goto(Loop, "merge")
  /\ UNCHANGED <<ctxDone, mu, symbols, pending, conn, connected, net, subs, dialed, sock, args>>
  /\ UNCHANGED <<backoff, cache, partial, stale>>

\* Mutant: the fields that are missing are overwritten too.
Overwrite ==
  /\ pc[Loop] = "merge"
  /\ cache' = [cache EXCEPT ![message.symbol] = message.fields]
  /\ partial' = IF cache'[message.symbol] = Fields THEN partial
                                                  ELSE partial \cup {sock[Loop]}
  /\ message' = NoMessage
  /\ Goto(Loop, "read")
  /\ UNCHANGED <<ctxDone, mu, symbols, pending, conn, connected, net, subs, dialed, sock, args>>
  /\ UNCHANGED <<backoff, snapshotted, stale>>

\* Merge the non-empty fields under cacheMu, publish a copy.
Merge ==
  /\ pc[Loop] = "merge"
  /\ cache' = [cache EXCEPT ![message.symbol] = @ \cup message.fields]
  /\ partial' = IF cache'[message.symbol] = Fields THEN partial
                                                  ELSE partial \cup {sock[Loop]}
  /\ message' = NoMessage
  /\ Goto(Loop, "read")
  /\ UNCHANGED <<ctxDone, mu, symbols, pending, conn, connected, net, subs, dialed, sock, args>>
  /\ UNCHANGED <<backoff, snapshotted, stale>>

\* Mutant: the connection is left to be replaced by the next dial.
ClearWithoutClose(a) ==
  /\ pc[a] = "reconnect"
  /\ Goto(a, "clear")
  /\ UNCHANGED <<ctxDone, mu, symbols, pending, conn, connected, net, subs, dialed, sock, args>>
  /\ UNCHANGED <<backoff, cache, snapshotted, message, partial, stale>>

\* reconnect: close, clear the cache, then as in OkxHandler.
CloseForReconnect(a) ==
  /\ pc[a] = "reconnect"
  /\ Close
  /\ Goto(a, "clear")
  /\ UNCHANGED <<ctxDone, mu, symbols, pending, subs, dialed, sock, args>>
  /\ UNCHANGED <<backoff, cache, snapshotted, message, partial, stale>>

ClearCache(a) ==
  /\ pc[a] = "clear"
  /\ cache' = [s \in Symbols |-> {}]
  /\ stale' = {c \in Conns : net[c] # "idle"}
  /\ Goto(a, "dial")
  /\ UNCHANGED <<ctxDone, mu, symbols, pending, conn, connected, net, subs, dialed, sock, args>>
  /\ UNCHANGED <<backoff, snapshotted, message, partial>>

\* The steps bybit.go shares with okx.go; a new connection starts without
\* snapshots.
Shared ==
  /\ \/ LoopStep
     \/ \E a \in Callers :
          \/ (ConnectStep(a) \/ StoreSymbols(a) \/ ReturnToCaller(a)) /\ UNCHANGED backoff
          \/ Request(a)
     \/ Shutdown
     \/ Network
  /\ snapshotted' = [c \in Conns |-> IF net'[c] = "idle" THEN {} ELSE snapshotted[c]]
  /\ partial' = {c \in partial : net'[c] # "idle"}
  /\ stale' = {c \in stale : net'[c] # "idle"}
  /\ UNCHANGED <<cache, message>>

BybitNext ==
  \/ Shared
  \/ ReceiveTicker
  \/ Merge
  \/ \E a \in Callers : CloseForReconnect(a) \/ ClearCache(a)

BybitSpec == BybitInit /\ [][BybitNext]_bybitVars

-----------------------------------------------------------------------------
(* "With caching, all fields remain populated": no published ticker lacks a *)
(* field, however snapshots, deltas and reconnections follow each other.    *)
CompleteTickers == partial = {}

(* The cache does its work on every connection dialed after it was last     *)
(* cleared: only a connection that was already there, and that the reader   *)
(* may still be on, delivers tickers that are published incomplete.  As     *)
(* long as no request clears the cache, that is CompleteTickers.            *)
FreshConnComplete == partial \subseteq stale

\* Where ExchangeLoop has an actor that is at one of the two steps it does not
\* know: the merge comes before the next read, the clearing before the dial.
ConnectionPc ==
  [a \in Actors |-> CASE pc[a] = "merge" -> "read"
                      [] pc[a] = "clear" -> "dial"
                      [] OTHER -> pc[a]]

Connection == INSTANCE ExchangeLoop WITH pc <- ConnectionPc

(* The cache does not disturb the connection: bybit.go connects, reads,      *)
(* subscribes and reconnects in the steps of the handlers without a cache,   *)
(* and what holds of their connection holds of Bybit's.                      *)
ImplementsLoop == Connection!Spec
=============================================================================
