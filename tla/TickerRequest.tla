---------------------------- MODULE TickerRequest ---------------------------
(***************************************************************************)
(* GET /api/ticker/binance/{symbol} (handleTicker of internal/server/       *)
(* server.go) against a running Binance handler and a storage: look up,     *)
(* else subscribe, sleep, look up again, all under one context deadline.    *)
(* Composes BinanceHandler, whose reader publishes into the storage, with   *)
(* TickerStore, the storage as its interface promises it.  Binance is       *)
(* configured and the storage reachable; symbols are quoted in USDT, the    *)
(* only supported quote, for which the WebSocket name and the storage name  *)
(* of a symbol determine each other.  A unit of time is a second.           *)
(***************************************************************************)
EXTENDS BinanceHandler

CONSTANTS
  Requests,            \* HTTP goroutines
  TTL,                 \* of the storage
  Timeout,             \* of the context: 2 s
  Sleep,               \* before the second look-up: 2 s
  HonoursContext,      \* Redis: an operation fails when its context is done
  Data,                \* the serialized ticker
  NoEntry, NotFound, Failed

\* What is stored during the sleep is readable at its end.
ASSUME RequestAssumption ==
  /\ Sleep \in Nat /\ TTL \in Nat /\ Sleep <= TTL
  /\ NoEntry \notin [data : Data, age : 0..TTL]

VARIABLES
  live, answer,                      \* TickerStore
  pc, sym,         \* step and symbol of each request
  deadline,        \* time left to its context
  asleep,          \* time left to its sleep
  stream           \* what the reader did with the symbol during the sleep:
                   \* nothing yet, "carried" it to its end, or it was "removed"

Exchanges == {"binance"}

Store == INSTANCE TickerStore

storeVars == <<live, answer>>
requestVars == <<pc, sym, deadline, asleep, stream>>
vars == <<binanceVars, storeVars, requestVars>>

Key(s) == <<"binance", s>>

Init ==
  /\ BinanceInit
  /\ Store!StoreInit
  /\ pc = [r \in Requests |-> "idle"]
  /\ sym = [r \in Requests |-> NoSymbol]
  /\ deadline = [r \in Requests |-> 0]
  /\ asleep = [r \in Requests |-> 0]
  /\ stream = [r \in Requests |-> "nothing"]

-----------------------------------------------------------------------------
\* The context starts with the first look-up.
Request(r, s) ==
  /\ pc[r] \in {"idle", "found", "notFound"}
  /\ pc' = [pc EXCEPT ![r] = "get"]
  /\ sym' = [sym EXCEPT ![r] = s]
  /\ deadline' = [deadline EXCEPT ![r] = Timeout]
  /\ stream' = [stream EXCEPT ![r] = "nothing"]
  /\ UNCHANGED <<binanceVars, storeVars, asleep>>

\* storage.Get, answered by the store or cut off by the context.
Get(r) ==
  IF HonoursContext /\ deadline[r] = 0
    THEN Store!Unreachable
    ELSE Store!Read(Key(sym[r]))

FirstGet(r) ==
  /\ pc[r] = "get"
  /\ Get(r)
  /\ pc' = [pc EXCEPT ![r] = IF answer' \in Data THEN "found" ELSE "subscribe"]
  /\ UNCHANGED <<binanceVars, sym, deadline, asleep, stream>>

\* Mutant: the symbol is not subscribed.
NoAutoSubscribe(r) ==
  /\ pc[r] = "subscribe"
  /\ pc' = [pc EXCEPT ![r] = "sleep"]
  /\ asleep' = [asleep EXCEPT ![r] = Sleep]
  /\ UNCHANGED <<binanceVars, storeVars, sym, deadline, stream>>

\* manager.Subscribe, then two seconds of sleep.
AutoSubscribe(r) ==
  /\ pc[r] = "subscribe"
  /\ Subscribe(sym[r])
  /\ pc' = [pc EXCEPT ![r] = "sleep"]
  /\ asleep' = [asleep EXCEPT ![r] = Sleep]
  /\ UNCHANGED <<storeVars, sym, deadline, stream>>

SecondGet(r) ==
  /\ pc[r] = "sleep"
  /\ asleep[r] = 0
  /\ Get(r)
  /\ pc' = [pc EXCEPT ![r] = IF answer' \in Data THEN "found" ELSE "notFound"]
  /\ UNCHANGED <<binanceVars, sym, deadline, asleep, stream>>

-----------------------------------------------------------------------------
\* Requests asleep, waiting for s.
WaitingFor(s) == {r \in Requests : pc[r] = "sleep" /\ sym[r] = s /\ stream[r] = "nothing"}

Mark(rs, what) == stream' = [r \in Requests |-> IF r \in rs THEN what ELSE stream[r]]

\* The reader is done with s when the filter drops it, or it is published.
Reader ==
  \/ /\ \/ \E tickers \in SUBSET Symbols \ {{}} : Receive(tickers)
        \/ \E s \in ObjectSymbols : ReceiveObject(s)
        \/ Skip
     /\ UNCHANGED <<storeVars, stream>>
  \/ \E s \in Symbols :
       /\ Check(s)
       /\ Mark(IF passed' = s THEN {} ELSE WaitingFor(s), "carried")
       /\ UNCHANGED storeVars
  \/ /\ Publish
     /\ \E d \in Data : Store!Put(Key(passed), d)
     /\ Mark(WaitingFor(passed), "carried")

\* POST /api/subscribe and /api/unsubscribe.
HandleSubscribe(s) ==
  /\ Subscribe(s)
  /\ UNCHANGED <<storeVars, requestVars>>

HandleUnsubscribe(s) ==
  /\ Unsubscribe(s)
  /\ Mark(WaitingFor(s), "removed")
  /\ UNCHANGED <<storeVars, pc, sym, deadline, asleep>>

\* A second; a request that has slept enough is not late by a whole one.
Tick ==
  /\ \A r \in Requests : pc[r] = "sleep" => asleep[r] > 0
  /\ Store!Elapse
  /\ deadline' = [r \in Requests |-> IF deadline[r] = 0 THEN 0 ELSE deadline[r] - 1]
  /\ asleep' = [r \in Requests |-> IF asleep[r] = 0 THEN 0 ELSE asleep[r] - 1]
  /\ UNCHANGED <<binanceVars, pc, sym, stream>>

Next ==
  \/ \E r \in Requests :
       \/ \E s \in Symbols : Request(r, s)
       \/ FirstGet(r) \/ AutoSubscribe(r) \/ SecondGet(r)
  \/ Reader /\ UNCHANGED <<pc, sym, deadline, asleep>>
  \/ \E s \in Symbols : HandleSubscribe(s) \/ HandleUnsubscribe(s)
  \/ Tick

Spec == Init /\ [][Next]_vars

-----------------------------------------------------------------------------
(* "Auto-subscribes to new symbols (2-second delay for first request)": a   *)
(* request whose symbol came by on the stream while it slept, and was not   *)
(* unsubscribed before, is answered with the ticker.                        *)
ServedWhenCarried == \A r \in Requests : pc[r] = "notFound" => stream[r] # "carried"
=============================================================================
