------------------------ MODULE TickerRequest_proofs ------------------------
(***************************************************************************)
(* The filter of BinanceHandler for every set of symbols, and               *)
(* ServedWhenCarried of TickerRequest for a storage that ignores contexts,  *)
(* any number of requests and symbols, and any sleep within the TTL.        *)
(***************************************************************************)
EXTENDS TickerRequest, TLAPS

(* The filter.  Inductive is that a symbol subscribed, or past the filter,  *)
(* has not been published late yet.                                         *)
NotLateYet == \A s \in Symbols \ ObjectSymbols : s \in subscribed \/ passed = s => late[s] = 0

IInv == TypeOK /\ NotLateYet /\ AtMostOneLate

(* Every action keeps the inductive invariant.                              *)
LEMMA StepIInv ==
  ASSUME IInv, [BinanceNext]_binanceVars
  PROVE  IInv'
<1> USE BinanceAssumption DEF IInv, TypeOK, NotLateYet, AtMostOneLate
<1>1. ASSUME NEW tickers \in SUBSET Symbols, Receive(tickers)
      PROVE  IInv'
  BY <1>1 DEF Receive
<1>2. ASSUME NEW s \in ObjectSymbols, ReceiveObject(s)
      PROVE  IInv'
  BY <1>2 DEF ReceiveObject
<1>3. ASSUME NEW s \in Symbols, Check(s)
      PROVE  IInv'
  BY <1>3 DEF Check
<1>4. ASSUME NEW s \in Symbols, Subscribe(s)
      PROVE  IInv'
  BY <1>4 DEF Subscribe
<1>5. ASSUME NEW s \in Symbols, Unsubscribe(s)
      PROVE  IInv'
  BY <1>5 DEF Unsubscribe
<1>6. CASE Publish
  <2>1. passed \in Symbols /\ (passed \notin ObjectSymbols => late[passed] = 0)
    BY <1>6 DEF Publish
  <2>2. QED
    BY <1>6, <2>1 DEF Publish
<1>7. CASE Skip
  BY <1>7 DEF Skip
<1>8. CASE UNCHANGED binanceVars
  BY <1>8 DEF binanceVars
<1>9. QED
  BY <1>1, <1>2, <1>3, <1>4, <1>5, <1>6, <1>7, <1>8 DEF BinanceNext

(* A symbol that comes in arrays is published at most once after its        *)
(* removal, however requests and the reader interleave.                     *)
THEOREM Filtered == BinanceSpec => []AtMostOneLate
<1>1. BinanceInit => IInv
  BY BinanceAssumption DEF BinanceInit, IInv, TypeOK, NotLateYet, AtMostOneLate
<1>2. IInv /\ [BinanceNext]_binanceVars => IInv'
  BY StepIInv
<1>3. IInv => AtMostOneLate
  BY DEF IInv
<1>4. QED
  BY <1>1, <1>2, <1>3, PTL DEF BinanceSpec

-----------------------------------------------------------------------------
(* The requests.  Inductive is that a symbol waited for stays subscribed    *)
(* until the reader carries it, and that from then on its entry is young    *)
(* enough to outlast the rest of the sleep.                                 *)
Entries == [data : Data, age : 0..TTL]

RequestTypeOK ==
  /\ subscribed \subseteq Symbols
  /\ batch \subseteq Symbols
  /\ passed \in Symbols \cup {NoSymbol}
  /\ live \in [Store!Keys -> Entries \cup {NoEntry}]
  /\ pc \in [Requests -> {"idle", "get", "subscribe", "sleep", "found", "notFound"}]
  /\ sym \in [Requests -> Symbols \cup {NoSymbol}]
  /\ asleep \in [Requests -> 0..Sleep]
  /\ stream \in [Requests -> {"nothing", "carried", "removed"}]

Named == \A r \in Requests : pc[r] \in {"get", "subscribe", "sleep"} => sym[r] \in Symbols

Unheard == \A r \in Requests : pc[r] \in {"get", "subscribe"} => stream[r] = "nothing"

Wanted == \A r \in Requests :
            pc[r] = "sleep" /\ stream[r] = "nothing" => sym[r] \in subscribed

Stored == \A r \in Requests :
            pc[r] = "sleep" /\ stream[r] = "carried" =>
              /\ live[Key(sym[r])] # NoEntry
              /\ live[Key(sym[r])].age + asleep[r] <= Sleep

RInv == RequestTypeOK /\ Named /\ Unheard /\ Wanted /\ Stored /\ ServedWhenCarried

(* A symbol's key is a key of the store.                                   *)
LEMMA KeyInKeys == \A s \in Symbols : Key(s) \in Store!Keys
BY DEF Key, Store!Keys, Exchanges

(* Different symbols have different keys.                                  *)
LEMMA KeyInjective == \A s, t \in Symbols : Key(s) = Key(t) => s = t
BY DEF Key

(* An age short of the TTL can grow.                                       *)
LEMMA NextAge == \A n \in 0..TTL : n # TTL => n + 1 \in 0..TTL
BY RequestAssumption

(* The inductive invariant of the composition holds at first.              *)
LEMMA InitRInv == Init => RInv
<1> SUFFICES ASSUME Init PROVE RInv
  OBVIOUS
<1> USE BinanceAssumption, RequestAssumption DEF Init
<1>1. RequestTypeOK
  BY DEF RequestTypeOK, BinanceInit, Store!StoreInit, Entries
<1>2. Named /\ Unheard /\ Wanted /\ Stored /\ ServedWhenCarried
  BY DEF Named, Unheard, Wanted, Stored, ServedWhenCarried
<1>3. QED
  BY <1>1, <1>2 DEF RInv

(* One step of a request; the store is only read.                           *)
LEMMA RequestStep ==
  ASSUME RInv, ~HonoursContext, NEW r \in Requests,
         \/ \E s \in Symbols : Request(r, s)
         \/ FirstGet(r) \/ AutoSubscribe(r) \/ SecondGet(r)
  PROVE  RInv'
<1> USE BinanceAssumption, RequestAssumption
      DEF RInv, RequestTypeOK, Named, Unheard, Wanted, Stored, ServedWhenCarried
<1> USE DEF binanceVars, storeVars
<1>1. ASSUME NEW s \in Symbols, Request(r, s)
      PROVE  RInv'
  BY <1>1 DEF Request
<1>2. ASSUME FirstGet(r)
      PROVE  RInv'
  BY <1>2 DEF FirstGet, Get, Store!Read
<1>3. ASSUME AutoSubscribe(r)
      PROVE  RInv'
  BY <1>3 DEF AutoSubscribe, Subscribe
<1>4. ASSUME SecondGet(r)
      PROVE  RInv'
  <2>1. stream[r] = "carried" => answer' \in Data
    <3>1. ASSUME stream[r] = "carried"
          PROVE  live[Key(sym[r])] \in Entries
      BY <1>4, <3>1, KeyInKeys DEF SecondGet
    <3>2. QED
      BY <1>4, <3>1 DEF SecondGet, Get, Store!Read, Entries
  <2>2. UNCHANGED <<subscribed, batch, passed, live, sym, asleep, stream>>
    BY <1>4 DEF SecondGet, Get, Store!Read
  <2>3. pc' = [pc EXCEPT ![r] = IF answer' \in Data THEN "found" ELSE "notFound"]
    BY <1>4 DEF SecondGet
  <2>4. QED
    BY <2>1, <2>2, <2>3
<1>5. QED
  BY <1>1, <1>2, <1>3, <1>4

(* One step of the reader: what it carries is in the store.                 *)
LEMMA ReaderStep ==
  ASSUME RInv, Reader, UNCHANGED <<pc, sym, deadline, asleep>>
  PROVE  RInv'
<1> USE BinanceAssumption, RequestAssumption
      DEF RInv, RequestTypeOK, Named, Unheard, Wanted, Stored, ServedWhenCarried
<1> USE DEF binanceVars, storeVars
<1>1. ASSUME NEW tickers \in SUBSET Symbols, Receive(tickers), UNCHANGED <<storeVars, stream>>
      PROVE  RInv'
  BY <1>1 DEF Receive
<1>o. ASSUME NEW s \in ObjectSymbols, ReceiveObject(s), UNCHANGED <<storeVars, stream>>
      PROVE  RInv'
  BY <1>o DEF ReceiveObject
<1>k. ASSUME Skip, UNCHANGED <<storeVars, stream>>
      PROVE  RInv'
  BY <1>k DEF Skip
<1>2. ASSUME NEW s \in Symbols, Check(s), UNCHANGED storeVars,
             Mark(IF passed' = s THEN {} ELSE WaitingFor(s), "carried")
      PROVE  RInv'
  <2>1. passed' = s \/ WaitingFor(s) = {}
    BY <1>2 DEF Check, WaitingFor
  <2>2. UNCHANGED stream
    BY <1>2, <2>1 DEF Mark
  <2>3. QED
    BY <1>2, <2>2 DEF Check
<1>3. ASSUME Publish, NEW d \in Data, Store!Put(Key(passed), d),
             Mark(WaitingFor(passed), "carried")
      PROVE  RInv'
  <2> USE <1>3 DEF Publish, Store!Put
  <2>1. passed \in Symbols /\ Key(passed) \in Store!Keys
    BY KeyInKeys
  <2>2. [data |-> d, age |-> 0] \in Entries
    BY DEF Entries
  <2>3. RequestTypeOK' /\ Named'
    BY <2>1, <2>2 DEF Mark
  <2>4. Unheard' /\ Wanted' /\ ServedWhenCarried'
    BY DEF Mark, WaitingFor
  <2>5. ASSUME NEW r \in Requests, pc[r] = "sleep", stream'[r] = "carried"
        PROVE  /\ live'[Key(sym[r])] # NoEntry
               /\ live'[Key(sym[r])].age + asleep[r] <= Sleep
    <3>1. CASE sym[r] = passed
      <4>1. live'[Key(sym[r])] = [data |-> d, age |-> 0]
        BY <3>1, <2>1
      <4>2. QED
        BY <4>1, <2>2, <2>5 DEF Entries
    <3>2. CASE sym[r] # passed
      <4>1. live'[Key(sym[r])] = live[Key(sym[r])]
        BY <3>2, <2>1, <2>5, KeyInKeys, KeyInjective
      <4>2. stream[r] = "carried"
        BY <3>2, <2>5 DEF Mark, WaitingFor
      <4>3. QED
        BY <4>1, <4>2, <2>5
    <3>3. QED
      BY <3>1, <3>2
  <2>6. Stored'
    BY <2>5
  <2>7. QED
    BY <2>3, <2>4, <2>6
<1>4. QED
  BY <1>1, <1>o, <1>k, <1>2, <1>3 DEF Reader

(* An HTTP subscription, an HTTP removal, a second.                         *)
LEMMA OtherStep ==
  ASSUME RInv,
         \/ \E s \in Symbols : HandleSubscribe(s) \/ HandleUnsubscribe(s)
         \/ Tick
  PROVE  RInv'
<1> USE BinanceAssumption, RequestAssumption
      DEF RInv, RequestTypeOK, Named, Unheard, Wanted, Stored, ServedWhenCarried
<1> USE DEF binanceVars, storeVars
<1>1. ASSUME NEW s \in Symbols, HandleSubscribe(s)
      PROVE  RInv'
  BY <1>1 DEF HandleSubscribe, Subscribe, requestVars
<1>2. ASSUME NEW s \in Symbols, HandleUnsubscribe(s)
      PROVE  RInv'
  BY <1>2 DEF HandleUnsubscribe, Unsubscribe, Mark, WaitingFor
<1>3. CASE Tick
  <2> USE <1>3 DEF Tick, Store!Elapse
  <2>1. ASSUME NEW k \in Store!Keys
        PROVE  live'[k] \in Entries \cup {NoEntry}
    <3>1. CASE live[k] = NoEntry \/ live[k].age = TTL
      BY <3>1, <2>1
    <3>2. CASE ~(live[k] = NoEntry \/ live[k].age = TTL)
      <4>1. live[k] \in Entries
        BY <3>2, <2>1
      <4>2. live[k].age \in 0..TTL /\ live[k].age # TTL
        BY <4>1, <3>2 DEF Entries
      <4>3. live[k] \in Entries /\ live[k].age + 1 \in 0..TTL
        BY <4>1, <4>2, NextAge
      <4>4. [live[k] EXCEPT !.age = live[k].age + 1] \in Entries
        BY <4>3 DEF Entries
      <4>5. live'[k] = [live[k] EXCEPT !.age = live[k].age + 1]
        BY <3>2, <2>1
      <4>6. QED
        BY <4>4, <4>5
    <3>3. QED
      BY <3>1, <3>2
  <2>2. live' \in [Store!Keys -> Entries \cup {NoEntry}]
    BY <2>1
  <2>3. RequestTypeOK'
    BY <2>2
  <2>4. ASSUME NEW r \in Requests, pc[r] = "sleep", stream[r] = "carried"
        PROVE  /\ live'[Key(sym[r])] # NoEntry
               /\ live'[Key(sym[r])].age + asleep'[r] <= Sleep
    <3>1. Key(sym[r]) \in Store!Keys /\ live[Key(sym[r])] \in Entries
      BY <2>4, KeyInKeys
    <3>2. asleep[r] \in Nat /\ asleep[r] > 0 /\ asleep'[r] = asleep[r] - 1
      BY <2>4
    <3>3. live[Key(sym[r])].age + asleep[r] <= Sleep
      BY <2>4
    <3>4. live'[Key(sym[r])] = [live[Key(sym[r])] EXCEPT !.age = @ + 1]
      BY <3>1, <3>2, <3>3, <2>4 DEF Entries
    <3>5. /\ live'[Key(sym[r])].age = live[Key(sym[r])].age + 1
          /\ live'[Key(sym[r])] \in Entries
      BY <3>1, <3>2, <3>3, <3>4 DEF Entries
    <3>6. QED
      BY <3>1, <3>2, <3>3, <3>5 DEF Entries
  <2>5. Stored'
    BY <2>4
  <2>6. Named' /\ Unheard' /\ Wanted' /\ ServedWhenCarried'
    OBVIOUS
  <2>7. QED
    BY <2>3, <2>5, <2>6
<1>4. QED
  BY <1>1, <1>2, <1>3

(* With the memory storage, a request whose symbol came by while it slept   *)
(* is answered with the ticker.                                             *)
THEOREM Served == ~HonoursContext => (Spec => []ServedWhenCarried)
<1> SUFFICES ASSUME ~HonoursContext
             PROVE  Spec => []ServedWhenCarried
  OBVIOUS
<1>1. RInv /\ [Next]_vars => RInv'
  <2>1. ASSUME RInv, UNCHANGED vars
        PROVE  RInv'
    BY <2>1 DEF vars, binanceVars, Store!storeVars, requestVars, binanceVars, storeVars,
         RInv, RequestTypeOK, Named, Unheard, Wanted, Stored, ServedWhenCarried
  <2>2. QED
    BY <2>1, RequestStep, ReaderStep, OtherStep DEF Next
<1>2. RInv => ServedWhenCarried
  BY DEF RInv
<1>3. QED
  BY InitRInv, <1>1, <1>2, PTL DEF Spec

(* A request past its arrival has a symbol, whatever the storage does.       *)
NamedInv ==
  /\ pc \in [Requests -> {"idle", "get", "subscribe", "sleep", "found", "notFound"}]
  /\ sym \in [Requests -> Symbols \cup {NoSymbol}]
  /\ Named

(* Every action keeps a request past its arrival its symbol.               *)
LEMMA NamedStep ==
  ASSUME NamedInv, [Next]_vars
  PROVE  NamedInv'
<1> USE DEF NamedInv, Named
<1>1. ASSUME NEW r \in Requests, NEW s \in Symbols, Request(r, s)
      PROVE  NamedInv'
  BY <1>1 DEF Request
<1>2. ASSUME NEW r \in Requests, FirstGet(r) \/ AutoSubscribe(r) \/ SecondGet(r)
      PROVE  NamedInv'
  BY <1>2 DEF FirstGet, AutoSubscribe, SecondGet
<1>3. ASSUME UNCHANGED <<pc, sym>>
      PROVE  NamedInv'
  BY <1>3
<1>4. QED
  BY <1>1, <1>2, <1>3 DEF Next, HandleSubscribe, HandleUnsubscribe, Tick, vars, requestVars

(* The composition keeps what the filter promises by itself: requests,       *)
(* storage and time only take steps of BinanceHandler.                      *)
THEOREM FilteredInService == Spec => []AtMostOneLate
<1>1. Init => BinanceInit /\ NamedInv
  BY DEF Init, NamedInv, Named
<1>2. NamedInv /\ [Next]_vars => [BinanceNext]_binanceVars
  <2> SUFFICES ASSUME NamedInv, [Next]_vars
               PROVE  [BinanceNext]_binanceVars
    OBVIOUS
  <2>1. ASSUME NEW r \in Requests,
               \/ \E s \in Symbols : Request(r, s)
               \/ FirstGet(r) \/ SecondGet(r)
        PROVE  UNCHANGED binanceVars
    BY <2>1 DEF Request, FirstGet, SecondGet
  <2>2. ASSUME NEW r \in Requests, AutoSubscribe(r)
        PROVE  BinanceNext
    BY <2>2 DEF AutoSubscribe, BinanceNext, NamedInv, Named
  <2>3. ASSUME Reader
        PROVE  BinanceNext
    BY <2>3 DEF Reader, BinanceNext
  <2>4. ASSUME NEW s \in Symbols, HandleSubscribe(s) \/ HandleUnsubscribe(s)
        PROVE  BinanceNext
    BY <2>4 DEF HandleSubscribe, HandleUnsubscribe, BinanceNext
  <2>5. ASSUME Tick \/ UNCHANGED vars
        PROVE  UNCHANGED binanceVars
    BY <2>5 DEF Tick, vars
  <2>6. QED
    BY <2>1, <2>2, <2>3, <2>4, <2>5 DEF Next
<1>3. QED
  BY Filtered, NamedStep, <1>1, <1>2, PTL DEF Spec, BinanceSpec
=============================================================================
