-------------------------- MODULE Handlers_proofs ---------------------------
(***************************************************************************)
(* What runs beside the steps of ExchangeLoop: the pingers of KeepAlive and *)
(* the ticker cache of BybitHandler, for every set of callers, connections, *)
(* symbols and fields.  Both refine ExchangeLoop, so that its theorems hold *)
(* of their connection; the rest is proved on top of its invariant.         *)
(***************************************************************************)
EXTENDS KeepAlive, BybitHandler, ExchangeLoop_proofs

(* The pingers.  That some pinger exists is not inductive: it may be one    *)
(* about to write to an earlier connection, which fails and returns.  What  *)
(* is preserved is that some pinger waits for its tick, or has already      *)
(* copied the current connection.                                           *)

\* The current connection is past subscribe, and not lost.
Serving == conn # NoConn /\ Settled(conn) /\ net[conn] = "open"

PingerInv ==
  /\ pinger \in [Pingers -> {Waiting, Ended} \cup Conns]
  /\ Serving => \E p \in Pingers : pinger[p] = Waiting \/ pinger[p] = conn

(* A pinger only reads the handler's state, and what it asks of the others   *)
(* is not to collect the connection it holds.                                *)
LEMMA PingersAside == [KeepAliveNext]_keepAliveVars => [Next]_vars
BY DEF KeepAliveNext, keepAliveVars, Tick, Ping, PingOk, PingFail

(* A handler with any number of pingers is a handler: its connection is not  *)
(* a closed one and carries every symbol of the list, and its run loop ends  *)
(* when it is told to, as without them.                                      *)
THEOREM PingersDisturbNothing ==
  KeepAliveSpec =>
    Spec /\ []TypeOK /\ []CurrentConnNotClosed /\ []CurrentConnSubscribed /\ LoopEnds
<1>1. KeepAliveSpec => Spec
  BY PingersAside, PTL DEF KeepAliveSpec, KeepAliveInit, Spec
<1>2. QED
  BY <1>1, TypeCorrect, NotClosed, Subscribed, LoopEnding, PTL

(* A step of the handler that does not start a pinger does not make a        *)
(* connection current, settled or open either.                               *)
LEMMA ServingBefore ==
  ASSUME IInv, Next, ~ \E a \in Actors : WriteOk(a), Serving'
  PROVE  Serving /\ conn' = conn
<1> USE HandlerAssumption, LoopAssumption DEF Goto, Serving, Settled
<1>1. TypeOK /\ CurrentConnNotClosed /\ DialedInv
  BY DEF IInv
<1> USE <1>1
<1>2. ASSUME NEW a \in Actors, ConnectStep(a)
      PROVE  Serving /\ conn' = conn
  <2>1. CASE DialOk(a)
    BY <2>1 DEF DialOk, TypeOK, CurrentConnNotClosed, Subscribing
  <2>2. CASE DialFail(a)
    BY <2>2 DEF DialFail, TypeOK, Subscribing
  <2>3. CASE Install(a)
    BY <2>3 DEF Install, TypeOK, Subscribing
  <2>4. CASE ReadSymbols(a)
    BY <2>4 DEF ReadSymbols, TypeOK, Subscribing
  <2>5. CASE PickConn(a)
    BY <2>5 DEF PickConn, TypeOK, Subscribing
  <2>6. CASE WriteFail(a)
    BY <2>6 DEF WriteFail, TypeOK, Subscribing
  <2>7. CASE Abort(a)
    BY <2>7 DEF Abort, Close
  <2>8. QED
    BY <1>2, <2>1, <2>2, <2>3, <2>4, <2>5, <2>6, <2>7 DEF ConnectStep
<1>3. CASE LoopStep
  <2>1. CASE StopLoop \/ Disconnect
    BY <2>1 DEF StopLoop, Disconnect, Close
  <2>2. CASE BeginConnect \/ SleepBackoff \/ StartReading
    BY <2>2 DEF BeginConnect, SleepBackoff, StartReading, TypeOK, Subscribing
  <2>3. CASE HandleMessagesStep(Loop)
    BY <2>3 DEF HandleMessagesStep, ReadNext, Receive, ReadError, TypeOK, Subscribing
  <2>4. QED
    BY <1>2, <1>3, <2>1, <2>2, <2>3 DEF LoopStep, HandlerStep
<1>4. ASSUME NEW a \in Callers, CallerStep(a) \/ Request(a)
      PROVE  Serving /\ conn' = conn
  <2>1. CASE Request(a)
    BY <2>1 DEF Request, Subscribe, Unsubscribe, BeginUpdate, TypeOK, Subscribing
  <2>2. CASE StoreSymbols(a)
    BY <2>2 DEF StoreSymbols, TypeOK, Subscribing
  <2>3. CASE Reconnect(a)
    BY <2>3 DEF Reconnect, Close
  <2>4. CASE ReturnToCaller(a)
    BY <2>4 DEF ReturnToCaller, TypeOK, Subscribing
  <2>5. QED
    BY <1>2, <1>4, <2>1, <2>2, <2>3, <2>4 DEF CallerStep
<1>5. CASE Shutdown
  BY <1>5 DEF Shutdown
<1>6. CASE Network
  <2>1. CASE \E c \in Conns : PeerDrop(c)
    BY <2>1 DEF PeerDrop, TypeOK
  <2>2. CASE \E c \in Conns : Collect(c)
    BY <2>2 DEF Collect, TypeOK
  <2>3. QED
    BY <1>6, <2>1, <2>2 DEF Network
<1>7. QED
  BY <1>3, <1>4, <1>5, <1>6 DEF Next

(* Every step of the handler and of a pinger preserves PingerInv.            *)
LEMMA PingerStep ==
  ASSUME IInv, PingerInv, [KeepAliveNext]_keepAliveVars
  PROVE  PingerInv'
<1> USE PingerAssumption, HandlerAssumption DEF PingerInv, Goes
<1>1. TypeOK /\ CurrentConnNotClosed
  BY DEF IInv
<1>2. CASE Next /\ Along
  <2>1. CASE \E a \in Actors : WriteOk(a)
    BY <1>2, <2>1 DEF Along, StartPinger
  <2>2. CASE ~ \E a \in Actors : WriteOk(a)
    <3>1. pinger' = pinger
      BY <1>2, <2>2 DEF Along, StartPinger
    <3>2. Serving' => Serving /\ conn' = conn
      BY <1>2, <2>2, ServingBefore
    <3>3. QED
      BY <3>1, <3>2
  <2>3. QED
    BY <2>1, <2>2
<1>3. UNCHANGED vars => (Serving' <=> Serving) /\ conn' = conn /\ net' = net
  BY DEF vars, handlerVars, Serving, Settled
<1>4. ASSUME NEW p \in Pingers, Tick(p)
      PROVE  PingerInv'
  BY <1>1, <1>3, <1>4 DEF Tick, Serving, TypeOK, CurrentConnNotClosed
<1>5. ASSUME NEW p \in Pingers, PingOk(p)
      PROVE  PingerInv'
  BY <1>3, <1>5 DEF PingOk
<1>6. ASSUME NEW p \in Pingers, PingFail(p)
      PROVE  PingerInv'
  BY <1>3, <1>6 DEF PingFail, Serving
<1>7. CASE UNCHANGED keepAliveVars
  BY <1>3, <1>7 DEF keepAliveVars
<1>8. QED
  BY <1>2, <1>4, <1>5, <1>6, <1>7 DEF KeepAliveNext, Ping

(* However many pingers there are and whichever connections they were        *)
(* started for, the connection in use always has one.                        *)
THEOREM ConnectionKeptAlive == KeepAliveSpec => []KeptAlive
<1>1. KeepAliveInit => IInv /\ PingerInv
  BY InitIInv DEF KeepAliveInit, PingerInv, Serving, Init, HandlerInit
<1>2. IInv /\ PingerInv /\ [KeepAliveNext]_keepAliveVars => PingerInv'
  BY PingerStep
<1>3. IInv /\ PingerInv => KeptAlive
  BY PingerAssumption DEF PingerInv, Serving, KeptAlive, IInv, TypeOK
<1>4. QED
  BY <1>1, <1>2, <1>3, PingersDisturbNothing, Invariance, PTL DEF KeepAliveSpec

-----------------------------------------------------------------------------
(* The cache.  Under ConnectionPc every step of Bybit's handler is one of   *)
(* ExchangeLoop or none, and the invariant of the connection carries over.  *)
(* On top of it: whatever an exchange has sent in full on a connection      *)
(* dialed after the last clearing is in the cache in full, or is the        *)
(* message being processed.                                                 *)

Places == LoopSteps \cup CallerSteps \cup {"merge", "clear"}

PcInv == pc \in [Actors -> Places]

\* The connection again, with the theorems about it.
C == INSTANCE ExchangeLoop_proofs WITH pc <- ConnectionPc

(* A move of ExchangeLoop is one of its own under the mapping.               *)
LEMMA Moves ==
  ASSUME PcInv, NEW a \in Actors, NEW step \in LoopSteps \cup CallerSteps, Goto(a, step)
  PROVE  C!Goto(a, step) /\ PcInv'
<1>1. step # "merge" /\ step # "clear"
  BY DEF LoopSteps, CallerSteps
<1>2. pc' = [pc EXCEPT ![a] = step]
  BY DEF Goto
<1>3. PcInv'
  BY <1>2 DEF PcInv, Places
<1>4. ConnectionPc' = [ConnectionPc EXCEPT ![a] = step]
  BY <1>1, <1>2 DEF PcInv, ConnectionPc
<1>5. QED
  BY <1>3, <1>4 DEF C!Goto

(* Every step of Connect is one under the mapping.                           *)
LEMMA ConnectMaps ==
  ASSUME PcInv, NEW a \in Actors, ConnectStep(a)
  PROVE  C!ConnectStep(a) /\ PcInv'
<1> USE Moves DEF LoopSteps, CallerSteps
<1>0. \A step \in LoopSteps \cup CallerSteps : pc[a] = step => ConnectionPc[a] = step
  BY DEF ConnectionPc
<1>1. CASE DialOk(a)
  BY <1>0, <1>1 DEF DialOk, C!DialOk, C!ConnectStep
<1>2. CASE DialFail(a)
  BY <1>0, <1>2 DEF DialFail, C!DialFail, C!ConnectStep
<1>3. CASE Install(a)
  BY <1>0, <1>3 DEF Install, C!Install, C!ConnectStep
<1>4. CASE ReadSymbols(a)
  BY <1>0, <1>4 DEF ReadSymbols, C!ReadSymbols, TornReads, C!TornReads, Cardinality,
     C!Cardinality, C!ConnectStep
<1>5. CASE PickConn(a)
  BY <1>0, <1>5 DEF PickConn, C!PickConn, C!ConnectStep
<1>6. CASE WriteOk(a)
  BY <1>0, <1>6 DEF WriteOk, C!WriteOk, Leave, C!Leave, C!ConnectStep
<1>7. CASE WriteFail(a)
  BY <1>0, <1>7 DEF WriteFail, C!WriteFail, C!ConnectStep
<1>8. CASE Abort(a)
  BY <1>0, <1>8 DEF Abort, C!Abort, Close, C!Close, Leave, C!Leave, C!ConnectStep
<1>9. QED
  BY <1>1, <1>2, <1>3, <1>4, <1>5, <1>6, <1>7, <1>8 DEF ConnectStep

(* So is every step of the run loop that does not end a message.             *)
LEMMA LoopMaps ==
  ASSUME PcInv, LoopStep
  PROVE  C!LoopStep /\ PcInv'
<1> USE LoopAssumption, Moves DEF LoopSteps, CallerSteps, C!LoopStep, C!HandlerStep,
      C!HandleMessagesStep
<1>0. \A step \in LoopSteps \cup CallerSteps : pc[Loop] = step => ConnectionPc[Loop] = step
  BY DEF ConnectionPc
<1>1. CASE StopLoop
  BY <1>0, <1>1 DEF StopLoop, C!StopLoop, Close, C!Close
<1>2. CASE BeginConnect
  BY <1>0, <1>2 DEF BeginConnect, C!BeginConnect
<1>3. CASE SleepBackoff
  BY <1>0, <1>3 DEF SleepBackoff, C!SleepBackoff
<1>4. CASE StartReading
  BY <1>0, <1>4 DEF StartReading, C!StartReading
<1>5. CASE Disconnect
  BY <1>0, <1>5 DEF Disconnect, C!Disconnect, Close, C!Close
<1>6. CASE ConnectStep(Loop) /\ UNCHANGED backoff
  BY <1>6, ConnectMaps
<1>7. CASE ReadNext(Loop) /\ UNCHANGED backoff
  BY <1>0, <1>7 DEF ReadNext, C!ReadNext
<1>8. CASE Receive(Loop) /\ UNCHANGED backoff
  BY <1>0, <1>8 DEF Receive, C!Receive
<1>9. CASE ReadError(Loop) /\ UNCHANGED backoff
  BY <1>0, <1>9 DEF ReadError, C!ReadError
<1>10. QED
  BY <1>1, <1>2, <1>3, <1>4, <1>5, <1>6, <1>7, <1>8, <1>9
  DEF LoopStep, HandlerStep, HandleMessagesStep

(* So are the steps of a request that Bybit shares.                          *)
LEMMA CallerMaps ==
  ASSUME PcInv, NEW a \in Callers,
         \/ (ConnectStep(a) \/ StoreSymbols(a) \/ ReturnToCaller(a)) /\ UNCHANGED backoff
         \/ Request(a)
  PROVE  (C!CallerStep(a) \/ C!Request(a)) /\ PcInv'
<1> USE LoopAssumption, Moves DEF LoopSteps, CallerSteps, C!CallerStep
<1>0. \A step \in LoopSteps \cup CallerSteps : pc[a] = step => ConnectionPc[a] = step
  BY DEF ConnectionPc
<1>1. CASE ConnectStep(a) /\ UNCHANGED backoff
  BY <1>1, ConnectMaps
<1>2. CASE StoreSymbols(a) /\ UNCHANGED backoff
  BY <1>0, <1>2 DEF StoreSymbols, C!StoreSymbols
<1>3. CASE ReturnToCaller(a) /\ UNCHANGED backoff
  BY <1>0, <1>3 DEF ReturnToCaller, C!ReturnToCaller
<1>4. CASE Request(a)
  <2>1. PICK s \in Symbols : Subscribe(a, s) \/ Unsubscribe(a, s)
    BY <1>4 DEF Request
  <2>2. ASSUME NEW list, BeginUpdate(a, list)
        PROVE  C!BeginUpdate(a, list) /\ PcInv'
    BY <1>0, <2>2 DEF BeginUpdate, C!BeginUpdate
  <2>3. (C!Subscribe(a, s) \/ C!Unsubscribe(a, s)) /\ PcInv'
    BY <2>1, <2>2 DEF Subscribe, Unsubscribe, C!Subscribe, C!Unsubscribe
  <2>4. QED
    BY <1>4, <2>3 DEF Request, C!Request
<1>5. QED
  BY <1>1, <1>2, <1>3, <1>4

(* Every step of Bybit's handler is one of ExchangeLoop, or none.            *)
LEMMA StepMaps ==
  ASSUME PcInv, [BybitNext]_bybitVars
  PROVE  [C!Next]_(C!vars) /\ PcInv'
<1> USE LoopAssumption DEF C!vars, C!handlerVars
<1>1. CASE Shared
  <2>1. CASE LoopStep
    BY <2>1, LoopMaps DEF C!Next
  <2>2. CASE \E a \in Callers :
               \/ (ConnectStep(a) \/ StoreSymbols(a) \/ ReturnToCaller(a)) /\ UNCHANGED backoff
               \/ Request(a)
    BY <2>2, CallerMaps DEF C!Next
  <2>3. CASE Shutdown \/ Network
    <3>1. pc' = pc
      BY <2>3 DEF Shutdown, Network, PeerDrop, Collect
    <3>2. ConnectionPc' = ConnectionPc /\ PcInv'
      BY <3>1 DEF ConnectionPc, PcInv
    <3>3. C!Shutdown \/ C!Network
      BY <2>3, <3>2 DEF Shutdown, Network, PeerDrop, Collect, C!Shutdown, C!Network,
         C!PeerDrop, C!Collect
    <3>4. QED
      BY <3>2, <3>3 DEF C!Next
  <2>4. QED
    BY <1>1, <2>1, <2>2, <2>3 DEF Shared
<1>2. CASE ReceiveTicker
  <2>1. pc[Loop] = "recv" /\ pc' = [pc EXCEPT ![Loop] = "merge"]
    BY <1>2 DEF ReceiveTicker, Goto
  <2>2. PcInv' /\ ConnectionPc' = [ConnectionPc EXCEPT ![Loop] = "read"]
    BY <2>1 DEF PcInv, Places, ConnectionPc
  <2>3. ConnectionPc[Loop] = "recv"
    BY <2>1 DEF ConnectionPc
  <2>4. C!Receive(Loop) /\ UNCHANGED backoff
    BY <1>2, <2>2, <2>3 DEF ReceiveTicker, C!Receive, C!Goto
  <2>5. QED
    BY <2>2, <2>4 DEF C!Next, C!LoopStep, C!HandlerStep, C!HandleMessagesStep
<1>3. CASE Merge
  <2>1. pc[Loop] = "merge" /\ pc' = [pc EXCEPT ![Loop] = "read"]
    BY <1>3 DEF Merge, Goto
  <2>2. PcInv' /\ ConnectionPc' = ConnectionPc
    BY <2>1 DEF PcInv, Places, LoopSteps, ConnectionPc
  <2>3. QED
    BY <1>3, <2>2 DEF Merge
<1>4. ASSUME NEW a \in Callers, CloseForReconnect(a)
      PROVE  [C!Next]_(C!vars) /\ PcInv'
  <2>1. pc[a] = "reconnect" /\ pc' = [pc EXCEPT ![a] = "clear"]
    BY <1>4 DEF CloseForReconnect, Goto
  <2>2. PcInv' /\ ConnectionPc' = [ConnectionPc EXCEPT ![a] = "dial"]
    BY <2>1 DEF PcInv, Places, ConnectionPc
  <2>3. ConnectionPc[a] = "reconnect"
    BY <2>1 DEF ConnectionPc
  <2>4. C!Reconnect(a) /\ UNCHANGED backoff
    BY <1>4, <2>2, <2>3 DEF CloseForReconnect, C!Reconnect, C!Goto, Close, C!Close
  <2>5. QED
    BY <2>2, <2>4 DEF C!Next, C!CallerStep
<1>5. ASSUME NEW a \in Callers, ClearCache(a)
      PROVE  [C!Next]_(C!vars) /\ PcInv'
  <2>1. pc[a] = "clear" /\ pc' = [pc EXCEPT ![a] = "dial"]
    BY <1>5 DEF ClearCache, Goto
  <2>2. PcInv' /\ ConnectionPc' = ConnectionPc
    BY <2>1 DEF PcInv, Places, LoopSteps, ConnectionPc
  <2>3. QED
    BY <1>5, <2>2 DEF ClearCache
<1>6. CASE UNCHANGED bybitVars
  BY <1>6 DEF bybitVars, vars, handlerVars, PcInv, ConnectionPc
<1>7. QED
  BY <1>1, <1>2, <1>3, <1>4, <1>5, <1>6 DEF BybitNext

(* Bybit's handler starts where ExchangeLoop does.                           *)
LEMMA InitMaps == BybitInit => C!Init /\ PcInv
<1> SUFFICES ASSUME BybitInit
             PROVE  C!Init /\ PcInv
  OBVIOUS
<1>1. pc = [a \in Actors |-> IF a = Loop THEN "top" ELSE "idle"]
  BY DEF BybitInit, Init, HandlerInit
<1>2. PcInv /\ ConnectionPc = pc
  BY <1>1 DEF PcInv, Places, LoopSteps, CallerSteps, ConnectionPc
<1>3. QED
  BY <1>1, <1>2 DEF BybitInit, Init, HandlerInit, C!Init, C!HandlerInit

-----------------------------------------------------------------------------
(* The instance that carries the theorems is the one of the refinement.      *)
LEMMA SameConnection ==
  /\ Connection!Init <=> C!Init
  /\ Connection!Next <=> C!Next
  /\ Connection!vars = C!vars
<1>1. Connection!Init <=> C!Init
  BY DEF C!Init, Connection!Init, C!HandlerInit, Connection!HandlerInit
<1>2. Connection!Next <=> C!Next
  BY DEF
    C!Next, Connection!Next, C!LoopStep, Connection!LoopStep, C!StopLoop,
    Connection!StopLoop, C!BeginConnect, Connection!BeginConnect, C!SleepBackoff,
    Connection!SleepBackoff, C!StartReading, Connection!StartReading, C!Disconnect,
    Connection!Disconnect, C!HandlerStep, Connection!HandlerStep, C!ConnectStep,
    Connection!ConnectStep, C!HandleMessagesStep, Connection!HandleMessagesStep,
    C!CallerStep, Connection!CallerStep, C!Request, Connection!Request, C!Shutdown,
    Connection!Shutdown, C!Network, Connection!Network, C!Close, Connection!Close,
    C!Goto, Connection!Goto, C!Leave, Connection!Leave, C!TornReads,
    Connection!TornReads, C!Cardinality, Connection!Cardinality, C!DialOk,
    Connection!DialOk, C!DialFail, Connection!DialFail, C!Install, Connection!Install,
    C!ReadSymbols, Connection!ReadSymbols, C!PickConn, Connection!PickConn, C!WriteOk,
    Connection!WriteOk, C!WriteFail, Connection!WriteFail, C!Abort, Connection!Abort,
    C!ReadNext, Connection!ReadNext, C!Receive, Connection!Receive, C!ReadError,
    Connection!ReadError, C!BeginUpdate, Connection!BeginUpdate, C!Subscribe,
    Connection!Subscribe, C!Unsubscribe, Connection!Unsubscribe, C!StoreSymbols,
    Connection!StoreSymbols, C!Reconnect, Connection!Reconnect, C!ReturnToCaller,
    Connection!ReturnToCaller, C!PeerDrop, Connection!PeerDrop, C!Collect,
    Connection!Collect
<1>3. Connection!vars = C!vars
  BY DEF C!vars, Connection!vars, C!handlerVars, Connection!handlerVars
<1>4. QED
  BY <1>1, <1>2, <1>3

(* Bybit's handler is ExchangeLoop as far as the connection goes.            *)
THEOREM LoopImplemented == BybitSpec => ImplementsLoop /\ C!Spec /\ []PcInv
<1>1. BybitInit => C!Init /\ Connection!Init /\ PcInv
  BY InitMaps, SameConnection
<1>2. PcInv /\ [BybitNext]_bybitVars => PcInv'
  BY StepMaps
<1>3. PcInv /\ [BybitNext]_bybitVars => [C!Next]_(C!vars)
  BY StepMaps
<1>4. PcInv /\ [BybitNext]_bybitVars => [Connection!Next]_(Connection!vars)
  BY <1>3, SameConnection DEF C!vars, Connection!vars, C!handlerVars, Connection!handlerVars
<1>5. QED
  BY <1>1, <1>2, <1>3, <1>4, PTL DEF BybitSpec, ImplementsLoop, C!Spec, Connection!Spec

(* What ExchangeLoop assumes of its constants holds of the instance.         *)
LEMMA AssumptionsHold == C!HandlerAssumption /\ C!LoopAssumption
BY HandlerAssumption, LoopAssumption DEF C!HandlerAssumption, C!LoopAssumption

(* The invariant of the connection, at the mapped places.                    *)
THEOREM ConnectionInvariance == BybitSpec => []C!IInv
BY AssumptionsHold, C!Invariance, LoopImplemented, PTL

(* Bybit's current connection is not a closed one, and once settled carries  *)
(* every symbol of the list.                                                 *)
THEOREM ConnectionSafe == BybitSpec => []CurrentConnNotClosed /\ []CurrentConnSubscribed
<1>1. PcInv /\ C!IInv => CurrentConnNotClosed /\ CurrentConnSubscribed
  <2> SUFFICES ASSUME PcInv, C!IInv
               PROVE  CurrentConnNotClosed /\ CurrentConnSubscribed
    OBVIOUS
  <2>1. CurrentConnNotClosed
    BY DEF C!IInv, C!CurrentConnNotClosed, CurrentConnNotClosed
  <2>2. \A a \in Actors :
          /\ pc[a] \notin Subscribing => ConnectionPc[a] \notin C!Subscribing
          /\ pc[a] \notin Updating => ConnectionPc[a] \notin C!Updating
    BY DEF ConnectionPc, Subscribing, C!Subscribing, Updating, C!Updating
  <2>3. (Settled(conn) => C!Settled(conn)) /\ (NoUpdate => C!NoUpdate)
    BY <2>2 DEF Settled, C!Settled, NoUpdate, C!NoUpdate
  <2>4. CurrentConnSubscribed
    BY <2>3 DEF C!IInv, C!CurrentConnSubscribed, CurrentConnSubscribed
  <2>5. QED
    BY <2>1, <2>4
<1>2. QED
  BY <1>1, LoopImplemented, ConnectionInvariance, PTL

(* Bybit's run loop ends when it is told to: merging a ticker is a detour of *)
(* one step, after which the order of ExchangeLoop goes on.                  *)
THEOREM BybitLoopEnds == BybitSpec => C!LoopEnds
BY AssumptionsHold, C!LoopEnding, LoopImplemented, PTL

-----------------------------------------------------------------------------
\* The snapshot of a symbol of connection c is read and not yet merged.
Merging(c, s) ==
  pc[Loop] = "merge" /\ sock[Loop] = c /\ message = [symbol |-> s, fields |-> Fields]

\* Whatever was sent in full on a connection dialed after the clearing is in the
\* cache in full, or is the message being processed.
CacheInv ==
  /\ cache \in [Symbols -> SUBSET Fields]
  /\ snapshotted \in [Conns -> SUBSET Symbols]
  /\ \A c \in Conns : net[c] = "idle" => snapshotted[c] = {}
  /\ stale \subseteq {c \in Conns : net[c] # "idle"}
  /\ pc[Loop] \in {"recv", "merge"} => sock[Loop] \in Conns /\ net[sock[Loop]] # "idle"
  /\ pc[Loop] = "merge" =>
       /\ message \in [symbol : Symbols, fields : SUBSET Fields]
       /\ message.symbol \in snapshotted[sock[Loop]]
  /\ \A c \in Conns \ stale : \A s \in snapshotted[c] : cache[s] = Fields \/ Merging(c, s)
  /\ FreshConnComplete

\* Of the connection's invariant: types, and that h.conn is in use.
Base ==
  /\ PcInv
  /\ conn \in Conns \cup {NoConn}
  /\ net \in [Conns -> SocketStates]
  /\ subs \in [Conns -> SUBSET Symbols]
  /\ sock \in [Actors -> Conns \cup {NoConn}]
  /\ conn # NoConn => net[conn] # "idle"

(* The invariant of the connection has these parts.                          *)
LEMMA BaseHolds == PcInv /\ C!IInv => Base
BY DEF Base, C!IInv, C!TypeOK, C!CurrentConnNotClosed, C!SocketStates, SocketStates

(* A step of the connection that does not end a message: the run loop's copy *)
(* of h.conn is in use, and no connection in use becomes an unused one.      *)
LEMMA SharedKeepsReader ==
  ASSUME Base, Shared,
         pc[Loop] \in {"recv", "merge"} => sock[Loop] \in Conns /\ net[sock[Loop]] # "idle"
  PROVE  /\ pc'[Loop] \in {"recv", "merge"} =>
              sock'[Loop] \in Conns /\ net'[sock'[Loop]] # "idle"
         /\ pc'[Loop] = "merge" <=> pc[Loop] = "merge"
         /\ pc[Loop] = "merge" => sock'[Loop] = sock[Loop]
<1> USE HandlerAssumption, LoopAssumption DEF Base, PcInv, SocketStates, Goto
<1>1. ASSUME NEW a \in Actors, ConnectStep(a)
      PROVE  /\ a # Loop => pc'[Loop] = pc[Loop] /\ sock'[Loop] = sock[Loop]
             /\ a = Loop => pc[Loop] # "merge" /\ pc'[Loop] \notin {"recv", "merge"}
             /\ \A c \in Conns : net[c] # "idle" => net'[c] # "idle"
  BY <1>1 DEF ConnectStep, DialOk, DialFail, Install, ReadSymbols, PickConn, WriteOk,
     WriteFail, Abort, Close, Leave
<1>2. CASE LoopStep
  <2>1. CASE StopLoop \/ Disconnect
    BY <2>1 DEF StopLoop, Disconnect, Close
  <2>2. CASE BeginConnect \/ SleepBackoff \/ StartReading
    BY <2>2 DEF BeginConnect, SleepBackoff, StartReading
  <2>3. CASE ConnectStep(Loop)
    BY <1>1, <2>3
  <2>4. CASE HandleMessagesStep(Loop)
    BY <2>4 DEF HandleMessagesStep, ReadNext, Receive, ReadError
  <2>5. QED
    BY <1>2, <2>1, <2>2, <2>3, <2>4 DEF LoopStep, HandlerStep
<1>3. ASSUME NEW a \in Callers,
             ConnectStep(a) \/ StoreSymbols(a) \/ ReturnToCaller(a) \/ Request(a)
      PROVE  /\ pc'[Loop] = pc[Loop] /\ sock'[Loop] = sock[Loop]
             /\ \A c \in Conns : net[c] # "idle" => net'[c] # "idle"
  BY <1>1, <1>3 DEF StoreSymbols, ReturnToCaller, Request, Subscribe, Unsubscribe, BeginUpdate
<1>4. CASE Shutdown
  BY <1>4 DEF Shutdown
<1>5. CASE Network
  <2>1. CASE \E c \in Conns : PeerDrop(c)
    BY <2>1 DEF PeerDrop
  <2>2. CASE \E c \in Conns : Collect(c)
    BY <2>2 DEF Collect
  <2>3. QED
    BY <1>5, <2>1, <2>2 DEF Network
<1>6. QED
  BY <1>2, <1>3, <1>4, <1>5 DEF Shared

(* Every step keeps CacheInv.                                                *)
LEMMA CacheStep ==
  ASSUME Base, CacheInv, [BybitNext]_bybitVars
  PROVE  CacheInv'
<1> USE LoopAssumption DEF CacheInv, FreshConnComplete
<1>1. CASE Shared
  <2>1. /\ UNCHANGED <<cache, message>>
        /\ snapshotted' = [c \in Conns |-> IF net'[c] = "idle" THEN {} ELSE snapshotted[c]]
        /\ partial' = {c \in partial : net'[c] # "idle"}
        /\ stale' = {c \in stale : net'[c] # "idle"}
    BY <1>1 DEF Shared
  <2>2. /\ pc'[Loop] \in {"recv", "merge"} =>
             sock'[Loop] \in Conns /\ net'[sock'[Loop]] # "idle"
        /\ pc'[Loop] = "merge" <=> pc[Loop] = "merge"
        /\ pc[Loop] = "merge" => sock'[Loop] = sock[Loop]
    BY <1>1, SharedKeepsReader
  <2>3. \A c \in Conns, s \in Symbols : Merging(c, s) => Merging(c, s)'
    BY <2>1, <2>2 DEF Merging
  <2>4. \A c \in Conns \ stale' : \A s \in snapshotted'[c] :
          cache'[s] = Fields \/ Merging(c, s)'
    BY <2>1, <2>3
  <2>5. QED
    BY <2>1, <2>2, <2>4
<1>2. CASE ReceiveTicker
  <2> DEFINE c == sock[Loop]
  <2>1. /\ c \in Conns /\ net[c] = "open" /\ pc[Loop] = "recv"
        /\ UNCHANGED <<cache, partial, stale, net, sock>>
        /\ pc' = [pc EXCEPT ![Loop] = "merge"]
    BY <1>2 DEF ReceiveTicker, Goto
  <2>2. PICK s \in subs[c], fields \in SUBSET Fields \ {{}} :
          /\ s \notin snapshotted[c] => fields = Fields
          /\ message' = [symbol |-> s, fields |-> fields]
          /\ snapshotted' = [snapshotted EXCEPT ![c] = @ \cup {s}]
    BY <1>2 DEF ReceiveTicker
  <2>3. s \in Symbols /\ pc'[Loop] = "merge"
    BY <2>1, <2>2 DEF Base, PcInv
  <2>4. \A q \in Conns \ stale : \A t \in snapshotted'[q] :
          cache[t] = Fields \/ Merging(q, t)'
    BY <2>1, <2>2, <2>3 DEF Merging
  <2>5. QED
    BY <2>1, <2>2, <2>3, <2>4
<1>3. CASE Merge
  <2> DEFINE c == sock[Loop]
             s == message.symbol
  <2>1. /\ c \in Conns /\ s \in Symbols
        /\ s \in snapshotted[c] /\ message.fields \subseteq Fields
        /\ pc' = [pc EXCEPT ![Loop] = "read"]
        /\ UNCHANGED <<net, sock, snapshotted, stale>>
        /\ cache' = [cache EXCEPT ![s] = @ \cup message.fields]
        /\ partial' = IF cache'[s] = Fields THEN partial ELSE partial \cup {c}
    BY <1>3 DEF Merge, Goto
  <2>2. pc'[Loop] = "read"
    BY <2>1 DEF Base, PcInv
  <2>3. \A t \in Symbols : cache[t] \subseteq cache'[t] /\ cache'[t] \subseteq Fields
    BY <2>1
  <2>4. \A q \in Conns \ stale : \A t \in snapshotted[q] : cache'[t] = Fields
    BY <2>1, <2>3 DEF Merging
  <2>5. FreshConnComplete'
    BY <2>1, <2>4
  <2>6. cache' \in [Symbols -> SUBSET Fields]
    BY <2>1
  <2>7. QED
    BY <2>1, <2>2, <2>4, <2>5, <2>6
<1>4. ASSUME NEW a \in Callers, CloseForReconnect(a)
      PROVE  CacheInv'
  <2>1. /\ UNCHANGED <<cache, snapshotted, message, partial, stale, sock>>
        /\ pc'[Loop] = pc[Loop]
        /\ \A c \in Conns : net'[c] = "idle" <=> net[c] = "idle"
    BY <1>4, HandlerAssumption DEF CloseForReconnect, Close, Goto, Base, PcInv
  <2>2. QED
    BY <2>1 DEF Merging
<1>5. ASSUME NEW a \in Callers, ClearCache(a)
      PROVE  CacheInv'
  <2>1. /\ UNCHANGED <<snapshotted, message, partial, sock, net>>
        /\ cache' = [s \in Symbols |-> {}]
        /\ stale' = {c \in Conns : net[c] # "idle"}
        /\ pc'[Loop] = pc[Loop]
    BY <1>5 DEF ClearCache, Goto, Base, PcInv
  <2>2. QED
    BY <2>1
<1>6. CASE UNCHANGED bybitVars
  BY <1>6 DEF bybitVars, vars, handlerVars, Merging
<1>7. QED
  BY <1>1, <1>2, <1>3, <1>4, <1>5, <1>6 DEF BybitNext

(* The cache holds nothing at first, and nothing was sent.                   *)
LEMMA CacheInit == BybitInit => CacheInv
<1> SUFFICES ASSUME BybitInit
             PROVE  CacheInv
  OBVIOUS
<1>1. /\ pc[Loop] = "top"
      /\ cache = [s \in Symbols |-> {}] /\ snapshotted = [c \in Conns |-> {}]
      /\ partial = {} /\ stale = {}
  BY LoopAssumption DEF BybitInit, Init, HandlerInit
<1>2. QED
  BY <1>1 DEF CacheInv, FreshConnComplete

(* The invariant of the cache.                                               *)
THEOREM CacheInvariance == BybitSpec => []CacheInv
<1>1. [](PcInv /\ C!IInv => Base)
  BY BaseHolds, PTL
<1>2. Base /\ CacheInv /\ [BybitNext]_bybitVars => CacheInv'
  BY CacheStep
<1>3. QED
  BY <1>1, <1>2, CacheInit, LoopImplemented, ConnectionInvariance, PTL DEF BybitSpec

(* However reads, merges and requests interleave: a ticker is published      *)
(* incomplete only from a connection that was there before the cache was     *)
(* last cleared.                                                             *)
THEOREM Fresh == BybitSpec => []FreshConnComplete
BY CacheInvariance, PTL DEF CacheInv

(* Without requests nothing clears the cache, and every published ticker is  *)
(* complete: run bybit_partial needs a request.                              *)
THEOREM SoloComplete == ASSUME Callers = {} PROVE BybitSpec => []CompleteTickers
<1> DEFINE NeverCleared == stale = {}
<1>1. BybitInit => NeverCleared
  BY DEF BybitInit
<1>2. NeverCleared /\ [BybitNext]_bybitVars => NeverCleared'
  BY DEF BybitNext, bybitVars, Shared, ReceiveTicker, Merge
<1>3. FreshConnComplete /\ NeverCleared => CompleteTickers
  BY DEF FreshConnComplete, CompleteTickers
<1> HIDE DEF NeverCleared
<1>4. QED
  BY <1>1, <1>2, <1>3, Fresh, PTL DEF BybitSpec

(* Without requests Bybit's handler, too, has at most one connection that it *)
(* has not closed, none it has replaced and left open, and none once its run *)
(* loop has stopped.                                                         *)
THEOREM SoloConnection ==
  ASSUME Callers = {}
  PROVE  BybitSpec => []SingleConnection /\ []ReplacedIsClosed /\ []StoppedIsClosed
<1>1. C!SingleConnection => SingleConnection
  BY DEF C!SingleConnection, SingleConnection, C!Unclosed, Unclosed, C!Cardinality, Cardinality
<1>2. C!StoppedIsClosed => StoppedIsClosed
  BY LoopAssumption DEF C!StoppedIsClosed, StoppedIsClosed, C!Unclosed, Unclosed, ConnectionPc
<1>3. C!ReplacedIsClosed => ReplacedIsClosed
  BY DEF C!ReplacedIsClosed, ReplacedIsClosed, C!Unclosed, Unclosed, ConnectionPc
<1>4. QED
  BY <1>1, <1>2, <1>3, AssumptionsHold, C!SoloSingle, C!SoloStopped, LoopImplemented, PTL
=============================================================================
