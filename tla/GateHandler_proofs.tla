------------------------ MODULE GateHandler_proofs --------------------------
(***************************************************************************)
(* The safety of GateHandler for every set of callers, connections and      *)
(* symbols.  The argument is that of ExchangeLoop_proofs, but subscribe is  *)
(* now in the middle of its list most of the time: what is preserved is     *)
(* that the written part and the part still to be written cover the list.   *)
(***************************************************************************)
EXTENDS GateHandler, ExchangeLoop_proofs

\* A Connect whose connection is still the current one writes to it, and,
\* unless an update is on its way to close it, has the rest of the present
\* list still to write.
GateWriterInv ==
  /\ \A a \in Actors : pc[a] = "write" => sock[a] \in Conns
  /\ \A a \in Actors :
       pc[a] = "write" /\ dialed[a] = conn => sock[a] = conn
  /\ \A a \in Actors :
       pc[a] \in {"pick", "write"} /\ dialed[a] = conn /\ NoUpdate
         => symbols \subseteq args[a] \cup subs[conn]

GInv ==
  /\ TypeOK
  /\ LockInv
  /\ CurrentConnNotClosed
  /\ DialedInv
  /\ GateWriterInv
  /\ CurrentConnSubscribed

-----------------------------------------------------------------------------
(* Every step of Connect, by the run loop or by a request, preserves GInv.   *)
LEMMA GateConnectStepInv ==
  ASSUME NEW a \in Actors, GInv, GateConnectStep(a), UNCHANGED backoff
  PROVE  GInv'
<1> USE HandlerAssumption, LoopAssumption DEF GInv, Goto, SocketStates,
      Subscribing, Updating
<1>1. CASE DialOk(a)
  <2>1. (TypeOK /\ LockInv)'
    BY <1>1 DEF DialOk, LoopSteps, CallerSteps, TypeOK, LockInv
  <2>2. (CurrentConnNotClosed /\ DialedInv)'
    BY <1>1 DEF DialOk, TypeOK, CurrentConnNotClosed, DialedInv
  <2>3. (GateWriterInv /\ CurrentConnSubscribed)'
    BY <1>1 DEF DialOk, TypeOK, LockInv, CurrentConnNotClosed, DialedInv,
         GateWriterInv, CurrentConnSubscribed, Settled, NoUpdate
  <2>4. QED
    BY <2>1, <2>2, <2>3
<1>2. CASE DialFail(a)
  <2>1. (TypeOK /\ LockInv)'
    BY <1>2 DEF DialFail, LoopSteps, CallerSteps, TypeOK, LockInv
  <2>2. (CurrentConnNotClosed /\ DialedInv)'
    BY <1>2 DEF DialFail, TypeOK, CurrentConnNotClosed, DialedInv
  <2>3. (GateWriterInv /\ CurrentConnSubscribed)'
    BY <1>2 DEF DialFail, TypeOK, LockInv, CurrentConnNotClosed, DialedInv,
         GateWriterInv, CurrentConnSubscribed, Settled, NoUpdate
  <2>4. QED
    BY <2>1, <2>2, <2>3
<1>3. CASE Install(a)
  <2>1. (TypeOK /\ LockInv)'
    BY <1>3 DEF Install, LoopSteps, CallerSteps, TypeOK, LockInv
  <2>2. (CurrentConnNotClosed /\ DialedInv)'
    BY <1>3 DEF Install, TypeOK, CurrentConnNotClosed, DialedInv
  <2>3. (GateWriterInv /\ CurrentConnSubscribed)'
    BY <1>3 DEF Install, TypeOK, LockInv, CurrentConnNotClosed, DialedInv,
         GateWriterInv, CurrentConnSubscribed, Settled, NoUpdate
  <2>4. QED
    BY <2>1, <2>2, <2>3
<1>4. CASE ReadSymbols(a)
  <2>1. (TypeOK /\ LockInv)'
    BY <1>4 DEF ReadSymbols, TornReads, LoopSteps, CallerSteps, TypeOK,
         LockInv
  <2>2. (CurrentConnNotClosed /\ DialedInv)'
    BY <1>4 DEF ReadSymbols, TornReads, TypeOK, CurrentConnNotClosed,
         DialedInv
  <2>3. (GateWriterInv /\ CurrentConnSubscribed)'
    BY <1>4 DEF ReadSymbols, TornReads, TypeOK, LockInv,
         CurrentConnNotClosed, DialedInv, GateWriterInv, CurrentConnSubscribed,
         Settled, NoUpdate
  <2>4. QED
    BY <2>1, <2>2, <2>3
<1>5. CASE PickForSymbol(a)
  <2>1. (TypeOK /\ LockInv)'
    BY <1>5 DEF PickForSymbol, Leave, LoopSteps, CallerSteps, TypeOK, LockInv
  <2>2. (CurrentConnNotClosed /\ DialedInv)'
    BY <1>5 DEF PickForSymbol, Leave, TypeOK, CurrentConnNotClosed, DialedInv
  <2>3. (GateWriterInv /\ CurrentConnSubscribed)'
    BY <1>5 DEF PickForSymbol, Leave, TypeOK, LockInv, CurrentConnNotClosed, DialedInv,
         GateWriterInv, CurrentConnSubscribed, Settled, NoUpdate
  <2>4. QED
    BY <2>1, <2>2, <2>3
<1>6. CASE WriteSymbol(a)
  <2> PICK s \in args[a] :
        /\ subs' = [subs EXCEPT ![sock[a]] = @ \cup {s}]
        /\ args' = [args EXCEPT ![a] = @ \ {s}]
    BY <1>6 DEF WriteSymbol
  <2>a. s \in Symbols /\ sock[a] \in Conns
    BY <1>6 DEF WriteSymbol, TypeOK, GateWriterInv
  <2>b. subs' \in [Conns -> SUBSET Symbols] /\ args' \in [Actors -> SUBSET Symbols]
    BY <2>a DEF TypeOK
  <2>1. (TypeOK /\ LockInv)'
    BY <1>6, <2>b DEF WriteSymbol, LoopSteps, CallerSteps, TypeOK, LockInv
  <2>2. (CurrentConnNotClosed /\ DialedInv)'
    BY <1>6 DEF WriteSymbol, TypeOK, CurrentConnNotClosed, DialedInv
  <2>3. (GateWriterInv /\ CurrentConnSubscribed)'
    BY <1>6, <2>a DEF WriteSymbol, TypeOK, LockInv, CurrentConnNotClosed,
         DialedInv, GateWriterInv, CurrentConnSubscribed, Settled, NoUpdate
  <2>4. QED
    BY <2>1, <2>2, <2>3
<1>7. CASE SymbolFail(a)
  <2>1. (TypeOK /\ LockInv)'
    BY <1>7 DEF SymbolFail, WriteFail, LoopSteps, CallerSteps, TypeOK, LockInv
  <2>2. (CurrentConnNotClosed /\ DialedInv)'
    BY <1>7 DEF SymbolFail, WriteFail, TypeOK, CurrentConnNotClosed, DialedInv
  <2>3. (GateWriterInv /\ CurrentConnSubscribed)'
    BY <1>7 DEF SymbolFail, WriteFail, TypeOK, LockInv, CurrentConnNotClosed, DialedInv,
         GateWriterInv, CurrentConnSubscribed, Settled, NoUpdate
  <2>4. QED
    BY <2>1, <2>2, <2>3
<1>8. CASE Abort(a)
  <2>1. (TypeOK /\ LockInv)'
    BY <1>8 DEF Abort, Close, Leave, LoopSteps, CallerSteps, TypeOK, LockInv
  <2>2. (CurrentConnNotClosed /\ DialedInv)'
    BY <1>8 DEF Abort, Close, Leave, TypeOK, CurrentConnNotClosed, DialedInv
  <2>3. (GateWriterInv /\ CurrentConnSubscribed)'
    BY <1>8 DEF Abort, Close, Leave, TypeOK, LockInv, CurrentConnNotClosed,
         DialedInv, GateWriterInv, CurrentConnSubscribed, Settled, NoUpdate
  <2>4. QED
    BY <2>1, <2>2, <2>3
<1>9. QED
  BY <1>1, <1>2, <1>3, <1>4, <1>5, <1>6, <1>7, <1>8 DEF GateConnectStep

(* So does every other step of the run loop, reading messages included.     *)
LEMMA GateLoopStepInv ==
  ASSUME GInv, GateLoopStep
  PROVE  GInv'
<1> USE HandlerAssumption, LoopAssumption DEF GInv, Goto, SocketStates,
      Subscribing, Updating
<1>1. CASE StopLoop
  <2>1. (TypeOK /\ LockInv)'
    BY <1>1 DEF StopLoop, Close, LoopSteps, CallerSteps, TypeOK, LockInv
  <2>2. (CurrentConnNotClosed /\ DialedInv)'
    BY <1>1 DEF StopLoop, Close, TypeOK, CurrentConnNotClosed, DialedInv
  <2>3. (GateWriterInv /\ CurrentConnSubscribed)'
    BY <1>1 DEF StopLoop, Close, TypeOK, LockInv, CurrentConnNotClosed,
         DialedInv, GateWriterInv, CurrentConnSubscribed, Settled, NoUpdate
  <2>4. QED
    BY <2>1, <2>2, <2>3
<1>2. CASE BeginConnect
  <2>1. (TypeOK /\ LockInv)'
    BY <1>2 DEF BeginConnect, LoopSteps, CallerSteps, TypeOK, LockInv
  <2>2. (CurrentConnNotClosed /\ DialedInv)'
    BY <1>2 DEF BeginConnect, TypeOK, CurrentConnNotClosed, DialedInv
  <2>3. (GateWriterInv /\ CurrentConnSubscribed)'
    BY <1>2 DEF BeginConnect, TypeOK, LockInv, CurrentConnNotClosed,
         DialedInv, GateWriterInv, CurrentConnSubscribed, Settled, NoUpdate
  <2>4. QED
    BY <2>1, <2>2, <2>3
<1>3. CASE SleepBackoff
  <2>1. (TypeOK /\ LockInv)'
    BY <1>3 DEF SleepBackoff, LoopSteps, CallerSteps, TypeOK, LockInv
  <2>2. (CurrentConnNotClosed /\ DialedInv)'
    BY <1>3 DEF SleepBackoff, TypeOK, CurrentConnNotClosed, DialedInv
  <2>3. (GateWriterInv /\ CurrentConnSubscribed)'
    BY <1>3 DEF SleepBackoff, TypeOK, LockInv, CurrentConnNotClosed,
         DialedInv, GateWriterInv, CurrentConnSubscribed, Settled, NoUpdate
  <2>4. QED
    BY <2>1, <2>2, <2>3
<1>4. CASE StartReading
  <2>1. (TypeOK /\ LockInv)'
    BY <1>4 DEF StartReading, LoopSteps, CallerSteps, TypeOK, LockInv
  <2>2. (CurrentConnNotClosed /\ DialedInv)'
    BY <1>4 DEF StartReading, TypeOK, CurrentConnNotClosed, DialedInv
  <2>3. (GateWriterInv /\ CurrentConnSubscribed)'
    BY <1>4 DEF StartReading, TypeOK, LockInv, CurrentConnNotClosed,
         DialedInv, GateWriterInv, CurrentConnSubscribed, Settled, NoUpdate
  <2>4. QED
    BY <2>1, <2>2, <2>3
<1>5. CASE Disconnect
  <2>1. (TypeOK /\ LockInv)'
    BY <1>5 DEF Disconnect, Close, LoopSteps, CallerSteps, TypeOK, LockInv
  <2>2. (CurrentConnNotClosed /\ DialedInv)'
    BY <1>5 DEF Disconnect, Close, TypeOK, CurrentConnNotClosed, DialedInv
  <2>3. (GateWriterInv /\ CurrentConnSubscribed)'
    BY <1>5 DEF Disconnect, Close, TypeOK, LockInv, CurrentConnNotClosed,
         DialedInv, GateWriterInv, CurrentConnSubscribed, Settled, NoUpdate
  <2>4. QED
    BY <2>1, <2>2, <2>3
<1>6. CASE ReadNext(Loop) /\ UNCHANGED backoff
  <2>1. (TypeOK /\ LockInv)'
    BY <1>6 DEF ReadNext, LoopSteps, CallerSteps, TypeOK, LockInv
  <2>2. (CurrentConnNotClosed /\ DialedInv)'
    BY <1>6 DEF ReadNext, TypeOK, CurrentConnNotClosed, DialedInv
  <2>3. (GateWriterInv /\ CurrentConnSubscribed)'
    BY <1>6 DEF ReadNext, TypeOK, LockInv, CurrentConnNotClosed, DialedInv,
         GateWriterInv, CurrentConnSubscribed, Settled, NoUpdate
  <2>4. QED
    BY <2>1, <2>2, <2>3
<1>7. CASE Receive(Loop) /\ UNCHANGED backoff
  <2>1. (TypeOK /\ LockInv)'
    BY <1>7 DEF Receive, LoopSteps, CallerSteps, TypeOK, LockInv
  <2>2. (CurrentConnNotClosed /\ DialedInv)'
    BY <1>7 DEF Receive, TypeOK, CurrentConnNotClosed, DialedInv
  <2>3. (GateWriterInv /\ CurrentConnSubscribed)'
    BY <1>7 DEF Receive, TypeOK, LockInv, CurrentConnNotClosed, DialedInv,
         GateWriterInv, CurrentConnSubscribed, Settled, NoUpdate
  <2>4. QED
    BY <2>1, <2>2, <2>3
<1>8. CASE ReadError(Loop) /\ UNCHANGED backoff
  <2>1. (TypeOK /\ LockInv)'
    BY <1>8 DEF ReadError, LoopSteps, CallerSteps, TypeOK, LockInv
  <2>2. (CurrentConnNotClosed /\ DialedInv)'
    BY <1>8 DEF ReadError, TypeOK, CurrentConnNotClosed, DialedInv
  <2>3. (GateWriterInv /\ CurrentConnSubscribed)'
    BY <1>8 DEF ReadError, TypeOK, LockInv, CurrentConnNotClosed, DialedInv,
         GateWriterInv, CurrentConnSubscribed, Settled, NoUpdate
  <2>4. QED
    BY <2>1, <2>2, <2>3
<1>9. QED
  BY GateConnectStepInv, <1>1, <1>2, <1>3, <1>4, <1>5, <1>6, <1>7, <1>8 DEF
       GateLoopStep, HandleMessagesStep

(* So does every step of a request.                                          *)
LEMMA GateCallerInv ==
  ASSUME NEW a \in Callers, GInv, GateCallerStep(a) \/ Request(a)
  PROVE  GInv'
<1> USE HandlerAssumption, LoopAssumption DEF GInv, Goto, SocketStates,
      Subscribing, Updating
<1>1. CASE \E s \in Symbols : Subscribe(a, s) /\ UNCHANGED backoff
  <2>1. (TypeOK /\ LockInv)'
    BY <1>1 DEF Subscribe, BeginUpdate, LoopSteps, CallerSteps, TypeOK,
         LockInv
  <2>2. (CurrentConnNotClosed /\ DialedInv)'
    BY <1>1 DEF Subscribe, BeginUpdate, TypeOK, CurrentConnNotClosed,
         DialedInv
  <2>3. (GateWriterInv /\ CurrentConnSubscribed)'
    BY <1>1 DEF Subscribe, BeginUpdate, TypeOK, LockInv,
         CurrentConnNotClosed, DialedInv, GateWriterInv, CurrentConnSubscribed,
         Settled, NoUpdate
  <2>4. QED
    BY <2>1, <2>2, <2>3
<1>2. CASE \E s \in Symbols : Unsubscribe(a, s) /\ UNCHANGED backoff
  <2>1. (TypeOK /\ LockInv)'
    BY <1>2 DEF Unsubscribe, BeginUpdate, LoopSteps, CallerSteps, TypeOK,
         LockInv
  <2>2. (CurrentConnNotClosed /\ DialedInv)'
    BY <1>2 DEF Unsubscribe, BeginUpdate, TypeOK, CurrentConnNotClosed,
         DialedInv
  <2>3. (GateWriterInv /\ CurrentConnSubscribed)'
    BY <1>2 DEF Unsubscribe, BeginUpdate, TypeOK, LockInv,
         CurrentConnNotClosed, DialedInv, GateWriterInv, CurrentConnSubscribed,
         Settled, NoUpdate
  <2>4. QED
    BY <2>1, <2>2, <2>3
<1>3. CASE StoreSymbols(a) /\ UNCHANGED backoff
  <2>1. (TypeOK /\ LockInv)'
    BY <1>3 DEF StoreSymbols, LoopSteps, CallerSteps, TypeOK, LockInv
  <2>2. (CurrentConnNotClosed /\ DialedInv)'
    BY <1>3 DEF StoreSymbols, TypeOK, CurrentConnNotClosed, DialedInv
  <2>3. (GateWriterInv /\ CurrentConnSubscribed)'
    BY <1>3 DEF StoreSymbols, TypeOK, LockInv, CurrentConnNotClosed,
         DialedInv, GateWriterInv, CurrentConnSubscribed, Settled, NoUpdate
  <2>4. QED
    BY <2>1, <2>2, <2>3
<1>4. CASE Reconnect(a) /\ UNCHANGED backoff
  <2>1. (TypeOK /\ LockInv)'
    BY <1>4 DEF Reconnect, Close, LoopSteps, CallerSteps, TypeOK, LockInv
  <2>2. (CurrentConnNotClosed /\ DialedInv)'
    BY <1>4 DEF Reconnect, Close, TypeOK, CurrentConnNotClosed, DialedInv
  <2>3. (GateWriterInv /\ CurrentConnSubscribed)'
    BY <1>4 DEF Reconnect, Close, TypeOK, LockInv, CurrentConnNotClosed,
         DialedInv, GateWriterInv, CurrentConnSubscribed, Settled, NoUpdate
  <2>4. QED
    BY <2>1, <2>2, <2>3
<1>5. CASE ReturnToCaller(a) /\ UNCHANGED backoff
  <2>1. (TypeOK /\ LockInv)'
    BY <1>5 DEF ReturnToCaller, LoopSteps, CallerSteps, TypeOK, LockInv
  <2>2. (CurrentConnNotClosed /\ DialedInv)'
    BY <1>5 DEF ReturnToCaller, TypeOK, CurrentConnNotClosed, DialedInv
  <2>3. (GateWriterInv /\ CurrentConnSubscribed)'
    BY <1>5 DEF ReturnToCaller, TypeOK, LockInv, CurrentConnNotClosed,
         DialedInv, GateWriterInv, CurrentConnSubscribed, Settled, NoUpdate
  <2>4. QED
    BY <2>1, <2>2, <2>3
<1>6. QED
  BY GateConnectStepInv, <1>1, <1>2, <1>3, <1>4, <1>5 DEF GateCallerStep, Request

(* So do the steps of main and of the network, and stuttering.               *)
LEMMA GateEnvironmentInv ==
  ASSUME GInv, Shutdown \/ Network \/ UNCHANGED vars
  PROVE  GInv'
<1> USE HandlerAssumption, LoopAssumption DEF GInv, Goto, SocketStates,
      Subscribing, Updating
<1>1. CASE Shutdown
  <2>1. (TypeOK /\ LockInv)'
    BY <1>1 DEF Shutdown, LoopSteps, CallerSteps, TypeOK, LockInv
  <2>2. (CurrentConnNotClosed /\ DialedInv)'
    BY <1>1 DEF Shutdown, TypeOK, CurrentConnNotClosed, DialedInv
  <2>3. (GateWriterInv /\ CurrentConnSubscribed)'
    BY <1>1 DEF Shutdown, TypeOK, LockInv, CurrentConnNotClosed, DialedInv,
         GateWriterInv, CurrentConnSubscribed, Settled, NoUpdate
  <2>4. QED
    BY <2>1, <2>2, <2>3
<1>2. CASE \E c \in Conns : PeerDrop(c) /\ UNCHANGED backoff
  <2>1. (TypeOK /\ LockInv)'
    BY <1>2 DEF PeerDrop, LoopSteps, CallerSteps, TypeOK, LockInv
  <2>2. (CurrentConnNotClosed /\ DialedInv)'
    BY <1>2 DEF PeerDrop, TypeOK, CurrentConnNotClosed, DialedInv
  <2>3. (GateWriterInv /\ CurrentConnSubscribed)'
    BY <1>2 DEF PeerDrop, TypeOK, LockInv, CurrentConnNotClosed, DialedInv,
         GateWriterInv, CurrentConnSubscribed, Settled, NoUpdate
  <2>4. QED
    BY <2>1, <2>2, <2>3
<1>3. CASE \E c \in Conns : Collect(c) /\ UNCHANGED backoff
  <2>1. (TypeOK /\ LockInv)'
    BY <1>3 DEF Collect, LoopSteps, CallerSteps, TypeOK, LockInv
  <2>2. (CurrentConnNotClosed /\ DialedInv)'
    BY <1>3 DEF Collect, TypeOK, CurrentConnNotClosed, DialedInv
  <2>3. (GateWriterInv /\ CurrentConnSubscribed)'
    BY <1>3 DEF Collect, TypeOK, LockInv, CurrentConnNotClosed, DialedInv,
         GateWriterInv, CurrentConnSubscribed, Settled, NoUpdate
  <2>4. QED
    BY <2>1, <2>2, <2>3
<1>4. CASE UNCHANGED vars
  <2>1. (TypeOK /\ LockInv)'
    BY <1>4 DEF vars, handlerVars, LoopSteps, CallerSteps, TypeOK, LockInv
  <2>2. (CurrentConnNotClosed /\ DialedInv)'
    BY <1>4 DEF vars, handlerVars, TypeOK, CurrentConnNotClosed, DialedInv
  <2>3. (GateWriterInv /\ CurrentConnSubscribed)'
    BY <1>4 DEF vars, handlerVars, TypeOK, LockInv, CurrentConnNotClosed,
         DialedInv, GateWriterInv, CurrentConnSubscribed, Settled, NoUpdate
  <2>4. QED
    BY <2>1, <2>2, <2>3
<1>5. QED
  BY <1>1, <1>2, <1>3, <1>4 DEF Network

(* The initial states are those of ExchangeLoop, where nobody writes yet.    *)
LEMMA GateInitInv == Init => GInv
<1> SUFFICES ASSUME Init
             PROVE  GInv
  OBVIOUS
<1>1. \A a \in Actors : pc[a] \in {"top", "idle"}
  BY DEF Init, HandlerInit
<1>2. GateWriterInv
  BY <1>1 DEF GateWriterInv
<1>3. QED
  BY <1>2, InitIInv DEF GInv, IInv

(* GInv is an invariant, for every set of callers, connections and symbols.  *)
THEOREM GateInvariance == GateSpec => []GInv
<1>1. Init => GInv
  BY GateInitInv
<1>2. GInv /\ [GateNext]_vars => GInv'
  BY GateLoopStepInv, GateCallerInv, GateEnvironmentInv DEF GateNext
<1>3. QED
  BY <1>1, <1>2, PTL DEF GateSpec

(* Symbol by symbol, and on connections that are replaced meanwhile: when     *)
(* the Connect of the current connection is past subscribe and no update is  *)
(* pending, no symbol of the list is missing on it.                          *)
THEOREM GateSubscribed == GateSpec => []CurrentConnSubscribed
BY GateInvariance, PTL DEF GInv

(* The handler never holds a connection it closed.                           *)
THEOREM GateNotClosed == GateSpec => []CurrentConnNotClosed
BY GateInvariance, PTL DEF GInv

-----------------------------------------------------------------------------
(* The run loop alone, subscribing symbol by symbol, preserves SoloInv.      *)
LEMMA GateSoloStep ==
  ASSUME Callers = {}, GInv, SoloInv, [GateNext]_vars
  PROVE  SoloInv'
<1> USE HandlerAssumption, LoopAssumption DEF SoloInv, Unclosed, Goto
<1>1. /\ Actors = {Loop}
      /\ TypeOK /\ CurrentConnNotClosed
  BY DEF GInv
<1>2. CASE GateLoopStep
  <2>1. CASE StopLoop \/ Disconnect
    BY <1>1, <2>1 DEF StopLoop, Disconnect, Close, TypeOK
  <2>2. CASE BeginConnect \/ SleepBackoff \/ StartReading
    BY <1>1, <2>2 DEF BeginConnect, SleepBackoff, StartReading, TypeOK
  <2>3. CASE DialOk(Loop)
    BY <1>1, <2>3 DEF DialOk, TypeOK, SocketStates
  <2>4. CASE DialFail(Loop) \/ ReadSymbols(Loop)
    BY <1>1, <2>4 DEF DialFail, ReadSymbols, TypeOK
  <2>5. CASE PickForSymbol(Loop)
    BY <1>1, <2>5 DEF PickForSymbol, Leave, TypeOK
  <2>6. CASE Install(Loop)
    BY <1>1, <2>6 DEF Install, TypeOK
  <2>7. CASE WriteSymbol(Loop) \/ SymbolFail(Loop)
    BY <1>1, <2>7 DEF WriteSymbol, SymbolFail, WriteFail, TypeOK
  <2>8. CASE Abort(Loop)
    BY <1>1, <2>8 DEF Abort, Close, Leave, TypeOK
  <2>9. CASE HandleMessagesStep(Loop)
    BY <1>1, <2>9 DEF HandleMessagesStep, ReadNext, Receive, ReadError, TypeOK
  <2>10. QED
    BY <1>2, <2>1, <2>2, <2>3, <2>4, <2>5, <2>6, <2>7, <2>8, <2>9
    DEF GateLoopStep, GateConnectStep
<1>3. CASE Shutdown
  BY <1>1, <1>3 DEF Shutdown
<1>4. CASE Network
  <2>1. CASE \E c \in Conns : PeerDrop(c)
    BY <1>1, <2>1 DEF PeerDrop, TypeOK
  <2>2. CASE \E c \in Conns : Collect(c)
    BY <1>1, <2>2 DEF Collect, TypeOK
  <2>3. QED
    BY <1>4, <2>1, <2>2 DEF Network
<1>5. CASE UNCHANGED vars
  BY <1>5 DEF vars, handlerVars
<1>6. QED
  BY <1>2, <1>3, <1>4, <1>5 DEF GateNext

(* Without requests Gate's handler, whose subscribe may give up in the       *)
(* middle of the list, has at most one connection that it has not closed,    *)
(* none it has replaced and left open, and none once its run loop has        *)
(* stopped.                                                                  *)
THEOREM GateSolo ==
  ASSUME Callers = {}
  PROVE  GateSpec => []SingleConnection /\ []ReplacedIsClosed /\ []StoppedIsClosed
<1>1. Init => SoloInv
  BY DEF Init, HandlerInit, SoloInv, Unclosed
<1>2. GInv /\ SoloInv /\ [GateNext]_vars => SoloInv'
  BY GateSoloStep
<1>3. QED
  BY <1>1, <1>2, GateInvariance, SoloConclusions, PTL DEF GateSpec
=============================================================================
