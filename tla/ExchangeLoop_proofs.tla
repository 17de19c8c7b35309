------------------------ MODULE ExchangeLoop_proofs -------------------------
(***************************************************************************)
(* The safety of ExchangeLoop for every set of callers, connections and     *)
(* symbols: TypeOK, CurrentConnNotClosed and CurrentConnSubscribed.  None   *)
(* of the last two is inductive: IInv adds who holds the lock, that a       *)
(* connection has one dialer, and what a Connect that is still subscribing  *)
(* on the current connection has read so far.                               *)
(***************************************************************************)
EXTENDS ExchangeLoop, FiniteSetTheorems, TLAPS

\* h.mu is held between two steps exactly by the caller storing a list.
LockInv == \A a \in Callers : pc[a] = "store" <=> mu = a

\* Connect's local connection: set from the dial to the return, not shared
\* with another Connect, and before its installation neither current nor
\* closed.
DialedInv ==
  /\ \A a \in Actors : dialed[a] # NoConn <=> pc[a] \in {"install"} \cup Subscribing
  /\ \A a \in Actors : dialed[a] # NoConn => net[dialed[a]] # "idle"
  /\ \A a, b \in Actors : a # b /\ dialed[a] # NoConn => dialed[a] # dialed[b]
  /\ \A a \in Actors : pc[a] = "install" =>
       /\ conn # dialed[a]
       /\ net[dialed[a]] \in {"open", "dropped"}

\* A Connect whose connection is still the current one writes to it, and,
\* unless an update is on its way to close it, has read the present list.
WriterInv ==
  /\ \A a \in Actors : pc[a] = "write" => sock[a] \in Conns
  /\ \A a \in Actors :
       pc[a] = "write" /\ dialed[a] = conn => sock[a] = conn
  /\ \A a \in Actors :
       pc[a] \in {"pick", "write"} /\ dialed[a] = conn /\ NoUpdate
         => symbols \subseteq args[a]

IInv ==
  /\ TypeOK
  /\ LockInv
  /\ CurrentConnNotClosed
  /\ DialedInv
  /\ WriterInv
  /\ CurrentConnSubscribed

-----------------------------------------------------------------------------
(* Every step of Connect, by the run loop or by a request, preserves IInv.   *)
LEMMA ConnectStepIInv ==
  ASSUME NEW a \in Actors, IInv, ConnectStep(a), UNCHANGED backoff
  PROVE  IInv'
<1> USE HandlerAssumption, LoopAssumption DEF IInv, Goto, SocketStates,
      Subscribing, Updating
<1>1. CASE DialOk(a)
  <2>1. (TypeOK /\ LockInv)'
    BY <1>1 DEF DialOk, LoopSteps, CallerSteps, TypeOK, LockInv
  <2>2. (CurrentConnNotClosed /\ DialedInv)'
    BY <1>1 DEF DialOk, TypeOK, CurrentConnNotClosed, DialedInv
  <2>3. (WriterInv /\ CurrentConnSubscribed)'
    BY <1>1 DEF DialOk, TypeOK, LockInv, CurrentConnNotClosed, DialedInv,
         WriterInv, CurrentConnSubscribed, Settled, NoUpdate
  <2>4. QED
    BY <2>1, <2>2, <2>3
<1>2. CASE DialFail(a)
  <2>1. (TypeOK /\ LockInv)'
    BY <1>2 DEF DialFail, LoopSteps, CallerSteps, TypeOK, LockInv
  <2>2. (CurrentConnNotClosed /\ DialedInv)'
    BY <1>2 DEF DialFail, TypeOK, CurrentConnNotClosed, DialedInv
  <2>3. (WriterInv /\ CurrentConnSubscribed)'
    BY <1>2 DEF DialFail, TypeOK, LockInv, CurrentConnNotClosed, DialedInv,
         WriterInv, CurrentConnSubscribed, Settled, NoUpdate
  <2>4. QED
    BY <2>1, <2>2, <2>3
<1>3. CASE Install(a)
  <2>1. (TypeOK /\ LockInv)'
    BY <1>3 DEF Install, LoopSteps, CallerSteps, TypeOK, LockInv
  <2>2. (CurrentConnNotClosed /\ DialedInv)'
    BY <1>3 DEF Install, TypeOK, CurrentConnNotClosed, DialedInv
  <2>3. (WriterInv /\ CurrentConnSubscribed)'
    BY <1>3 DEF Install, TypeOK, LockInv, CurrentConnNotClosed, DialedInv,
         WriterInv, CurrentConnSubscribed, Settled, NoUpdate
  <2>4. QED
    BY <2>1, <2>2, <2>3
<1>4. CASE ReadSymbols(a)
  <2>1. (TypeOK /\ LockInv)'
    BY <1>4 DEF ReadSymbols, TornReads, LoopSteps, CallerSteps, TypeOK,
         LockInv
  <2>2. (CurrentConnNotClosed /\ DialedInv)'
    BY <1>4 DEF ReadSymbols, TornReads, TypeOK, CurrentConnNotClosed,
         DialedInv
  <2>3. (WriterInv /\ CurrentConnSubscribed)'
    BY <1>4 DEF ReadSymbols, TornReads, TypeOK, LockInv,
         CurrentConnNotClosed, DialedInv, WriterInv, CurrentConnSubscribed,
         Settled, NoUpdate
  <2>4. QED
    BY <2>1, <2>2, <2>3
<1>5. CASE PickConn(a)
  <2>1. (TypeOK /\ LockInv)'
    BY <1>5 DEF PickConn, LoopSteps, CallerSteps, TypeOK, LockInv
  <2>2. (CurrentConnNotClosed /\ DialedInv)'
    BY <1>5 DEF PickConn, TypeOK, CurrentConnNotClosed, DialedInv
  <2>3. (WriterInv /\ CurrentConnSubscribed)'
    BY <1>5 DEF PickConn, TypeOK, LockInv, CurrentConnNotClosed, DialedInv,
         WriterInv, CurrentConnSubscribed, Settled, NoUpdate
  <2>4. QED
    BY <2>1, <2>2, <2>3
<1>6. CASE WriteOk(a)
  <2>1. (TypeOK /\ LockInv)'
    BY <1>6 DEF WriteOk, Leave, LoopSteps, CallerSteps, TypeOK, LockInv
  <2>2. (CurrentConnNotClosed /\ DialedInv)'
    BY <1>6 DEF WriteOk, Leave, TypeOK, CurrentConnNotClosed, DialedInv
  <2>3. (WriterInv /\ CurrentConnSubscribed)'
    BY <1>6 DEF WriteOk, Leave, TypeOK, LockInv, CurrentConnNotClosed,
         DialedInv, WriterInv, CurrentConnSubscribed, Settled, NoUpdate
  <2>4. QED
    BY <2>1, <2>2, <2>3
<1>7. CASE WriteFail(a)
  <2>1. (TypeOK /\ LockInv)'
    BY <1>7 DEF WriteFail, LoopSteps, CallerSteps, TypeOK, LockInv
  <2>2. (CurrentConnNotClosed /\ DialedInv)'
    BY <1>7 DEF WriteFail, TypeOK, CurrentConnNotClosed, DialedInv
  <2>3. (WriterInv /\ CurrentConnSubscribed)'
    BY <1>7 DEF WriteFail, TypeOK, LockInv, CurrentConnNotClosed, DialedInv,
         WriterInv, CurrentConnSubscribed, Settled, NoUpdate
  <2>4. QED
    BY <2>1, <2>2, <2>3
<1>8. CASE Abort(a)
  <2>1. (TypeOK /\ LockInv)'
    BY <1>8 DEF Abort, Close, Leave, LoopSteps, CallerSteps, TypeOK, LockInv
  <2>2. (CurrentConnNotClosed /\ DialedInv)'
    BY <1>8 DEF Abort, Close, Leave, TypeOK, CurrentConnNotClosed, DialedInv
  <2>3. (WriterInv /\ CurrentConnSubscribed)'
    BY <1>8 DEF Abort, Close, Leave, TypeOK, LockInv, CurrentConnNotClosed,
         DialedInv, WriterInv, CurrentConnSubscribed, Settled, NoUpdate
  <2>4. QED
    BY <2>1, <2>2, <2>3
<1>9. QED
  BY <1>1, <1>2, <1>3, <1>4, <1>5, <1>6, <1>7, <1>8 DEF ConnectStep

(* So does every other step of the run loop, reading messages included.     *)
LEMMA LoopStepIInv ==
  ASSUME IInv, LoopStep
  PROVE  IInv'
<1> USE HandlerAssumption, LoopAssumption DEF IInv, Goto, SocketStates,
      Subscribing, Updating
<1>1. CASE StopLoop
  <2>1. (TypeOK /\ LockInv)'
    BY <1>1 DEF StopLoop, Close, LoopSteps, CallerSteps, TypeOK, LockInv
  <2>2. (CurrentConnNotClosed /\ DialedInv)'
    BY <1>1 DEF StopLoop, Close, TypeOK, CurrentConnNotClosed, DialedInv
  <2>3. (WriterInv /\ CurrentConnSubscribed)'
    BY <1>1 DEF StopLoop, Close, TypeOK, LockInv, CurrentConnNotClosed,
         DialedInv, WriterInv, CurrentConnSubscribed, Settled, NoUpdate
  <2>4. QED
    BY <2>1, <2>2, <2>3
<1>2. CASE BeginConnect
  <2>1. (TypeOK /\ LockInv)'
    BY <1>2 DEF BeginConnect, LoopSteps, CallerSteps, TypeOK, LockInv
  <2>2. (CurrentConnNotClosed /\ DialedInv)'
    BY <1>2 DEF BeginConnect, TypeOK, CurrentConnNotClosed, DialedInv
  <2>3. (WriterInv /\ CurrentConnSubscribed)'
    BY <1>2 DEF BeginConnect, TypeOK, LockInv, CurrentConnNotClosed,
         DialedInv, WriterInv, CurrentConnSubscribed, Settled, NoUpdate
  <2>4. QED
    BY <2>1, <2>2, <2>3
<1>3. CASE SleepBackoff
  <2>1. (TypeOK /\ LockInv)'
    BY <1>3 DEF SleepBackoff, LoopSteps, CallerSteps, TypeOK, LockInv
  <2>2. (CurrentConnNotClosed /\ DialedInv)'
    BY <1>3 DEF SleepBackoff, TypeOK, CurrentConnNotClosed, DialedInv
  <2>3. (WriterInv /\ CurrentConnSubscribed)'
    BY <1>3 DEF SleepBackoff, TypeOK, LockInv, CurrentConnNotClosed,
         DialedInv, WriterInv, CurrentConnSubscribed, Settled, NoUpdate
  <2>4. QED
    BY <2>1, <2>2, <2>3
<1>4. CASE StartReading
  <2>1. (TypeOK /\ LockInv)'
    BY <1>4 DEF StartReading, LoopSteps, CallerSteps, TypeOK, LockInv
  <2>2. (CurrentConnNotClosed /\ DialedInv)'
    BY <1>4 DEF StartReading, TypeOK, CurrentConnNotClosed, DialedInv
  <2>3. (WriterInv /\ CurrentConnSubscribed)'
    BY <1>4 DEF StartReading, TypeOK, LockInv, CurrentConnNotClosed,
         DialedInv, WriterInv, CurrentConnSubscribed, Settled, NoUpdate
  <2>4. QED
    BY <2>1, <2>2, <2>3
<1>5. CASE Disconnect
  <2>1. (TypeOK /\ LockInv)'
    BY <1>5 DEF Disconnect, Close, LoopSteps, CallerSteps, TypeOK, LockInv
  <2>2. (CurrentConnNotClosed /\ DialedInv)'
    BY <1>5 DEF Disconnect, Close, TypeOK, CurrentConnNotClosed, DialedInv
  <2>3. (WriterInv /\ CurrentConnSubscribed)'
    BY <1>5 DEF Disconnect, Close, TypeOK, LockInv, CurrentConnNotClosed,
         DialedInv, WriterInv, CurrentConnSubscribed, Settled, NoUpdate
  <2>4. QED
    BY <2>1, <2>2, <2>3
<1>6. CASE ReadNext(Loop) /\ UNCHANGED backoff
  <2>1. (TypeOK /\ LockInv)'
    BY <1>6 DEF ReadNext, LoopSteps, CallerSteps, TypeOK, LockInv
  <2>2. (CurrentConnNotClosed /\ DialedInv)'
    BY <1>6 DEF ReadNext, TypeOK, CurrentConnNotClosed, DialedInv
  <2>3. (WriterInv /\ CurrentConnSubscribed)'
    BY <1>6 DEF ReadNext, TypeOK, LockInv, CurrentConnNotClosed, DialedInv,
         WriterInv, CurrentConnSubscribed, Settled, NoUpdate
  <2>4. QED
    BY <2>1, <2>2, <2>3
<1>7. CASE Receive(Loop) /\ UNCHANGED backoff
  <2>1. (TypeOK /\ LockInv)'
    BY <1>7 DEF Receive, LoopSteps, CallerSteps, TypeOK, LockInv
  <2>2. (CurrentConnNotClosed /\ DialedInv)'
    BY <1>7 DEF Receive, TypeOK, CurrentConnNotClosed, DialedInv
  <2>3. (WriterInv /\ CurrentConnSubscribed)'
    BY <1>7 DEF Receive, TypeOK, LockInv, CurrentConnNotClosed, DialedInv,
         WriterInv, CurrentConnSubscribed, Settled, NoUpdate
  <2>4. QED
    BY <2>1, <2>2, <2>3
<1>8. CASE ReadError(Loop) /\ UNCHANGED backoff
  <2>1. (TypeOK /\ LockInv)'
    BY <1>8 DEF ReadError, LoopSteps, CallerSteps, TypeOK, LockInv
  <2>2. (CurrentConnNotClosed /\ DialedInv)'
    BY <1>8 DEF ReadError, TypeOK, CurrentConnNotClosed, DialedInv
  <2>3. (WriterInv /\ CurrentConnSubscribed)'
    BY <1>8 DEF ReadError, TypeOK, LockInv, CurrentConnNotClosed, DialedInv,
         WriterInv, CurrentConnSubscribed, Settled, NoUpdate
  <2>4. QED
    BY <2>1, <2>2, <2>3
<1>9. QED
  BY ConnectStepIInv, <1>1, <1>2, <1>3, <1>4, <1>5, <1>6, <1>7, <1>8 DEF LoopStep,
       HandlerStep, HandleMessagesStep

(* So does every step of a request.                                          *)
LEMMA CallerIInv ==
  ASSUME NEW a \in Callers, IInv, CallerStep(a) \/ Request(a)
  PROVE  IInv'
<1> USE HandlerAssumption, LoopAssumption DEF IInv, Goto, SocketStates,
      Subscribing, Updating
<1>1. CASE \E s \in Symbols : Subscribe(a, s) /\ UNCHANGED backoff
  <2>1. (TypeOK /\ LockInv)'
    BY <1>1 DEF Subscribe, BeginUpdate, LoopSteps, CallerSteps, TypeOK,
         LockInv
  <2>2. (CurrentConnNotClosed /\ DialedInv)'
    BY <1>1 DEF Subscribe, BeginUpdate, TypeOK, CurrentConnNotClosed,
         DialedInv
  <2>3. (WriterInv /\ CurrentConnSubscribed)'
    BY <1>1 DEF Subscribe, BeginUpdate, TypeOK, LockInv,
         CurrentConnNotClosed, DialedInv, WriterInv, CurrentConnSubscribed,
         Settled, NoUpdate
  <2>4. QED
    BY <2>1, <2>2, <2>3
<1>2. CASE \E s \in Symbols : Unsubscribe(a, s) /\ UNCHANGED backoff
  <2>1. (TypeOK /\ LockInv)'
    BY <1>2 DEF Unsubscribe, BeginUpdate, LoopSteps, CallerSteps, TypeOK,
         LockInv
  <2>2. (CurrentConnNotClosed /\ DialedInv)'
    BY <1>2 DEF Unsubscribe, BeginUpdate, TypeOK, CurrentConnNotClosed,
         DialedInv
  <2>3. (WriterInv /\ CurrentConnSubscribed)'
    BY <1>2 DEF Unsubscribe, BeginUpdate, TypeOK, LockInv,
         CurrentConnNotClosed, DialedInv, WriterInv, CurrentConnSubscribed,
         Settled, NoUpdate
  <2>4. QED
    BY <2>1, <2>2, <2>3
<1>3. CASE StoreSymbols(a) /\ UNCHANGED backoff
  <2>1. (TypeOK /\ LockInv)'
    BY <1>3 DEF StoreSymbols, LoopSteps, CallerSteps, TypeOK, LockInv
  <2>2. (CurrentConnNotClosed /\ DialedInv)'
    BY <1>3 DEF StoreSymbols, TypeOK, CurrentConnNotClosed, DialedInv
  <2>3. (WriterInv /\ CurrentConnSubscribed)'
    BY <1>3 DEF StoreSymbols, TypeOK, LockInv, CurrentConnNotClosed,
         DialedInv, WriterInv, CurrentConnSubscribed, Settled, NoUpdate
  <2>4. QED
    BY <2>1, <2>2, <2>3
<1>4. CASE Reconnect(a) /\ UNCHANGED backoff
  <2>1. (TypeOK /\ LockInv)'
    BY <1>4 DEF Reconnect, Close, LoopSteps, CallerSteps, TypeOK, LockInv
  <2>2. (CurrentConnNotClosed /\ DialedInv)'
    BY <1>4 DEF Reconnect, Close, TypeOK, CurrentConnNotClosed, DialedInv
  <2>3. (WriterInv /\ CurrentConnSubscribed)'
    BY <1>4 DEF Reconnect, Close, TypeOK, LockInv, CurrentConnNotClosed,
         DialedInv, WriterInv, CurrentConnSubscribed, Settled, NoUpdate
  <2>4. QED
    BY <2>1, <2>2, <2>3
<1>5. CASE ReturnToCaller(a) /\ UNCHANGED backoff
  <2>1. (TypeOK /\ LockInv)'
    BY <1>5 DEF ReturnToCaller, LoopSteps, CallerSteps, TypeOK, LockInv
  <2>2. (CurrentConnNotClosed /\ DialedInv)'
    BY <1>5 DEF ReturnToCaller, TypeOK, CurrentConnNotClosed, DialedInv
  <2>3. (WriterInv /\ CurrentConnSubscribed)'
    BY <1>5 DEF ReturnToCaller, TypeOK, LockInv, CurrentConnNotClosed,
         DialedInv, WriterInv, CurrentConnSubscribed, Settled, NoUpdate
  <2>4. QED
    BY <2>1, <2>2, <2>3
<1>6. QED
  BY ConnectStepIInv, <1>1, <1>2, <1>3, <1>4, <1>5 DEF CallerStep, Request

(* So do the steps of main and of the network, and stuttering.               *)
LEMMA EnvironmentIInv ==
  ASSUME IInv, Shutdown \/ Network \/ UNCHANGED vars
  PROVE  IInv'
<1> USE HandlerAssumption, LoopAssumption DEF IInv, Goto, SocketStates,
      Subscribing, Updating
<1>1. CASE Shutdown
  <2>1. (TypeOK /\ LockInv)'
    BY <1>1 DEF Shutdown, LoopSteps, CallerSteps, TypeOK, LockInv
  <2>2. (CurrentConnNotClosed /\ DialedInv)'
    BY <1>1 DEF Shutdown, TypeOK, CurrentConnNotClosed, DialedInv
  <2>3. (WriterInv /\ CurrentConnSubscribed)'
    BY <1>1 DEF Shutdown, TypeOK, LockInv, CurrentConnNotClosed, DialedInv,
         WriterInv, CurrentConnSubscribed, Settled, NoUpdate
  <2>4. QED
    BY <2>1, <2>2, <2>3
<1>2. CASE \E c \in Conns : PeerDrop(c) /\ UNCHANGED backoff
  <2>1. (TypeOK /\ LockInv)'
    BY <1>2 DEF PeerDrop, LoopSteps, CallerSteps, TypeOK, LockInv
  <2>2. (CurrentConnNotClosed /\ DialedInv)'
    BY <1>2 DEF PeerDrop, TypeOK, CurrentConnNotClosed, DialedInv
  <2>3. (WriterInv /\ CurrentConnSubscribed)'
    BY <1>2 DEF PeerDrop, TypeOK, LockInv, CurrentConnNotClosed, DialedInv,
         WriterInv, CurrentConnSubscribed, Settled, NoUpdate
  <2>4. QED
    BY <2>1, <2>2, <2>3
<1>3. CASE \E c \in Conns : Collect(c) /\ UNCHANGED backoff
  <2>1. (TypeOK /\ LockInv)'
    BY <1>3 DEF Collect, LoopSteps, CallerSteps, TypeOK, LockInv
  <2>2. (CurrentConnNotClosed /\ DialedInv)'
    BY <1>3 DEF Collect, TypeOK, CurrentConnNotClosed, DialedInv
  <2>3. (WriterInv /\ CurrentConnSubscribed)'
    BY <1>3 DEF Collect, TypeOK, LockInv, CurrentConnNotClosed, DialedInv,
         WriterInv, CurrentConnSubscribed, Settled, NoUpdate
  <2>4. QED
    BY <2>1, <2>2, <2>3
<1>4. CASE UNCHANGED vars
  <2>1. (TypeOK /\ LockInv)'
    BY <1>4 DEF vars, handlerVars, LoopSteps, CallerSteps, TypeOK, LockInv
  <2>2. (CurrentConnNotClosed /\ DialedInv)'
    BY <1>4 DEF vars, handlerVars, TypeOK, CurrentConnNotClosed, DialedInv
  <2>3. (WriterInv /\ CurrentConnSubscribed)'
    BY <1>4 DEF vars, handlerVars, TypeOK, LockInv, CurrentConnNotClosed,
         DialedInv, WriterInv, CurrentConnSubscribed, Settled, NoUpdate
  <2>4. QED
    BY <2>1, <2>2, <2>3
<1>5. QED
  BY <1>1, <1>2, <1>3, <1>4 DEF Network

(* The initial states: no connection, nobody holds h.mu, nobody connects.    *)
LEMMA InitIInv == Init => IInv
<1> SUFFICES ASSUME Init
             PROVE  IInv
  OBVIOUS
<1> USE HandlerAssumption, LoopAssumption DEF Init, HandlerInit
<1>1. /\ pc[Loop] = "top" /\ \A a \in Callers : pc[a] = "idle"
      /\ \A a \in Actors : dialed[a] = NoConn
  OBVIOUS
<1>2. TypeOK
  <2>1. pc \in [Actors -> LoopSteps \cup CallerSteps]
    BY DEF LoopSteps, CallerSteps
  <2>2. /\ pc[Loop] \in LoopSteps
        /\ \A a \in Callers : pc[a] \in CallerSteps
    BY <1>1 DEF LoopSteps, CallerSteps
  <2>3. /\ net \in [Conns -> SocketStates] /\ subs \in [Conns -> SUBSET Symbols]
        /\ dialed \in [Actors -> Conns \cup {NoConn}]
        /\ sock \in [Actors -> Conns \cup {NoConn}]
        /\ args \in [Actors -> SUBSET Symbols]
    BY DEF SocketStates
  <2>4. /\ mu \in Callers \cup {NoActor} /\ conn \in Conns \cup {NoConn}
        /\ symbols \in SUBSET Symbols /\ pending \in SUBSET Symbols
    OBVIOUS
  <2>5. ctxDone \in BOOLEAN /\ connected \in BOOLEAN
    OBVIOUS
  <2>6. backoff \in 1..MaxBackoff
    OBVIOUS
  <2>7. QED
    BY <2>1, <2>2, <2>3, <2>4, <2>5, <2>6, Zenon DEF TypeOK
<1>3. LockInv /\ CurrentConnNotClosed /\ CurrentConnSubscribed
  BY <1>1 DEF LockInv, CurrentConnNotClosed, CurrentConnSubscribed
<1>4. DialedInv
  BY <1>1 DEF DialedInv, Subscribing
<1>5. WriterInv
  BY <1>1 DEF WriterInv
<1>6. QED
  BY <1>2, <1>3, <1>4, <1>5 DEF IInv

(* IInv is an invariant, for every set of callers, connections and symbols.  *)
THEOREM Invariance == Spec => []IInv
<1>1. Init => IInv
  BY InitIInv
<1>2. IInv /\ [Next]_vars => IInv'
  BY LoopStepIInv, CallerIInv, EnvironmentIInv DEF Next
<1>3. QED
  BY <1>1, <1>2, PTL DEF Spec

(* Types are respected; backoff stays between its initial value and its cap. *)
THEOREM TypeCorrect == Spec => []TypeOK
BY Invariance, PTL DEF IInv

(* Close and Connect never leave the handler with a connection it closed, and *)
(* Connected is reported exactly while there is one.                          *)
THEOREM NotClosed == Spec => []CurrentConnNotClosed
BY Invariance, PTL DEF IInv

(* However many requests reconnect the handler at once, the current          *)
(* connection is subscribed to the whole list as soon as its Connect is past *)
(* subscribe and no update is pending.                                       *)
THEOREM Subscribed == Spec => []CurrentConnSubscribed
BY Invariance, PTL DEF IInv
-----------------------------------------------------------------------------
(* Without requests: an unclosed connection is the current one, or the one   *)
(* just dialed, and there is none of the first while there is one of the     *)
(* second, nor where the loop starts over or has stopped.                     *)
SoloInv ==
  /\ \A c \in Unclosed : c = conn \/ (pc[Loop] = "install" /\ c = dialed[Loop])
  /\ pc[Loop] \in {"top", "dial", "install", "failed", "stopped"} => conn = NoConn

(* The run loop alone preserves SoloInv.                                     *)
LEMMA SoloStep ==
  ASSUME Callers = {}, IInv, SoloInv, [Next]_vars
  PROVE  SoloInv'
<1> USE HandlerAssumption, LoopAssumption DEF SoloInv, Unclosed, Goto
<1>1. /\ Actors = {Loop}
      /\ TypeOK /\ CurrentConnNotClosed
  BY DEF IInv
<1>2. CASE LoopStep
  <2>1. CASE StopLoop \/ Disconnect
    BY <1>1, <2>1 DEF StopLoop, Disconnect, Close, TypeOK
  <2>2. CASE BeginConnect \/ SleepBackoff \/ StartReading
    BY <1>1, <2>2 DEF BeginConnect, SleepBackoff, StartReading, TypeOK
  <2>3. CASE DialOk(Loop)
    BY <1>1, <2>3 DEF DialOk, TypeOK, SocketStates
  <2>4. CASE DialFail(Loop) \/ ReadSymbols(Loop) \/ PickConn(Loop)
    BY <1>1, <2>4 DEF DialFail, ReadSymbols, PickConn, TypeOK
  <2>5. CASE Install(Loop)
    BY <1>1, <2>5 DEF Install, TypeOK
  <2>6. CASE WriteOk(Loop) \/ WriteFail(Loop)
    BY <1>1, <2>6 DEF WriteOk, WriteFail, Leave, TypeOK
  <2>7. CASE Abort(Loop)
    BY <1>1, <2>7 DEF Abort, Close, Leave, TypeOK
  <2>8. CASE HandleMessagesStep(Loop)
    BY <1>1, <2>8 DEF HandleMessagesStep, ReadNext, Receive, ReadError, TypeOK
  <2>9. QED
    BY <1>2, <2>1, <2>2, <2>3, <2>4, <2>5, <2>6, <2>7, <2>8
    DEF LoopStep, HandlerStep, ConnectStep
<1>3. CASE Shutdown
  BY <1>1, <1>3 DEF Shutdown
<1>4. CASE Network
  <2>1. CASE \E c \in Conns : PeerDrop(c)
    BY <1>1, <2>1 DEF PeerDrop, TypeOK
  <2>2. CASE \E c \in Conns : Collect(c)
    BY <1>1, <2>2 DEF Collect, TypeOK
  <2>3. QED
    BY <1>4, <2>1, <2>2 DEF Network
<1>5. CASE UNCHANGED vars
  BY <1>5 DEF vars, handlerVars
<1>6. QED
  BY <1>2, <1>3, <1>4, <1>5 DEF Next

(* Nobody but the run loop: SoloInv holds throughout.                        *)
THEOREM SoloInvariance == ASSUME Callers = {} PROVE Spec => []SoloInv
<1>1. Init => SoloInv
  BY DEF Init, HandlerInit, SoloInv, Unclosed
<1>2. IInv /\ SoloInv /\ [Next]_vars => SoloInv'
  BY SoloStep
<1>3. QED
  BY <1>1, <1>2, Invariance, PTL DEF Spec

(* What SoloInv says of the unclosed connections.                             *)
LEMMA SoloConclusions ==
  /\ SoloInv => SingleConnection
  /\ SoloInv => ReplacedIsClosed
  /\ SoloInv => StoppedIsClosed
<1>1. SoloInv => SingleConnection
  <2> SUFFICES ASSUME SoloInv PROVE Cardinality(Unclosed) <= 1
    BY DEF SingleConnection
  <2>1. \A x, y \in Unclosed : x = y
    BY HandlerAssumption DEF SoloInv, Unclosed
  <2>2. CASE Unclosed = {}
    BY <2>2, FS_EmptySet
  <2>3. CASE Unclosed # {}
    <3>1. PICK x : x \in Unclosed
      BY <2>3
    <3>2. Unclosed = {x}
      BY <2>1, <3>1
    <3>3. Cardinality({x}) = 1
      BY FS_Singleton
    <3>4. QED
      BY <3>2, <3>3
  <2>4. QED
    BY <2>2, <2>3
<1>2. SoloInv => StoppedIsClosed
  BY HandlerAssumption DEF SoloInv, StoppedIsClosed, Unclosed
<1>3. SoloInv => ReplacedIsClosed
  BY LoopAssumption DEF SoloInv, ReplacedIsClosed
<1>4. QED
  BY <1>1, <1>2, <1>3

(* While no request reconnects it, a handler has at most one connection that *)
(* it has not closed, and none it has replaced and left open: the run loop   *)
(* closes before it dials.                                                   *)
THEOREM SoloSingle ==
  ASSUME Callers = {}
  PROVE  Spec => []SingleConnection /\ []ReplacedIsClosed
BY SoloInvariance, SoloConclusions, PTL

(* A stopped run loop, without requests, leaves no connection unclosed.       *)
THEOREM SoloStopped == ASSUME Callers = {} PROVE Spec => []StoppedIsClosed
BY SoloInvariance, SoloConclusions, PTL

-----------------------------------------------------------------------------
(* The order of the run loop's steps.                                        *)
LEMMA StepOrder ==
  /\ StepsToStop("dial") = 9 /\ StepsToStop("install") = 8 /\ StepsToStop("args") = 7
  /\ StepsToStop("pick") = 6 /\ StepsToStop("write") = 5
  /\ StepsToStop("connected") = 4 /\ StepsToStop("recv") = 4
  /\ StepsToStop("abort") = 3 /\ StepsToStop("read") = 3
  /\ StepsToStop("failed") = 2 /\ StepsToStop("disconnected") = 2
  /\ StepsToStop("top") = 1 /\ StepsToStop("stopped") = 0
BY DEF StepsToStop

(* The steps of the run loop that the cancelled context still allows.        *)
LEMMA LoopDescends ==
  ASSUME TypeOK, ctxDone, LoopStep
  PROVE  StepsToStop(pc'[Loop]) < StepsToStop(pc[Loop])
<1> USE LoopAssumption, StepOrder DEF TypeOK, Goto
<1>1. CASE StopLoop \/ BeginConnect \/ Disconnect
  <2>1. \/ pc[Loop] = "top" /\ pc'[Loop] = "stopped"
        \/ pc[Loop] = "disconnected" /\ pc'[Loop] = "top"
    BY <1>1 DEF StopLoop, BeginConnect, Disconnect
  <2>2. QED
    BY <2>1
<1>2. CASE SleepBackoff \/ StartReading
  <2>1. \/ pc[Loop] = "failed" /\ pc'[Loop] = "top"
        \/ pc[Loop] = "connected" /\ pc'[Loop] = "read"
    BY <1>2 DEF SleepBackoff, StartReading
  <2>2. QED
    BY <2>1
<1>3. CASE ConnectStep(Loop)
  <2>1. \/ pc[Loop] = "dial" /\ pc'[Loop] \in {"install", "failed"}
        \/ pc[Loop] = "install" /\ pc'[Loop] = "args"
        \/ pc[Loop] = "args" /\ pc'[Loop] = "pick"
        \/ pc[Loop] = "pick" /\ pc'[Loop] \in {"write", "abort"}
        \/ pc[Loop] = "write" /\ pc'[Loop] \in {"connected", "abort"}
        \/ pc[Loop] = "abort" /\ pc'[Loop] = "failed"
    BY <1>3 DEF ConnectStep, DialOk, DialFail, Install, ReadSymbols, PickConn, WriteOk,
       WriteFail, Abort
  <2>2. QED
    BY <2>1
<1>4. CASE HandleMessagesStep(Loop)
  <2>1. \/ pc[Loop] = "read" /\ pc'[Loop] = "disconnected"
        \/ pc[Loop] = "recv" /\ pc'[Loop] \in {"read", "disconnected"}
    BY <1>4 DEF HandleMessagesStep, ReadNext, Receive, ReadError
  <2>2. QED
    BY <2>1
<1>5. QED
  BY <1>1, <1>2, <1>3, <1>4 DEF LoopStep, HandlerStep

(* Nobody else moves the run loop.                                           *)
LEMMA OthersLeaveLoop ==
  ASSUME TypeOK, [Next]_vars, ~LoopStep
  PROVE  pc'[Loop] = pc[Loop]
<1> USE LoopAssumption DEF TypeOK, Goto
<1>1. ASSUME NEW a \in Callers, CallerStep(a) \/ Request(a)
      PROVE  pc'[Loop] = pc[Loop]
  BY <1>1 DEF CallerStep, ConnectStep, DialOk, DialFail, Install, ReadSymbols, PickConn,
     WriteOk, WriteFail, Abort, StoreSymbols, Reconnect, ReturnToCaller, Request, Subscribe,
     Unsubscribe, BeginUpdate
<1>2. CASE Shutdown \/ Network \/ UNCHANGED vars
  BY <1>2 DEF Shutdown, Network, PeerDrop, Collect, vars, handlerVars
<1>3. QED
  BY <1>1, <1>2 DEF Next

(* A cancelled run loop comes nearer to its end with every step, whatever    *)
(* requests and the network do: it takes nine steps more at most.            *)
THEOREM LoopEnding == Spec => LoopEnds
<1>1. TypeOK /\ [Next]_vars =>
        (ctxDone /\ pc'[Loop] # pc[Loop] => StepsToStop(pc'[Loop]) < StepsToStop(pc[Loop]))
  BY LoopDescends, OthersLeaveLoop
<1>2. QED
  BY <1>1, TypeCorrect, PTL DEF Spec, LoopEnds
=============================================================================
