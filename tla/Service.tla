------------------------------ MODULE Service -------------------------------
(***************************************************************************)
(* The life of the process (cmd/ticker/main.go): the run loops started by   *)
(* Manager.Start, HTTP requests, and main, which waits for a signal, cancels *)
(* the context, shuts the HTTP server down, waits for the run loops and     *)
(* closes the storage.  Where ExchangeLoop has every step of a run loop,    *)
(* here only what bounds its duration is kept: the time it may still spend  *)
(* in a dial, a sleep, a read or a call of Publish.                         *)
(***************************************************************************)
EXTENDS Naturals

CONSTANTS
  Exchanges,    \* exchanges with a handler
  Requests,     \* HTTP goroutines
  DialTime,     \* handshake timeout of the WebSocket library's default dialer
  ReadTime,     \* read deadline: 60 s
  MaxBackoff,   \* longest sleep after a failed Connect: 60 s
  MaxTickers,   \* most tickers of one message that are stored
  StoreTime,    \* longest call of storage.Publish
  RequestTime,  \* longest HTTP request
  DrainTime     \* timeout of the HTTP server's Shutdown: 10 s

Times == {DialTime, ReadTime, MaxBackoff, StoreTime, RequestTime, DrainTime}

ASSUME ServiceAssumption ==
  /\ Times \subseteq Nat
  /\ MaxTickers \in Nat
  /\ MaxBackoff > 0

\* The longest time from the signal to the exit (ExitBounded).
ExitTime ==
  CHOOSE t \in {DrainTime, DialTime + MaxBackoff, ReadTime + MaxTickers * StoreTime} :
    /\ t >= DrainTime
    /\ t >= DialTime + MaxBackoff
    /\ t >= ReadTime + MaxTickers * StoreTime

VARIABLES
  phase,       \* main: "serving", "cancelled", "draining", "waiting",
               \* "exited"; "killed" by Fatalf
  drainLeft,   \* time left to Shutdown
  cutOff,      \* Shutdown gave up on requests under way
  storOpen,    \* stor.Close has not been called
  at,          \* where each run loop is
  left,        \* the time it may still spend there
  batch,       \* tickers of its message to be stored after the present one
  request,     \* the requests being served
  requestLeft, \* the time each may still take
  since        \* time since the signal, up to ExitTime + 1

loopVars == <<at, left, batch>>
requestVars == <<request, requestLeft>>
mainVars == <<phase, drainLeft, cutOff, storOpen>>
vars == <<mainVars, loopVars, requestVars, since>>

Init ==
  /\ phase = "serving"
  /\ drainLeft = 0
  /\ cutOff = FALSE
  /\ storOpen = TRUE
  /\ at = [e \in Exchanges |-> "top"]
  /\ left = [e \in Exchanges |-> 0]
  /\ batch = [e \in Exchanges |-> 0]
  /\ request = {}
  /\ requestLeft = [r \in Requests |-> 0]
  /\ since = 0

ctxDone == phase # "serving"
Alive == phase \notin {"exited", "killed"}
Listening == phase \in {"serving", "cancelled"}

-----------------------------------------------------------------------------
LoopGoto(e, place, time) ==
  /\ Alive
  /\ at' = [at EXCEPT ![e] = place]
  /\ left' = [left EXCEPT ![e] = time]
  /\ UNCHANGED <<mainVars, batch, requestVars, since>>

\* A call of storage.Publish, with more tickers of the message to follow.
LoopStore(e, more) ==
  /\ Alive
  /\ at' = [at EXCEPT ![e] = "publish"]
  /\ left' = [left EXCEPT ![e] = StoreTime]
  /\ batch' = [batch EXCEPT ![e] = more]
  /\ UNCHANGED <<mainVars, requestVars, since>>

\* Mutant: the context is not looked at between two attempts.
TopIgnoringContext(e) ==
  /\ at[e] = "top"
  /\ LoopGoto(e, "dial", DialTime)

\* The head of runExchange's loop.
Top(e) ==
  /\ at[e] = "top"
  /\ IF ctxDone THEN LoopGoto(e, "stopped", 0) ELSE LoopGoto(e, "dial", DialTime)

Connected(e) == at[e] = "dial" /\ LoopGoto(e, "check", 0)

ConnectFailed(e) ==
  /\ at[e] = "dial"
  /\ \E backoff \in 1..MaxBackoff : LoopGoto(e, "sleep", backoff)

Awake(e) == at[e] = "sleep" /\ left[e] = 0 /\ LoopGoto(e, "top", 0)

\* Mutant: the context is not looked at between two reads.
CheckIgnoringContext(e) ==
  /\ at[e] = "check"
  /\ LoopGoto(e, "read", ReadTime)

\* The head of HandleMessages' loop; a done context ends in handler.Close.
Check(e) ==
  /\ at[e] = "check"
  /\ IF ctxDone THEN LoopGoto(e, "top", 0) ELSE LoopGoto(e, "read", ReadTime)

\* A message: the tickers in it that the handler wants, none or several (those
\* of all subscribed symbols in Binance's stream), are stored one by one.
Message(e) ==
  /\ at[e] = "read"
  /\ LoopGoto(e, "check", 0) \/ \E n \in 1..MaxTickers : LoopStore(e, n - 1)

\* The read fails: the connection is lost, closed, or silent for too long.
ReadFailed(e) == at[e] = "read" /\ LoopGoto(e, "top", 0)

\* The next ticker of the message, without a look at the context.
Published(e) ==
  /\ at[e] = "publish"
  /\ IF batch[e] > 0 THEN LoopStore(e, batch[e] - 1) ELSE LoopGoto(e, "check", 0)

LoopStep(e) ==
  \/ Top(e) \/ Connected(e) \/ ConnectFailed(e) \/ Awake(e)
  \/ Check(e) \/ Message(e) \/ ReadFailed(e) \/ Published(e)

-----------------------------------------------------------------------------
Arrive(r) ==
  /\ Listening
  /\ r \notin request
  /\ request' = request \cup {r}
  /\ requestLeft' = [requestLeft EXCEPT ![r] = RequestTime]
  /\ UNCHANGED <<mainVars, loopVars, since>>

Finish(r) ==
  /\ Alive
  /\ r \in request
  /\ request' = request \ {r}
  /\ UNCHANGED <<mainVars, loopVars, requestLeft, since>>

-----------------------------------------------------------------------------
\* SIGINT or SIGTERM: main cancels the context.
Signal ==
  /\ phase = "serving"
  /\ phase' = "cancelled"
  /\ UNCHANGED <<drainLeft, cutOff, storOpen, loopVars, requestVars, since>>

\* srv.Shutdown: stop listening, wait for the requests under way.
Drain ==
  /\ phase = "cancelled"
  /\ phase' = "draining"
  /\ drainLeft' = DrainTime
  /\ UNCHANGED <<cutOff, storOpen, loopVars, requestVars, since>>

\* Mutant: the server is closed without waiting for requests.
DrainedAnyway ==
  /\ phase = "draining"
  /\ phase' = "waiting"
  /\ UNCHANGED <<drainLeft, cutOff, storOpen, loopVars, requestVars, since>>

Drained ==
  /\ phase = "draining"
  /\ request = {}
  /\ phase' = "waiting"
  /\ UNCHANGED <<drainLeft, cutOff, storOpen, loopVars, requestVars, since>>

\* The error is logged, the requests go on.
DrainTimeout ==
  /\ phase = "draining"
  /\ drainLeft = 0
  /\ phase' = "waiting"
  /\ cutOff' = TRUE
  /\ UNCHANGED <<drainLeft, storOpen, loopVars, requestVars, since>>

\* Mutant: main does not wait for the run loops.
ExitWithoutWait ==
  /\ phase = "waiting"
  /\ phase' = "exited"
  /\ storOpen' = FALSE
  /\ UNCHANGED <<drainLeft, cutOff, loopVars, requestVars, since>>

\* manager.Wait returns; the deferred stor.Close; the process ends.
Exit ==
  /\ phase = "waiting"
  /\ \A e \in Exchanges : at[e] = "stopped"
  /\ phase' = "exited"
  /\ storOpen' = FALSE
  /\ UNCHANGED <<drainLeft, cutOff, loopVars, requestVars, since>>

\* ListenAndServe fails: Fatalf ends the process at once.
ListenFail ==
  /\ Listening
  /\ phase' = "killed"
  /\ UNCHANGED <<drainLeft, cutOff, storOpen, loopVars, requestVars, since>>

MainStep == Drain \/ Drained \/ DrainTimeout \/ Exit

-----------------------------------------------------------------------------
Less(n) == IF n = 0 THEN 0 ELSE n - 1

\* Nothing whose time is over is late by a whole unit, and steps that take no
\* time are taken.
OnTime ==
  /\ phase \in {"serving", "draining", "waiting"}
  /\ \A e \in Exchanges : at[e] \notin {"top", "check"} /\ (at[e] # "stopped" => left[e] > 0)
  /\ \A r \in request : requestLeft[r] > 0
  /\ phase = "draining" => request # {} /\ drainLeft > 0
  /\ phase = "waiting" => \E e \in Exchanges : at[e] # "stopped"

Tick ==
  /\ OnTime
  /\ left' = [e \in Exchanges |-> Less(left[e])]
  /\ requestLeft' = [r \in Requests |-> Less(requestLeft[r])]
  /\ drainLeft' = Less(drainLeft)
  /\ since' = IF ctxDone /\ since <= ExitTime THEN since + 1 ELSE since
  /\ UNCHANGED <<phase, cutOff, storOpen, at, batch, request>>

Next ==
  \/ \E e \in Exchanges : LoopStep(e)
  \/ \E r \in Requests : Arrive(r) \/ Finish(r)
  \/ Signal
  \/ MainStep
  \/ ListenFail
  \/ Tick

Spec == Init /\ [][Next]_vars

\* Goroutines are scheduled, deadlines and sleeps end, handlers return.
FairSpec ==
  /\ Spec
  /\ \A e \in Exchanges : WF_vars(LoopStep(e))
  /\ \A r \in Requests : WF_vars(Finish(r))
  /\ WF_vars(MainStep)
  /\ WF_vars(Tick)

-----------------------------------------------------------------------------
(* The storage is not closed while a run loop can still publish.            *)
StorageOutlivesLoops == storOpen \/ \A e \in Exchanges : at[e] = "stopped"

(* A request is cut off by the end of the process, or finds the storage     *)
(* closed, only if it was still running when the shutdown timeout was over. *)
RequestsDrained == ~storOpen /\ request # {} => cutOff

(* A shutdown takes at most a dial and a backoff sleep, a read and the      *)
(* storing of every ticker it brought, one after the other, or the timeout  *)
(* of the HTTP server: nobody starts another attempt or another read after  *)
(* the signal.                                                              *)
ExitBounded == since <= ExitTime

(* Unless the process is killed, a signal ends it, and nothing waits on     *)
(* anything for ever.                                                       *)
SignalEnds == phase = "cancelled" ~> phase \in {"exited", "killed"}
=============================================================================
