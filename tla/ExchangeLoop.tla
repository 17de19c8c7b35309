---------------------------- MODULE ExchangeLoop ----------------------------
(***************************************************************************)
(* One exchange at work: Manager.runExchange (internal/exchanges/           *)
(* manager.go) drives the handler of OkxHandler in its goroutine Loop while *)
(* the goroutines Callers carry HTTP requests into Subscribe and            *)
(* Unsubscribe of the same handler, the network loses connections, and main *)
(* may cancel the context.                                                  *)
(***************************************************************************)
EXTENDS Naturals, OkxHandler

CONSTANTS
  Loop,        \* the goroutine of runExchange
  Callers,     \* HTTP goroutines
  MaxBackoff   \* maxBackoff, in units of the initial backoff

ASSUME LoopAssumption ==
  /\ Actors = {Loop} \cup Callers
  /\ Loop \notin Callers
  /\ MaxBackoff \in Nat \ {0}

VARIABLE backoff   \* the local variable of runExchange

vars == <<handlerVars, backoff>>

Init ==
  /\ HandlerInit([a \in Actors |-> IF a = Loop THEN "top" ELSE "idle"])
  /\ backoff = 1

-----------------------------------------------------------------------------
\* ctx.Done: close the handler and leave the loop.
StopLoop ==
  /\ pc[Loop] = "top"
  /\ ctxDone
  /\ Close
  /\ Goto(Loop, "stopped")
  /\ UNCHANGED <<ctxDone, mu, symbols, pending, subs, dialed, sock, args, backoff>>

BeginConnect ==
  /\ pc[Loop] = "top"
  /\ ~ctxDone
  /\ Goto(Loop, "dial")
  /\ UNCHANGED <<ctxDone, mu, symbols, pending, conn, connected, net, subs, dialed, sock, args, backoff>>

\* Mutants: no cap; giving up on the first error.
SleepBackoffUncapped ==
  /\ pc[Loop] = "failed"
  /\ backoff' = 2 * backoff
  /\ Goto(Loop, "top")
  /\ UNCHANGED <<ctxDone, mu, symbols, pending, conn, connected, net, subs, dialed, sock, args>>

GiveUp ==
  /\ pc[Loop] = "failed"
  /\ Goto(Loop, "stopped")
  /\ UNCHANGED <<ctxDone, mu, symbols, pending, conn, connected, net, subs, dialed, sock, args, backoff>>

\* Connect failed: sleep, double the delay, try again.
SleepBackoff ==
  /\ pc[Loop] = "failed"
  /\ backoff' = IF 2 * backoff > MaxBackoff THEN MaxBackoff ELSE 2 * backoff
  /\ Goto(Loop, "top")
  /\ UNCHANGED <<ctxDone, mu, symbols, pending, conn, connected, net, subs, dialed, sock, args>>

\* Connect succeeded: reset the delay, set the callback, start reading.
StartReading ==
  /\ pc[Loop] = "connected"
  /\ backoff' = 1
  /\ Goto(Loop, "read")
  /\ UNCHANGED <<ctxDone, mu, symbols, pending, conn, connected, net, subs, dialed, sock, args>>

\* HandleMessages returned: close, and start over without a delay.
Disconnect ==
  /\ pc[Loop] = "disconnected"
  /\ Close
  /\ Goto(Loop, "top")
  /\ UNCHANGED <<ctxDone, mu, symbols, pending, subs, dialed, sock, args, backoff>>

HandlerStep == ConnectStep(Loop) \/ HandleMessagesStep(Loop)

LoopStep ==
  \/ StopLoop \/ BeginConnect \/ SleepBackoff \/ StartReading \/ Disconnect
  \/ HandlerStep /\ UNCHANGED backoff

CallerStep(a) ==
  /\ ConnectStep(a) \/ StoreSymbols(a) \/ Reconnect(a) \/ ReturnToCaller(a)
  /\ UNCHANGED backoff

Request(a) ==
  /\ \E s \in Symbols : Subscribe(a, s) \/ Unsubscribe(a, s)
  /\ UNCHANGED backoff

Shutdown ==
  /\ ~ctxDone
  /\ ctxDone' = TRUE
  /\ UNCHANGED <<mu, symbols, pending, conn, connected, net, subs, pc, dialed, sock, args, backoff>>

Network ==
  /\ \E c \in Conns : PeerDrop(c) \/ Collect(c)
  /\ UNCHANGED backoff

Next ==
  \/ LoopStep
  \/ \E a \in Callers : CallerStep(a) \/ Request(a)
  \/ Shutdown
  \/ Network

Spec == Init /\ [][Next]_vars

-----------------------------------------------------------------------------
(* Fairness.  Go schedules every runnable goroutine, sync.RWMutex starves   *)
(* no waiter, the read deadline bounds ReadMessage and every sleep is       *)
(* finite: strong fairness for the loop and for a request already in the    *)
(* handler.  No request has to arrive, no shutdown has to happen.           *)
Scheduling ==
  /\ SF_vars(LoopStep)
  /\ \A a \in Callers : SF_vars(CallerStep(a))

(* The environment the recovery property needs: the exchange does not       *)
(* refuse every dial forever, and unreachable sockets are collected.        *)
ExchangeReachable ==
  /\ SF_vars(DialOk(Loop) /\ UNCHANGED backoff)
  /\ \A c \in Conns : WF_vars(Collect(c) /\ UNCHANGED backoff)

FairSpec == Spec /\ Scheduling

ReachableSpec == FairSpec /\ ExchangeReachable

-----------------------------------------------------------------------------
LoopSteps ==
  {"top", "dial", "install", "args", "pick", "write", "abort", "connected",
   "failed", "read", "recv", "disconnected", "stopped"}

CallerSteps ==
  {"idle", "store", "reconnect", "dial", "install", "args", "pick", "write",
   "abort", "connected", "failed"}

(* Every variable holds a value of its type; only a caller in the middle of *)
(* rewriting the list holds h.mu between two steps.                         *)
TypeOK ==
  /\ ctxDone \in BOOLEAN
  /\ mu \in Callers \cup {NoActor}
  /\ symbols \in SUBSET Symbols
  /\ pending \in SUBSET Symbols
  /\ conn \in Conns \cup {NoConn}
  /\ connected \in BOOLEAN
  /\ net \in [Conns -> SocketStates]
  /\ subs \in [Conns -> SUBSET Symbols]
  /\ pc \in [Actors -> LoopSteps \cup CallerSteps]
  /\ pc[Loop] \in LoopSteps
  /\ \A a \in Callers : pc[a] \in CallerSteps
  /\ dialed \in [Actors -> Conns \cup {NoConn}]
  /\ sock \in [Actors -> Conns \cup {NoConn}]
  /\ args \in [Actors -> SUBSET Symbols]
  /\ backoff \in 1..MaxBackoff

Settled(c) == \A a \in Actors : dialed[a] = c => pc[a] \notin Subscribing

NoUpdate == \A a \in Actors : pc[a] \notin Updating

(* Once the Connect that installed the current connection is past its       *)
(* subscribe, and no Subscribe or Unsubscribe is between changing the list   *)
(* and closing the connection, everything on the list has been subscribed   *)
(* on the current connection, however Connects, Closes and unlocked reads   *)
(* of the list interleave.                                                  *)
CurrentConnSubscribed ==
  conn # NoConn /\ Settled(conn) /\ NoUpdate => symbols \subseteq subs[conn]

(* The handler never keeps, and never installs, a connection it has closed, *)
(* and it reports Connected exactly while it holds one.                     *)
CurrentConnNotClosed ==
  /\ connected <=> conn # NoConn
  /\ conn # NoConn => net[conn] \in {"open", "dropped"}

Unclosed == {c \in Conns : net[c] \in {"open", "dropped"}}

(* "reconnect closes current connection and establishes a new one": a        *)
(* connection that is not closed is the current one, or was just dialed by   *)
(* a Connect that is about to install it; none was replaced and left open.   *)
ReplacedIsClosed ==
  \A c \in Unclosed :
    c = conn \/ \E a \in Actors : dialed[a] = c /\ pc[a] = "install"

(* The handler has at most one connection that it has not closed.           *)
SingleConnection == Cardinality(Unclosed) <= 1

(* When runExchange has stopped, and so Manager.Wait returns, no connection *)
(* of this exchange is left unclosed.                                       *)
StoppedIsClosed == pc[Loop] = "stopped" => Unclosed = {}

\* The steps runExchange can still take before it stops, once the context is
\* cancelled: at most those of a Connect, of one read, and of the way back.
StepsToStop(step) ==
  CASE step = "dial" -> 9
    [] step = "install" -> 8
    [] step = "args" -> 7
    [] step = "pick" -> 6
    [] step = "write" -> 5
    [] step \in {"connected", "recv"} -> 4
    [] step \in {"abort", "read"} -> 3
    [] step \in {"failed", "disconnected"} -> 2
    [] step = "top" -> 1
    [] step = "stopped" -> 0

(* Once the context is cancelled every step runExchange takes brings it      *)
(* nearer to its end: no error, retry or reconnection by a request makes it  *)
(* start a Connect or wait for a message again.                              *)
LoopEnds ==
  [][ctxDone /\ pc'[Loop] # pc[Loop] => StepsToStop(pc'[Loop]) < StepsToStop(pc[Loop])]_vars

(* A cancelled context stops runExchange, wherever it was.                  *)
LoopStops == ctxDone ~> (pc[Loop] = "stopped")

(* The run loop does not read a superseded connection forever: it comes to  *)
(* read the current connection, or that is replaced or closed, or the loop  *)
(* has stopped.                                                             *)
ReaderFollows ==
  \A c \in Conns :
    (conn = c) ~>
      (conn # c \/ (pc[Loop] = "recv" /\ sock[Loop] = c) \/ pc[Loop] = "stopped")

(* Automatic reconnection: while the service is up, a handler without a     *)
(* connection gets one again.                                               *)
Recovers == (conn = NoConn) ~> (conn # NoConn \/ ctxDone)
=============================================================================
