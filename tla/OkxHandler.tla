----------------------------- MODULE OkxHandler -----------------------------
(***************************************************************************)
(* The WebSocket handler of internal/exchanges/okx.go: the state OKXHandler *)
(* shares between goroutines, and the steps of its methods.  bitget.go and  *)
(* bybit.go have the same connection skeleton.                              *)
(*                                                                         *)
(* An actor is a goroutine that calls the handler: the run loop of          *)
(* Manager.runExchange, or one serving an HTTP request.  A method is cut    *)
(* where another goroutine can come between two accesses to shared state:   *)
(* one action per critical section of h.mu and per network call.  pc[a]     *)
(* says which step comes next; "connected" and "failed" are the two ways    *)
(* Connect returns.  Payloads, log lines and counters are left out.         *)
(***************************************************************************)
EXTENDS FiniteSets

CONSTANTS
  Actors,       \* goroutines calling the handler
  Conns,        \* identities of *websocket.Conn values
  Symbols,      \* symbols that may be listed
  InitSymbols,  \* config.Symbols at start
  NoConn,       \* nil
  NoActor       \* h.mu is free

ASSUME HandlerAssumption ==
  /\ InitSymbols \subseteq Symbols
  /\ NoConn \notin Conns
  /\ NoActor \notin Actors

VARIABLES
  ctxDone,    \* the context given to HandleMessages is cancelled
  mu,         \* who holds h.mu across the rewriting of config.Symbols
  symbols,    \* h.config.Symbols, as a set
  pending,    \* the list the holder of mu is about to store
  conn,       \* h.conn
  connected,  \* h.status.Connected
  net,        \* the socket behind each connection
  subs,       \* what was subscribed on each connection
  pc,         \* next step of each actor
  dialed,     \* Connect's local conn
  sock,       \* the copy of h.conn that subscribe or HandleMessages works on
  args        \* subscribe's argument list

handlerVars ==
  <<ctxDone, mu, symbols, pending, conn, connected, net, subs, pc, dialed, sock, args>>

\* "idle": not in use.  "open": established.  "dropped": lost, but not yet
\* closed on this side.  "closed": Close was called on it.
SocketStates == {"idle", "open", "dropped", "closed"}

\* Steps between the installation of a connection and the end of Connect.
Subscribing == {"args", "pick", "write", "abort"}

\* Steps between taking h.mu to change the list and closing the connection.
Updating == {"store", "reconnect"}

Goto(a, step) == pc' = [pc EXCEPT ![a] = step]

\* NewOKXHandler: no connection, the configured symbols.
HandlerInit(start) ==
  /\ ctxDone = FALSE
  /\ mu = NoActor
  /\ symbols = InitSymbols
  /\ pending = {}
  /\ conn = NoConn
  /\ connected = FALSE
  /\ net = [c \in Conns |-> "idle"]
  /\ subs = [c \in Conns |-> {}]
  /\ pc = start
  /\ dialed = [a \in Actors |-> NoConn]
  /\ sock = [a \in Actors |-> NoConn]
  /\ args = [a \in Actors |-> {}]

-----------------------------------------------------------------------------
\* Mutant: Close forgets h.conn = nil.
CloseKeepingConn ==
  /\ mu = NoActor
  /\ connected' = (connected /\ conn = NoConn)
  /\ net' = [c \in Conns |-> IF c = conn THEN "closed" ELSE net[c]]
  /\ UNCHANGED conn

(* Close: one critical section; a second Close finds nil and does nothing.  *)
Close ==
  /\ mu = NoActor
  /\ connected' = (connected /\ conn = NoConn)
  /\ net' = [c \in Conns |-> IF c = conn THEN "closed" ELSE net[c]]
  /\ conn' = NoConn

(* Connect, first half: dial without the lock, then install under it.  The  *)
(* connection h.conn held before is overwritten, not closed.                *)
DialOk(a) ==
  /\ pc[a] = "dial"
  /\ \E c \in Conns :
       /\ net[c] = "idle"
       /\ net' = [net EXCEPT ![c] = "open"]
       /\ subs' = [subs EXCEPT ![c] = {}]
       /\ dialed' = [dialed EXCEPT ![a] = c]
  /\ Goto(a, "install")
  /\ UNCHANGED <<ctxDone, mu, symbols, pending, conn, connected, sock, args>>

DialFail(a) ==
  /\ pc[a] = "dial"
  /\ Goto(a, "failed")
  /\ UNCHANGED <<ctxDone, mu, symbols, pending, conn, connected, net, subs, dialed, sock, args>>

Install(a) ==
  /\ pc[a] = "install"
  /\ mu = NoActor
  /\ conn' = dialed[a]
  /\ connected' = TRUE
  /\ Goto(a, "args")
  /\ UNCHANGED <<ctxDone, mu, symbols, pending, net, subs, dialed, sock, args>>

(* subscribe ranges over config.Symbols without the lock.  A read that      *)
(* overlaps the store of another list may pair the pointer of one slice     *)
(* header with the length of the other: the old list cut to the length of   *)
(* the new one, or a list with one more string that names no symbol and so  *)
(* subscribes nothing (left out).                                           *)
TornReads(old, new) ==
  {old, new} \cup {part \in SUBSET old : Cardinality(part) = Cardinality(new)}

ReadSymbols(a) ==
  /\ pc[a] = "args"
  /\ \E list \in IF mu = NoActor THEN {symbols} ELSE TornReads(symbols, pending) :
       args' = [args EXCEPT ![a] = list]
  /\ Goto(a, "pick")
  /\ UNCHANGED <<ctxDone, mu, symbols, pending, conn, connected, net, subs, dialed, sock>>

(* It then copies whatever h.conn is by now, which need not be the          *)
(* connection this Connect installed.                                       *)
PickConn(a) ==
  /\ pc[a] = "pick"
  /\ mu = NoActor
  /\ sock' = [sock EXCEPT ![a] = conn]
  /\ Goto(a, IF conn = NoConn THEN "abort" ELSE "write")
  /\ UNCHANGED <<ctxDone, mu, symbols, pending, conn, connected, net, subs, dialed, args>>

Leave(a) ==
  /\ dialed' = [dialed EXCEPT ![a] = NoConn]
  /\ sock' = [sock EXCEPT ![a] = NoConn]
  /\ args' = [args EXCEPT ![a] = {}]

\* A lost connection may still accept the bytes.
WriteOk(a) ==
  /\ pc[a] = "write"
  /\ net[sock[a]] \in {"open", "dropped"}
  /\ subs' = [subs EXCEPT ![sock[a]] = @ \cup args[a]]
  /\ Goto(a, "connected")
  /\ Leave(a)
  /\ UNCHANGED <<ctxDone, mu, symbols, pending, conn, connected, net>>

WriteFail(a) ==
  /\ pc[a] = "write"
  /\ net[sock[a]] \in {"dropped", "closed"}
  /\ Goto(a, "abort")
  /\ UNCHANGED <<ctxDone, mu, symbols, pending, conn, connected, net, subs, dialed, sock, args>>

(* Connect gives up: it closes the current connection, whoever installed it. *)
Abort(a) ==
  /\ pc[a] = "abort"
  /\ Close
  /\ Goto(a, "failed")
  /\ Leave(a)
  /\ UNCHANGED <<ctxDone, mu, symbols, pending, subs>>

ConnectStep(a) ==
  \/ DialOk(a) \/ DialFail(a) \/ Install(a) \/ ReadSymbols(a)
  \/ PickConn(a) \/ WriteOk(a) \/ WriteFail(a) \/ Abort(a)

-----------------------------------------------------------------------------
\* Mutant: the context is not looked at.
ReadNextIgnoringContext(a) ==
  /\ pc[a] = "read"
  /\ mu = NoActor
  /\ sock' = [sock EXCEPT ![a] = conn]
  /\ Goto(a, IF conn = NoConn THEN "disconnected" ELSE "recv")
  /\ UNCHANGED <<ctxDone, mu, symbols, pending, conn, connected, net, subs, dialed, args>>

\* Mutant: h.conn is copied for the first read only.
ReadNextOnSameConn(a) ==
  /\ pc[a] = "read"
  /\ mu = NoActor
  /\ IF ctxDone
       THEN Goto(a, "disconnected") /\ UNCHANGED sock
       ELSE /\ sock' = [sock EXCEPT ![a] = IF @ = NoConn THEN conn ELSE @]
            /\ Goto(a, IF sock'[a] = NoConn THEN "disconnected" ELSE "recv")
  /\ UNCHANGED <<ctxDone, mu, symbols, pending, conn, connected, net, subs, dialed, args>>

(* HandleMessages: the context and then h.conn are looked at again before   *)
(* every read.                                                              *)
ReadNext(a) ==
  /\ pc[a] = "read"
  /\ \/ /\ ctxDone
        /\ sock' = [sock EXCEPT ![a] = NoConn]
        /\ Goto(a, "disconnected")
     \/ /\ ~ctxDone
        /\ mu = NoActor
        /\ sock' = [sock EXCEPT ![a] = conn]
        /\ Goto(a, IF conn = NoConn THEN "disconnected" ELSE "recv")
  /\ UNCHANGED <<ctxDone, mu, symbols, pending, conn, connected, net, subs, dialed, args>>

\* A message arrives and is processed.
Receive(a) ==
  /\ pc[a] = "recv"
  /\ net[sock[a]] = "open"
  /\ Goto(a, "read")
  /\ UNCHANGED <<ctxDone, mu, symbols, pending, conn, connected, net, subs, dialed, sock, args>>

\* ReadMessage fails: the socket is closed or lost, or it is open and silent
\* until the deadline.
ReadError(a) ==
  /\ pc[a] = "recv"
  /\ Goto(a, "disconnected")
  /\ sock' = [sock EXCEPT ![a] = NoConn]
  /\ UNCHANGED <<ctxDone, mu, symbols, pending, conn, connected, net, subs, dialed, args>>

HandleMessagesStep(a) == ReadNext(a) \/ Receive(a) \/ ReadError(a)

-----------------------------------------------------------------------------
(* Subscribe and Unsubscribe: the new list is computed and stored under     *)
(* h.mu, then reconnect closes, sleeps 500 ms and dials.  The calls that    *)
(* return early (symbol already listed, symbol not listed) change nothing.  *)
BeginUpdate(a, list) ==
  /\ pc[a] = "idle"
  /\ mu = NoActor
  /\ mu' = a
  /\ pending' = list
  /\ Goto(a, "store")
  /\ UNCHANGED <<ctxDone, symbols, conn, connected, net, subs, dialed, sock, args>>

Subscribe(a, s) == s \notin symbols /\ BeginUpdate(a, symbols \cup {s})

Unsubscribe(a, s) == s \in symbols /\ BeginUpdate(a, symbols \ {s})

StoreSymbols(a) ==
  /\ pc[a] = "store"
  /\ symbols' = pending
  /\ pending' = {}
  /\ mu' = NoActor
  /\ Goto(a, "reconnect")
  /\ UNCHANGED <<ctxDone, conn, connected, net, subs, dialed, sock, args>>

\* Mutant: reconnect does not close.
ReconnectWithoutClose(a) ==
  /\ pc[a] = "reconnect"
  /\ Goto(a, "dial")
  /\ UNCHANGED <<ctxDone, mu, symbols, pending, conn, connected, net, subs, dialed, sock, args>>

Reconnect(a) ==
  /\ pc[a] = "reconnect"
  /\ Close
  /\ Goto(a, "dial")
  /\ UNCHANGED <<ctxDone, mu, symbols, pending, subs, dialed, sock, args>>

\* The outcome of the reconnection is only logged.
ReturnToCaller(a) ==
  /\ pc[a] \in {"connected", "failed"}
  /\ Goto(a, "idle")
  /\ UNCHANGED <<ctxDone, mu, symbols, pending, conn, connected, net, subs, dialed, sock, args>>

-----------------------------------------------------------------------------
(* The network loses a connection.                                          *)
PeerDrop(c) ==
  /\ net[c] = "open"
  /\ net' = [net EXCEPT ![c] = "dropped"]
  /\ UNCHANGED <<ctxDone, mu, symbols, pending, conn, connected, subs, pc, dialed, sock, args>>

(* A connection no goroutine can reach any more: the garbage collector's    *)
(* finalizer releases the socket, and its identity may be used again.       *)
Collect(c) ==
  /\ net[c] # "idle"
  /\ conn # c
  /\ \A a \in Actors : dialed[a] # c /\ sock[a] # c
  /\ net' = [net EXCEPT ![c] = "idle"]
  /\ UNCHANGED <<ctxDone, mu, symbols, pending, conn, connected, subs, pc, dialed, sock, args>>
=============================================================================
