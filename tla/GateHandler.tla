----------------------------- MODULE GateHandler ----------------------------
(***************************************************************************)
(* internal/exchanges/gate.go under Manager.runExchange: the connection of  *)
(* ExchangeLoop, except that subscribe writes one message per symbol and    *)
(* looks h.conn up again before each.  args[a] is what remains to be        *)
(* written; the order of the list is left out, and so are request ids.      *)
(***************************************************************************)
EXTENDS ExchangeLoop

\* The head of the loop: nothing left, or the connection for the next symbol.
PickForSymbol(a) ==
  /\ pc[a] = "pick"
  /\ \/ /\ args[a] = {}
        /\ Goto(a, "connected")
        /\ Leave(a)
     \/ /\ args[a] # {}
        /\ mu = NoActor
        /\ sock' = [sock EXCEPT ![a] = conn]
        /\ Goto(a, IF conn = NoConn THEN "abort" ELSE "write")
        /\ UNCHANGED <<dialed, args>>
  /\ UNCHANGED <<ctxDone, mu, symbols, pending, conn, connected, net, subs>>

\* A lost connection may still accept the bytes.
WriteSymbol(a) ==
  /\ pc[a] = "write"
  /\ net[sock[a]] \in {"open", "dropped"}
  /\ \E s \in args[a] :
       /\ subs' = [subs EXCEPT ![sock[a]] = @ \cup {s}]
       /\ args' = [args EXCEPT ![a] = @ \ {s}]
  /\ Goto(a, "pick")
  /\ UNCHANGED <<ctxDone, mu, symbols, pending, conn, connected, net, dialed, sock>>

\* Mutant: a symbol that cannot be written is skipped.
SkipSymbol(a) ==
  /\ pc[a] = "write"
  /\ net[sock[a]] \in {"dropped", "closed"}
  /\ \E s \in args[a] : args' = [args EXCEPT ![a] = @ \ {s}]
  /\ Goto(a, "pick")
  /\ UNCHANGED <<ctxDone, mu, symbols, pending, conn, connected, net, subs, dialed, sock>>

\* The rest of the list is not written.
SymbolFail(a) == WriteFail(a)

GateConnectStep(a) ==
  \/ DialOk(a) \/ DialFail(a) \/ Install(a) \/ ReadSymbols(a)
  \/ PickForSymbol(a) \/ WriteSymbol(a) \/ SymbolFail(a) \/ Abort(a)

GateLoopStep ==
  \/ StopLoop \/ BeginConnect \/ SleepBackoff \/ StartReading \/ Disconnect
  \/ (GateConnectStep(Loop) \/ HandleMessagesStep(Loop)) /\ UNCHANGED backoff

GateCallerStep(a) ==
  /\ GateConnectStep(a) \/ StoreSymbols(a) \/ Reconnect(a) \/ ReturnToCaller(a)
  /\ UNCHANGED backoff

GateNext ==
  \/ GateLoopStep
  \/ \E a \in Callers : GateCallerStep(a) \/ Request(a)
  \/ Shutdown
  \/ Network

GateSpec == Init /\ [][GateNext]_vars
=============================================================================
