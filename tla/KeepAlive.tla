----------------------------- MODULE KeepAlive ------------------------------
(***************************************************************************)
(* keepAlive, next to the run loop and the requests of ExchangeLoop: a      *)
(* successful Connect starts a goroutine that pings "the connection" every  *)
(* 20 or 30 s.  It looks h.conn up at every tick, so it is not tied to the  *)
(* connection it was started for, and nothing stops it but finding no       *)
(* connection at a tick, or a failed write.  A connection that is replaced  *)
(* between two ticks leaves its pinger to the new one, which starts another.*)
(*                                                                         *)
(* Pingers are the identities of the goroutines that exist at a time: the   *)
(* code has no bound for their number, and a Connect here waits while none  *)
(* is free.                                                                 *)
(***************************************************************************)
EXTENDS ExchangeLoop

CONSTANTS
  Pingers,  \* goroutines in keepAlive at a time
  Waiting,  \* the place of a pinger between two ticks
  Ended     \* its place when it has returned, or was not started

ASSUME PingerAssumption ==
  /\ Waiting # Ended
  /\ {Waiting, Ended} \cap Conns = {}

VARIABLE pinger   \* Waiting, Ended, or the copy of h.conn about to be pinged

keepAliveVars == <<vars, pinger>>

KeepAliveInit == Init /\ pinger = [p \in Pingers |-> Ended]

Goes(p, place) == pinger' = [pinger EXCEPT ![p] = place]

\* Mutant: no second pinger while one is running.
StartUnlessRunning ==
  IF (\E a \in Actors : WriteOk(a)) /\ \A p \in Pingers : pinger[p] = Ended
    THEN \E p \in Pingers : Goes(p, Waiting)
    ELSE UNCHANGED pinger

\* Connect starts a pinger once subscribe has returned without an error.
StartPinger ==
  IF \E a \in Actors : WriteOk(a)
    THEN \E p \in Pingers : pinger[p] = Ended /\ Goes(p, Waiting)
    ELSE UNCHANGED pinger

\* A pinger's copy of h.conn keeps the connection from being collected.
NotCollected == \A p \in Pingers : pinger[p] \in Conns => net'[pinger[p]] # "idle"

Along == StartPinger /\ NotCollected

\* Mutant: a pinger that finds no connection waits for the next tick.
TickForever(p) ==
  /\ pinger[p] = Waiting
  /\ mu = NoActor
  /\ Goes(p, IF connected /\ conn # NoConn THEN conn ELSE Waiting)
  /\ UNCHANGED vars

(* A tick: copy h.conn and status.Connected, return without a connection.   *)
Tick(p) ==
  /\ pinger[p] = Waiting
  /\ mu = NoActor
  /\ Goes(p, IF connected /\ conn # NoConn THEN conn ELSE Ended)
  /\ UNCHANGED vars

\* A lost connection may still accept the bytes.
PingOk(p) ==
  /\ pinger[p] \in Conns
  /\ net[pinger[p]] \in {"open", "dropped"}
  /\ Goes(p, Waiting)
  /\ UNCHANGED vars

\* The error is logged and the pinger returns.
PingFail(p) ==
  /\ pinger[p] \in Conns
  /\ net[pinger[p]] \in {"dropped", "closed"}
  /\ Goes(p, Ended)
  /\ UNCHANGED vars

Ping(p) == PingOk(p) \/ PingFail(p)

KeepAliveNext ==
  \/ Next /\ Along
  \/ \E p \in Pingers : Tick(p) \/ Ping(p)

KeepAliveSpec == KeepAliveInit /\ [][KeepAliveNext]_keepAliveVars

-----------------------------------------------------------------------------
(* Fairness.  Every pinger gets its ticks, its RLock (sync.RWMutex starves   *)
(* no waiter) and comes through its write; h.mu is not held for ever.        *)
PingerScheduling ==
  /\ \A p \in Pingers : SF_keepAliveVars(Tick(p)) /\ WF_keepAliveVars(Ping(p))
  /\ \A a \in Callers : WF_keepAliveVars(StoreSymbols(a) /\ UNCHANGED backoff /\ Along)

FairKeepAliveSpec == KeepAliveSpec /\ PingerScheduling

-----------------------------------------------------------------------------
(* A connection that is current, subscribed and not lost has a pinger that  *)
(* will ping it, although the pingers of earlier connections may be taken   *)
(* for its own, and may give up on an earlier connection at any time.       *)
KeptAlive ==
  conn # NoConn /\ Settled(conn) /\ net[conn] = "open" =>
    \E p \in Pingers : pinger[p] # Ended

(* No goroutine is left behind: when a handler is finally without a         *)
(* connection, every pinger it ever started returns, whichever connection   *)
(* it was started for and whatever it was about to ping.  (While there are  *)
(* connections, those of earlier ones stay: this does not bound them.)      *)
PingersEnd == <>[](conn = NoConn) => <>[](\A p \in Pingers : pinger[p] = Ended)
=============================================================================
