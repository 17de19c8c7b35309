--------------------------- MODULE Service_proofs ---------------------------
(***************************************************************************)
(* Service for every number of exchanges and requests and every timeout.    *)
(* Inductive for ExitBounded is a budget: after the signal, the time that   *)
(* has passed and the time the present activity may still take, with what   *)
(* must follow it (a backoff sleep after a dial, the storing of the tickers  *)
(* of a message after a read), stay within ExitTime.                         *)
(***************************************************************************)
EXTENDS Service, TLAPS

Places == {"top", "dial", "sleep", "check", "read", "publish", "stopped"}

TypeOK ==
  /\ phase \in {"serving", "cancelled", "draining", "waiting", "exited", "killed"}
  /\ drainLeft \in Nat
  /\ cutOff \in BOOLEAN
  /\ storOpen \in BOOLEAN
  /\ at \in [Exchanges -> Places]
  /\ left \in [Exchanges -> Nat]
  /\ batch \in [Exchanges -> 0..MaxTickers]
  /\ request \subseteq Requests
  /\ since \in Nat

\* main closes the storage when it has waited for the loops.
Order ==
  /\ storOpen <=> phase # "exited"
  /\ phase = "exited" => \A e \in Exchanges : at[e] = "stopped"
  /\ phase \in {"waiting", "exited"} => request = {} \/ cutOff

\* What must still follow a stay at a place, with more tickers to be stored.
Rest(place, more) ==
  CASE place = "dial" -> MaxBackoff
    [] place = "read" -> MaxTickers * StoreTime
    [] place = "publish" -> more * StoreTime
    [] OTHER -> 0

Limit(place) ==
  CASE place = "dial" -> DialTime
    [] place = "sleep" -> MaxBackoff
    [] place = "read" -> ReadTime
    [] place = "publish" -> StoreTime
    [] OTHER -> 0

Budget ==
  /\ \A e \in Exchanges : left[e] <= Limit(at[e])
  /\ \A e \in Exchanges : at[e] = "publish" => batch[e] < MaxTickers
  /\ ~ctxDone => since = 0
  /\ phase = "cancelled" => since = 0
  /\ phase \notin {"serving", "killed"} => \A e \in Exchanges :
       at[e] # "stopped" => since + left[e] + Rest(at[e], batch[e]) <= ExitTime
  /\ phase = "draining" => since + drainLeft <= ExitTime
  /\ since <= ExitTime

IInv == TypeOK /\ Order /\ Budget

-----------------------------------------------------------------------------

(* Storing n tickers takes a natural number of units, one ticker at a time.  *)
LEMMA StoringTime ==
  ASSUME NEW n \in Nat
  PROVE  /\ n * StoreTime \in Nat
         /\ (n + 1) * StoreTime = n * StoreTime + StoreTime
         /\ \A m \in 0..n : m * StoreTime <= n * StoreTime
         /\ n > 0 => /\ (n - 1) * StoreTime \in Nat
                     /\ n * StoreTime = (n - 1) * StoreTime + StoreTime
<1> StoreTime \in Nat
  BY ServiceAssumption DEF Times
<1>1. n * StoreTime \in Nat /\ (n + 1) * StoreTime = n * StoreTime + StoreTime
  OBVIOUS
<1>2. ASSUME NEW m \in 0..n
      PROVE  m * StoreTime <= n * StoreTime
  OBVIOUS
<1>3. ASSUME n > 0
      PROVE  /\ (n - 1) * StoreTime \in Nat
             /\ n * StoreTime = (n - 1) * StoreTime + StoreTime
  <2>1. n - 1 \in Nat
    BY <1>3
  <2>2. n * StoreTime = (n - 1) * StoreTime + StoreTime
    OBVIOUS
  <2>3. QED
    BY <2>1, <2>2
<1>4. QED
  BY <1>1, <1>2, <1>3

(* What the definition of ExitTime bounds.                                  *)
LEMMA ExitTimeFacts ==
  /\ ExitTime \in Nat
  /\ ExitTime >= DrainTime
  /\ ExitTime >= DialTime + MaxBackoff
  /\ ExitTime >= ReadTime + MaxTickers * StoreTime
<1> DEFINE storing == MaxTickers * StoreTime
           bounds == {DrainTime, DialTime + MaxBackoff, ReadTime + storing}
<1>1. storing \in Nat
  BY StoringTime, ServiceAssumption
<1> HIDE DEF storing
<1>2. \E t \in bounds : t >= DrainTime /\ t >= DialTime + MaxBackoff /\ t >= ReadTime + storing
  BY <1>1, ServiceAssumption DEF Times
<1>3. /\ ExitTime \in bounds
      /\ ExitTime >= DrainTime
      /\ ExitTime >= DialTime + MaxBackoff
      /\ ExitTime >= ReadTime + storing
  BY <1>2 DEF ExitTime, storing
<1>4. ExitTime \in Nat
  BY <1>1, <1>3, ServiceAssumption DEF Times
<1>5. QED
  BY <1>3, <1>4 DEF storing

(* The time that follows a stay at a place.                                 *)
LEMMA RestFacts ==
  ASSUME NEW place \in Places, NEW more \in 0..MaxTickers
  PROVE  Limit(place) \in Nat /\ Rest(place, more) \in Nat
<1>1. MaxTickers * StoreTime \in Nat /\ more * StoreTime \in Nat
  BY StoringTime, ServiceAssumption
<1>2. QED
  BY <1>1, ServiceAssumption DEF Times, Limit, Rest, Places

(* The time at a place and the rest of the way out fit in ExitTime.         *)
LEMMA LimitFits ==
  ASSUME NEW place \in Places, NEW more \in 0..MaxTickers,
         place = "publish" => more < MaxTickers
  PROVE  Limit(place) + Rest(place, more) <= ExitTime
<1> USE ServiceAssumption, ExitTimeFacts DEF Times, Limit, Rest
<1>1. CASE place \in {"dial", "sleep", "top", "check", "stopped"}
  BY <1>1
<1>2. CASE place = "read"
  BY <1>2
<1>3. CASE place = "publish"
  <2> DEFINE last == more * StoreTime
             storing == MaxTickers * StoreTime
  <2> HIDE DEF Times, Limit, Rest
  <2>0. more \in Nat /\ more + 1 \in 0..MaxTickers /\ MaxTickers \in Nat
    BY <1>3
  <2>1. last \in Nat /\ storing \in Nat /\ (more + 1) * StoreTime = last + StoreTime
    BY <2>0, StoringTime
  <2>2. (more + 1) * StoreTime <= storing
    BY <2>0, StoringTime
  <2> USE DEF Limit, Rest
  <2>3. ExitTime >= ReadTime + storing /\ Limit(place) + Rest(place, more) = StoreTime + last
    BY <1>3
  <2> HIDE DEF last, storing
  <2>4. last + StoreTime <= storing
    BY <2>1, <2>2
  <2>5. QED
    BY <2>1, <2>3, <2>4 DEF Times
<1>4. QED
  BY <1>1, <1>2, <1>3 DEF Places

\* A run loop moves, with more tickers to store at its new place.
Moves(e, place, time, more) ==
  /\ Alive
  /\ at' = [at EXCEPT ![e] = place]
  /\ left' = [left EXCEPT ![e] = time]
  /\ batch' = [batch EXCEPT ![e] = more]
  /\ UNCHANGED <<mainVars, requestVars, since>>

(* The two forms of a step of a run loop.                                    *)
LEMMA TwoMoves ==
  ASSUME IInv, NEW e \in Exchanges
  PROVE  /\ \A place, time : LoopGoto(e, place, time) => Moves(e, place, time, batch[e])
         /\ \A more : LoopStore(e, more) => Moves(e, "publish", StoreTime, more)
<1>1. batch = [batch EXCEPT ![e] = batch[e]]
  BY DEF IInv, TypeOK
<1>2. QED
  BY <1>1 DEF LoopGoto, LoopStore, Moves

(* A run loop that moves stays within its budget if the new place does.      *)
LEMMA LoopMoves ==
  ASSUME IInv, NEW e \in Exchanges, NEW place \in Places, NEW time \in Nat,
         NEW more \in 0..MaxTickers,
         Moves(e, place, time, more),
         at[e] # "stopped",
         time <= Limit(place),
         place = "publish" => more < MaxTickers,
         ctxDone => time + Rest(place, more) <= left[e] + Rest(at[e], batch[e])
  PROVE  IInv'
<1> USE DEF IInv, TypeOK, Moves, mainVars, requestVars
<1>1. TypeOK'
  OBVIOUS
<1>2. Order'
  BY DEF Order, Alive
<1>3. /\ Limit(place) \in Nat /\ Rest(place, more) \in Nat
      /\ Rest(at[e], batch[e]) \in Nat /\ ExitTime \in Nat
  BY RestFacts, ExitTimeFacts
<1>4. \A x \in Exchanges : at'[x] = (IF x = e THEN place ELSE at[x])
                        /\ left'[x] = (IF x = e THEN time ELSE left[x])
                        /\ batch'[x] = (IF x = e THEN more ELSE batch[x])
  OBVIOUS
<1>5. \A x \in Exchanges :
        left'[x] <= Limit(at'[x]) /\ (at'[x] = "publish" => batch'[x] < MaxTickers)
  BY <1>4 DEF Budget
<1>6. ASSUME phase' \notin {"serving", "killed"}, NEW x \in Exchanges, at'[x] # "stopped"
      PROVE  since' + left'[x] + Rest(at'[x], batch'[x]) <= ExitTime
  <2>1. ctxDone /\ phase \notin {"serving", "killed"}
    BY <1>6 DEF ctxDone
  <2>3. since + left[e] + Rest(at[e], batch[e]) <= ExitTime
    BY <2>1 DEF Budget
  <2>4. CASE x = e
    <3>1. time + Rest(place, more) <= left[e] + Rest(at[e], batch[e])
      BY <2>1
    <3>2. since' + left'[x] + Rest(at'[x], batch'[x]) = since + time + Rest(place, more)
      BY <2>4, <1>4
    <3>3. since \in Nat /\ left[e] \in Nat
      OBVIOUS
    <3>4. QED
      BY <3>1, <3>2, <3>3, <2>3, <1>3
  <2>5. CASE x # e
    BY <2>5, <2>1, <1>4, <1>6 DEF Budget
  <2>6. QED
    BY <2>4, <2>5
<1>7. Budget'
  BY <1>5, <1>6 DEF Budget, ctxDone
<1>8. QED
  BY <1>1, <1>2, <1>7

(* Every step of a reconnection loop keeps the budget of its exit.         *)
LEMMA LoopStepKeeps ==
  ASSUME IInv, NEW e \in Exchanges, LoopStep(e)
  PROVE  IInv'
<1> USE ServiceAssumption DEF Times
<1>1. /\ left[e] \in Nat /\ at[e] \in Places /\ batch[e] \in 0..MaxTickers
      /\ Rest(at[e], batch[e]) \in Nat
  BY RestFacts DEF IInv, TypeOK
<1>2. CASE Top(e) \/ Check(e)
  <2>1. at[e] \in {"top", "check"}
    BY <1>2 DEF Top, Check
  <2>2. CASE ctxDone
    <3>1. PICK place \in {"stopped", "top"} : LoopGoto(e, place, 0)
      BY <1>2, <2>2 DEF Top, Check
    <3>2. Limit(place) = 0 /\ Rest(place, batch[e]) = 0 /\ place \in Places
      BY DEF Limit, Rest, Places
    <3>3. QED
      BY <1>1, <2>1, <3>1, <3>2, TwoMoves, LoopMoves
  <2>3. CASE ~ctxDone
    <3>1. PICK place \in {"dial", "read"} : LoopGoto(e, place, Limit(place))
      BY <1>2, <2>3 DEF Top, Check, Limit
    <3>2. Limit(place) \in Nat /\ place \in Places
      BY DEF Limit, Places
    <3>3. QED
      BY <1>1, <2>1, <2>3, <3>1, <3>2, TwoMoves, LoopMoves
  <2>4. QED
    BY <2>2, <2>3
<1>3. ASSUME at[e] # "stopped", LoopGoto(e, "check", 0) \/ LoopGoto(e, "top", 0)
      PROVE  IInv'
  <2>1. PICK place \in {"check", "top"} : LoopGoto(e, place, 0)
    BY <1>3
  <2>2. place \in Places /\ Limit(place) = 0 /\ Rest(place, batch[e]) = 0
    BY DEF Places, Limit, Rest
  <2>3. QED
    BY <1>1, <1>3, <2>1, <2>2, TwoMoves, LoopMoves
<1>4. CASE Connected(e) \/ Awake(e) \/ ReadFailed(e)
  BY <1>3, <1>4 DEF Connected, Awake, ReadFailed
<1>5. CASE ConnectFailed(e)
  <2>1. PICK backoff \in 1..MaxBackoff : LoopGoto(e, "sleep", backoff)
    BY <1>5 DEF ConnectFailed
  <2>2. at[e] = "dial" /\ "sleep" \in Places /\ backoff \in Nat /\ backoff <= MaxBackoff
    BY <1>5 DEF ConnectFailed, Places
  <2>3. Rest("sleep", batch[e]) = 0 /\ Limit("sleep") = MaxBackoff
          /\ Rest(at[e], batch[e]) = MaxBackoff
    BY <2>2 DEF Rest, Limit
  <2>4. backoff + 0 <= left[e] + MaxBackoff
    BY <1>1, <2>2
  <2>5. QED
    BY <1>1, <2>1, <2>2, <2>3, <2>4, TwoMoves, LoopMoves
<1>6. ASSUME NEW n \in 1..MaxTickers, LoopStore(e, n - 1), at[e] # "stopped",
             n * StoreTime <= Rest(at[e], batch[e])
      PROVE  IInv'
  <2> DEFINE more == n - 1
             last == more * StoreTime
  <2>1. more \in 0..MaxTickers /\ more < MaxTickers /\ n \in Nat /\ n > 0
    OBVIOUS
  <2>2. last \in Nat /\ n * StoreTime = last + StoreTime
    BY <2>1, StoringTime
  <2>3. Rest("publish", more) = last /\ Limit("publish") = StoreTime
          /\ "publish" \in Places
    BY DEF Rest, Limit, Places
  <2> HIDE DEF last
  <2>4. StoreTime + last <= left[e] + Rest(at[e], batch[e])
    BY <1>1, <1>6, <2>2
  <2>5. Moves(e, "publish", StoreTime, more)
    BY <1>6, TwoMoves
  <2> HIDE DEF more
  <2>6. QED
    BY <1>6, <2>1, <2>3, <2>4, <2>5, LoopMoves
<1>7. CASE Message(e)
  <2>1. at[e] = "read" /\ Rest(at[e], batch[e]) = MaxTickers * StoreTime
    BY <1>7 DEF Message, Rest
  <2>2. CASE LoopGoto(e, "check", 0)
    BY <1>3, <2>1, <2>2
  <2>3. ASSUME NEW n \in 1..MaxTickers, LoopStore(e, n - 1)
        PROVE  IInv'
    BY <1>6, <2>1, <2>3, StoringTime
  <2>4. QED
    BY <1>7, <2>2, <2>3 DEF Message
<1>8. CASE Published(e)
  <2>1. at[e] = "publish" /\ Rest(at[e], batch[e]) = batch[e] * StoreTime
    BY <1>8 DEF Published, Rest
  <2>2. CASE batch[e] > 0
    <3>1. LoopStore(e, batch[e] - 1) /\ batch[e] \in 1..MaxTickers
      BY <1>1, <1>8, <2>2 DEF Published
    <3>2. batch[e] * StoreTime <= Rest(at[e], batch[e])
      BY <1>1, <2>1
    <3>3. QED
      BY <1>6, <2>1, <3>1, <3>2
  <2>3. CASE ~(batch[e] > 0)
    BY <1>3, <1>8, <2>1, <2>3 DEF Published
  <2>4. QED
    BY <2>2, <2>3
<1>9. QED
  BY <1>2, <1>4, <1>5, <1>7, <1>8 DEF LoopStep

(* Requests touch neither the loops nor main.                              *)
LEMMA RequestKeeps ==
  ASSUME IInv, NEW r \in Requests, Arrive(r) \/ Finish(r)
  PROVE  IInv'
BY DEF IInv, TypeOK, Order, Budget, Arrive, Finish, Listening, mainVars, loopVars, ctxDone

(* The signal opens the budget, the shutdown steps keep their order.       *)
LEMMA MainKeeps ==
  ASSUME IInv, Signal \/ MainStep \/ ListenFail
  PROVE  IInv'
<1> USE DEF IInv, TypeOK, loopVars, requestVars
<1>1. CASE Signal
  <2>1. TypeOK' /\ Order'
    BY <1>1 DEF Signal, Order
  <2>2. ASSUME NEW e \in Exchanges
        PROVE  /\ left[e] \in Nat /\ Rest(at[e], batch[e]) \in Nat
               /\ left[e] + Rest(at[e], batch[e]) <= ExitTime
    <3>1. /\ left[e] \in Nat /\ left[e] <= Limit(at[e]) /\ at[e] \in Places
          /\ batch[e] \in 0..MaxTickers
          /\ at[e] = "publish" => batch[e] < MaxTickers
      BY DEF Budget
    <3>2. Limit(at[e]) \in Nat /\ Rest(at[e], batch[e]) \in Nat
      BY <3>1, RestFacts
    <3>3. Limit(at[e]) + Rest(at[e], batch[e]) <= ExitTime
      BY <3>1, LimitFits
    <3>4. QED
      BY <3>1, <3>2, <3>3, ExitTimeFacts
  <2>3. since = 0
    BY <1>1 DEF Signal, Budget, ctxDone
  <2>4. Budget'
    <3>1. since' = 0 /\ UNCHANGED <<left, at, batch>> /\ phase' = "cancelled"
      BY <1>1, <2>3 DEF Signal
    <3>2. QED
      BY <2>2, <2>3, <3>1, ExitTimeFacts DEF Budget, ctxDone
  <2>5. QED
    BY <2>1, <2>4
<1>2. CASE Drain
  BY <1>2, ServiceAssumption, ExitTimeFacts DEF Drain, Times, Order, Budget, ctxDone
<1>3. CASE Drained
  BY <1>3 DEF Drained, Order, Budget, ctxDone
<1>4. CASE DrainTimeout
  BY <1>4 DEF DrainTimeout, Order, Budget, ctxDone
<1>5. CASE Exit
  BY <1>5 DEF Exit, Order, Budget, ctxDone
<1>6. CASE ListenFail
  <2>1. TypeOK' /\ Order'
    BY <1>6 DEF ListenFail, Listening, Order
  <2>2. QED
    BY <1>6, <2>1 DEF ListenFail, Budget, ctxDone
<1>7. QED
  BY <1>1, <1>2, <1>3, <1>4, <1>5, <1>6 DEF MainStep

(* Time only passes while somebody still has some: it is taken from every    *)
(* budget.                                                                   *)
LEMMA TickKeeps ==
  ASSUME IInv, Tick
  PROVE  IInv'
<1> USE ExitTimeFacts DEF IInv, TypeOK, Less
<1>1. TypeOK' /\ Order'
  BY DEF Tick, Order
<1>2. \A e \in Exchanges : Limit(at[e]) \in Nat /\ Rest(at[e], batch[e]) \in Nat
  BY RestFacts
<1>3. \A e \in Exchanges :
        /\ left'[e] \in Nat /\ left'[e] <= left[e]
        /\ at[e] # "stopped" => left'[e] = left[e] - 1
  BY DEF Tick, OnTime
<1>4. UNCHANGED <<phase, at, batch>>
  BY DEF Tick
<1>5. \A e \in Exchanges : left'[e] <= Limit(at'[e])
  BY <1>2, <1>3, <1>4 DEF Budget
<1>6. CASE ~ctxDone
  BY <1>4, <1>5, <1>6, <1>1 DEF Tick, Budget, ctxDone
<1>7. CASE ctxDone
  <2>1. phase \in {"draining", "waiting"}
    BY <1>7 DEF Tick, OnTime, ctxDone
  <2>2. ASSUME NEW e \in Exchanges, at[e] # "stopped"
        PROVE  /\ since + 1 <= ExitTime
               /\ since + 1 + left'[e] + Rest(at[e], batch[e]) <= ExitTime
    <3>1. since + left[e] + Rest(at[e], batch[e]) <= ExitTime
      BY <2>1, <2>2 DEF Budget
    <3>2. left'[e] = left[e] - 1 /\ left'[e] \in Nat /\ left[e] \in Nat
      BY <2>2, <1>3
    <3>3. QED
      BY <3>1, <3>2, <1>2
  <2>3. since + 1 <= ExitTime
    BY <2>1, <2>2 DEF Tick, OnTime, Budget
  <2>4. since' = since + 1
    BY <1>7, <2>3 DEF Tick
  <2>5. phase = "draining" => since' + drainLeft' <= ExitTime
    BY <2>4 DEF Tick, OnTime, Budget
  <2>6. \A e \in Exchanges :
          at'[e] # "stopped" => since' + left'[e] + Rest(at'[e], batch'[e]) <= ExitTime
    BY <2>2, <2>4, <1>4
  <2>7. Budget'
    BY <1>4, <1>5, <2>1, <2>3, <2>4, <2>5, <2>6 DEF Budget, ctxDone
  <2>8. QED
    BY <1>1, <2>7
<1>8. QED
  BY <1>6, <1>7

(* IInv is an invariant, for every number of exchanges and requests.         *)
THEOREM Invariance == Spec => []IInv
<1>1. Init => IInv
  <2> SUFFICES ASSUME Init PROVE IInv
    OBVIOUS
  <2>1. TypeOK /\ Order
    <3>1. 0 \in 0..MaxTickers
      BY ServiceAssumption
    <3>2. QED
      BY <3>1 DEF Init, TypeOK, Order, Places
  <2>2. Budget
    BY ExitTimeFacts DEF Init, Budget, ctxDone, Limit
  <2>3. QED
    BY <2>1, <2>2 DEF IInv
<1>2. IInv /\ [Next]_vars => IInv'
  <2>1. ASSUME IInv, UNCHANGED vars
        PROVE  IInv'
    BY <2>1 DEF vars, mainVars, loopVars, requestVars, IInv, TypeOK, Order, Budget, ctxDone
  <2>2. QED
    BY <2>1, LoopStepKeeps, RequestKeeps, MainKeeps, TickKeeps DEF Next
<1>3. QED
  BY <1>1, <1>2, PTL DEF Spec

(* A shutdown is as long as its longest chain of activities, for every       *)
(* number of exchanges and requests and whatever the timeouts are.           *)
THEOREM Bounded == Spec => []ExitBounded
<1>1. IInv => ExitBounded
  BY DEF IInv, Budget, ExitBounded
<1>2. QED
  BY <1>1, Invariance, PTL

(* No run loop publishes into a closed storage.                              *)
THEOREM Outlived == Spec => []StorageOutlivesLoops
<1>1. IInv => StorageOutlivesLoops
  BY DEF IInv, Order, StorageOutlivesLoops
<1>2. QED
  BY <1>1, Invariance, PTL

(* Only a request longer than the shutdown timeout is cut off.               *)
THEOREM DrainedFirst == Spec => []RequestsDrained
<1>1. IInv => RequestsDrained
  BY DEF IInv, Order, RequestsDrained
<1>2. QED
  BY <1>1, Invariance, PTL
=============================================================================
