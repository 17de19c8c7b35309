--------------------------- MODULE Storage_proofs ---------------------------
(***************************************************************************)
(* For every set of keys and data, every TTL and clean-up interval:         *)
(* MemoryStorage is well typed, keeps no entry longer than the TTL and one  *)
(* clean-up interval, and implements TickerStore.  Inductive is that age    *)
(* and time to the next clean-up add up to no more than that.               *)
(*                                                                         *)
(* Whichever backend the service takes, its storage then keeps what either  *)
(* promises: StorageSpec implements the specifications of both.             *)
(***************************************************************************)
EXTENDS Storage, TLAPS

AgeInv ==
  cleaning => \A k \in Keys :
    entry[k] # NoEntry => entry[k].age + untilCleanup <= TTL + CleanupInterval

IInv == TypeOK /\ AgeInv

(* The inductive invariant holds at first.                                 *)
LEMMA InitIInv == Init => IInv
BY StorageAssumption DEF Init, IInv, TypeOK, AgeInv

(* Every operation and every tick keeps it.                                *)
LEMMA StepIInv == IInv /\ [Next]_vars => IInv'
<1> SUFFICES ASSUME IInv, [Next]_vars
             PROVE  IInv'
  OBVIOUS
<1> USE StorageAssumption DEF IInv, TypeOK, AgeInv, Entries, MaxAge
<1>1. ASSUME NEW k \in Keys, NEW d \in Data, Publish(k, d)
      PROVE  IInv'
  BY <1>1 DEF Publish
<1>2. ASSUME NEW k \in Keys, Get(k)
      PROVE  IInv'
  BY <1>2 DEF Get, Expired
<1>3. ASSUME NEW e \in Exchanges, GetAll(e)
      PROVE  IInv'
  <2> DEFINE readable == {k \in {e} \X Symbols : entry[k] # NoEntry /\ ~Expired(k)}
  <2>1. readable \in SUBSET Keys
    BY DEF Keys
  <2>2. answer' \in [readable -> Data]
    BY <1>3 DEF GetAll, Keys
  <2>3. TypeOK'
    BY <1>3, <2>1, <2>2 DEF GetAll
  <2>4. QED
    BY <1>3, <2>3 DEF GetAll
<1>4. CASE RemoveExpired
  BY <1>4 DEF RemoveExpired, Expired
<1>5. CASE Close
  BY <1>5 DEF Close
<1>6. CASE Tick
  BY <1>6 DEF Tick
<1>7. CASE UNCHANGED vars
  BY <1>7 DEF vars
<1>8. QED
  BY <1>1, <1>2, <1>3, <1>4, <1>5, <1>6, <1>7 DEF Next

(* IInv is an invariant.                                                    *)
THEOREM Invariance == Spec => []IInv
BY InitIInv, StepIInv, PTL DEF Spec

(* Every operation leaves well-typed entries and answers.                   *)
THEOREM TypeCorrect == Spec => []TypeOK
BY Invariance, PTL DEF IInv

(* No entry outlives the TTL and one clean-up interval in memory.           *)
THEOREM Bounded == Spec => []NoStaleGarbage
<1>1. IInv => NoStaleGarbage
  BY StorageAssumption DEF IInv, TypeOK, AgeInv, NoStaleGarbage, Entries, MaxAge
<1>2. QED
  BY <1>1, Invariance, PTL

(* MemoryStorage implements TickerStore: publishing, reading and the passing *)
(* of time are its steps, removing expired entries is invisible.             *)
THEOREM Refinement == Spec => ImplementsStore
<1>1. Init => Store!StoreInit
  BY DEF Init, Store!StoreInit, Live, Keys, Store!Keys
<1>2. IInv /\ [Next]_vars => [Store!StoreNext]_(Store!storeVars)
  <2> SUFFICES ASSUME IInv, [Next]_vars
               PROVE  [Store!StoreNext]_(Store!storeVars)
    OBVIOUS
  <2> USE StorageAssumption DEF IInv, TypeOK, Entries, Expired
  <2>1. ASSUME NEW k \in Keys, NEW d \in Data, Publish(k, d)
        PROVE  Store!Put(k, d)
    <3>1. ASSUME NEW q \in Keys
          PROVE  Live'[q] = IF q = k THEN [data |-> d, age |-> 0] ELSE Live[q]
      BY <2>1 DEF Publish, Live
    <3>2. Live' = [Live EXCEPT ![k] = [data |-> d, age |-> 0]]
      BY <2>1, <3>1 DEF Live
    <3>3. QED
      BY <2>1, <3>2 DEF Publish, Store!Put
  <2>2. ASSUME NEW k \in Keys, Get(k)
        PROVE  Store!Read(k)
    BY <2>2 DEF Get, Live, Store!Read
  <2>3. ASSUME NEW e \in Exchanges, GetAll(e)
        PROVE  Store!ReadAll(e)
    BY <2>3 DEF GetAll, Live, Keys, Store!ReadAll
  <2>4. CASE RemoveExpired
    <3>1. ASSUME NEW q \in Keys
          PROVE  Live'[q] = Live[q]
      BY <2>4 DEF RemoveExpired, Live
    <3>2. Live' = Live
      BY <3>1 DEF Live
    <3>3. QED
      BY <2>4, <3>2 DEF RemoveExpired, Store!storeVars
  <2>5. CASE Close
    BY <2>5 DEF Close, Live, Store!storeVars
  <2>6. ASSUME Tick
        PROVE  Store!Elapse
    <3>1. ASSUME NEW q \in Keys
          PROVE  Live'[q] = IF Live[q] = NoEntry \/ Live[q].age = TTL
                              THEN NoEntry
                              ELSE [Live[q] EXCEPT !.age = @ + 1]
      <4>1. /\ Live[q] = IF entry[q] = NoEntry \/ entry[q].age > TTL THEN NoEntry ELSE entry[q]
            /\ Live'[q] = IF entry'[q] = NoEntry \/ entry'[q].age > TTL
                            THEN NoEntry ELSE entry'[q]
        BY DEF Live
      <4>2. entry'[q] = IF entry[q] = NoEntry \/ entry[q].age = MaxAge
                          THEN entry[q] ELSE [entry[q] EXCEPT !.age = @ + 1]
        BY <2>6 DEF Tick
      <4>3. CASE entry[q] = NoEntry
        BY <4>1, <4>2, <4>3
      <4>4. CASE entry[q] # NoEntry
        <5>1. /\ entry[q] \in [data : Data, age : 0..MaxAge]
              /\ TTL < MaxAge
              /\ TTL \in Nat
              /\ MaxAge \in Nat
          BY <4>4 DEF MaxAge
        <5>2. [entry[q] EXCEPT !.age = @ + 1] \in [data : Data, age : Nat]
          BY <5>1
        <5>3. [entry[q] EXCEPT !.age = @ + 1] # NoEntry \/ entry[q].age = MaxAge
          <6> SUFFICES ASSUME entry[q].age # MaxAge
                       PROVE  [entry[q] EXCEPT !.age = @ + 1] # NoEntry
            OBVIOUS
          <6>1. entry[q].age + 1 \in 0..MaxAge
            BY <5>1
          <6>2. [entry[q] EXCEPT !.age = @ + 1] \in [data : Data, age : 0..MaxAge]
            BY <5>1, <6>1
          <6>3. QED
            BY <6>2
        <5>4. CASE entry[q].age >= TTL
          BY <4>1, <4>2, <4>4, <5>1, <5>2, <5>3, <5>4
        <5>5. CASE entry[q].age < TTL
          BY <4>1, <4>2, <4>4, <5>1, <5>2, <5>3, <5>5
        <5>6. QED
          BY <5>1, <5>4, <5>5
      <4>5. QED
        BY <4>3, <4>4
    <3>2. QED
      <4>1. Live' = [q \in Keys |-> IF Live[q] = NoEntry \/ Live[q].age = TTL
                                      THEN NoEntry
                                      ELSE [Live[q] EXCEPT !.age = @ + 1]]
        <5>1. Live' = [q \in Keys |-> Live'[q]]
          BY DEF Live
        <5>2. QED
          BY <3>1, <5>1
      <4>2. QED
        BY <2>6, <4>1 DEF Tick, Store!Elapse, Keys, Store!Keys
  <2>7. CASE UNCHANGED vars
    <3>1. Live' = Live
      BY <2>7 DEF vars, Live
    <3>2. QED
      BY <2>7, <3>1 DEF vars, Store!storeVars
  <2>8. QED
    BY <2>1, <2>2, <2>3, <2>4, <2>5, <2>6, <2>7 DEF Next, Store!StoreNext, Keys, Store!Keys
<1>3. QED
  BY <1>1, <1>2, Invariance, PTL DEF Spec, ImplementsStore, Store!StoreSpec

-----------------------------------------------------------------------------
\* RedisStorage again, with the theorems about it.
RP == INSTANCE RedisStorage_proofs WITH Data <- Versions, TTL <- RedisTTL

(* What is assumed of the one instance is assumed of the other.            *)
LEMMA RedisConstantsHold == RP!RedisConstants
BY RedisAssumption DEF R!RedisConstants, RP!RedisConstants, R!Entries, RP!Entries,
   R!Commands, RP!Commands, R!Keys, RP!Keys

(* The two instances are the same specification.                              *)
LEMMA SameRedis == (R!RedisInit <=> RP!RedisInit) /\ (R!RedisNext <=> RP!RedisNext)
<1>1. R!RedisInit <=> RP!RedisInit
  BY DEF R!RedisInit, RP!RedisInit, R!Keys, RP!Keys
<1>2. R!RedisNext <=> RP!RedisNext
  BY DEF R!RedisNext, RP!RedisNext, R!Publish, RP!Publish, R!Send, RP!Send,
     R!serverVars, RP!serverVars, R!publishVars, RP!publishVars,
     R!getAllVars, RP!getAllVars, R!Keys, RP!Keys, R!Execute, RP!Execute,
     R!Watch, RP!Watch, R!Answered, RP!Answered, R!Following, RP!Following,
     R!Retry, RP!Retry, R!GiveUp, RP!GiveUp, R!Cardinality, RP!Cardinality,
     R!Fail, RP!Fail, R!ListKeys, RP!ListKeys, R!KeysFail, RP!KeysFail,
     R!ExecuteLate, RP!ExecuteLate,
     R!ReadKey, RP!ReadKey, R!SkipKey, RP!SkipKey, R!Remaining, RP!Remaining,
     R!CloseClient, RP!CloseClient, R!Expire, RP!Expire
<1>3. QED
  BY <1>1, <1>2

(* The two backends do not disturb each other: whichever main has chosen, the *)
(* storage behaves as both specifications allow, the one not chosen as one   *)
(* that nobody calls.                                                        *)
THEOREM BackendsApart == StorageSpec => Spec /\ RP!RedisSpec
<1>1. StorageInit => Init /\ RP!RedisInit
  BY SameRedis DEF StorageInit
<1>2. [StorageNext]_storageVars => [Next]_vars
  BY DEF StorageNext, storageVars
<1>3. [StorageNext]_storageVars => [RP!RedisNext]_(RP!redisVars)
  BY SameRedis DEF StorageNext, storageVars, redisVars, RP!redisVars, RP!serverVars,
     RP!publishVars, RP!getAllVars
<1>4. QED
  BY <1>1, <1>2, <1>3, PTL DEF StorageSpec, Spec, RP!RedisSpec

(* The service's storage implements TickerStore as far as the memory backend *)
(* goes, types and bounds included.                                          *)
THEOREM StorageImplements == StorageSpec => ImplementsStore /\ []TypeOK /\ []NoStaleGarbage
BY BackendsApart, Refinement, TypeCorrect, Bounded, PTL

(* On the channels of the service's storage, whatever fails or comes late,   *)
(* nothing is announced that was not stored.                                 *)
THEOREM StorageAnnounced == StorageSpec => []AnnouncedWasStored
<1>1. RP!RedisSpec => []RP!AnnouncedWasStored
  BY RedisConstantsHold, RP!AnnouncedStored
<1>2. RP!AnnouncedWasStored => AnnouncedWasStored
  BY DEF RP!AnnouncedWasStored, AnnouncedWasStored, R!AnnouncedWasStored, R!Keys, RP!Keys
<1>3. QED
  BY <1>1, <1>2, BackendsApart, PTL

(* GetAll of the service's storage is regular.                               *)
THEOREM StorageRegular == StorageSpec => []GetAllRegular
<1>1. RP!RedisSpec => []RP!GetAllRegular
  BY RedisConstantsHold, RP!Regular
<1>2. RP!GetAllRegular => GetAllRegular
  BY DEF RP!GetAllRegular, GetAllRegular, R!GetAllRegular
<1>3. QED
  BY <1>1, <1>2, BackendsApart, PTL

(* What Redis comes to hold is the newest ticker of its key, or came late.   *)
THEOREM StorageNewest == StorageSpec => NewestUnlessLate
<1>1. RP!RedisSpec => RP!NewestUnlessLate
  BY RedisConstantsHold, RP!Newest
<1>2. [RP!NewestOrLate]_(RP!redisVars) => [R!NewestOrLate]_(R!redisVars)
  BY DEF R!NewestOrLate, RP!NewestOrLate, R!Stores, RP!Stores, R!Holds, RP!Holds, R!Keys,
     RP!Keys, R!redisVars, RP!redisVars, R!serverVars, RP!serverVars, R!publishVars,
     RP!publishVars, R!getAllVars, RP!getAllVars
<1>3. QED
  BY <1>1, <1>2, BackendsApart, PTL
  DEF RP!NewestUnlessLate, NewestUnlessLate, R!NewestUnlessLate
=============================================================================
