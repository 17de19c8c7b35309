------------------------ MODULE RedisStorage_proofs -------------------------
(***************************************************************************)
(* RedisStorage for every set of exchanges, symbols and tickers, any TTL    *)
(* and any number of commands under way late.  Inductive is, for Publish,   *)
(* that a PUBLISH on its way, on time or late, follows a SET that was        *)
(* executed; for GetAll, that keys still to be read show only what the call *)
(* has seen, and that no key leaves the account of read, unread and skipped. *)
(***************************************************************************)
EXTENDS RedisStorage, TLAPS

RedisTypeOK ==
  /\ server \in [Keys -> Entries \cup {NoEntry}]
  /\ stored \in [Keys -> SUBSET Data]
  /\ announced \in [Keys -> SUBSET Data]
  /\ command \in [Exchanges -> Commands \cup {NoCommand}]
  /\ givenUp \subseteq Commands

After(c) == c.op = "publish" => c.data \in stored[c.key]

SetFirst ==
  /\ AnnouncedWasStored
  /\ \A e \in Exchanges : command[e] # NoCommand => After(command[e])
  /\ \A c \in givenUp : After(c)

PInv == RedisTypeOK /\ SetFirst

-----------------------------------------------------------------------------
(* Executing a command that was allowed to be sent keeps the order.          *)
LEMMA ExecuteKeeps ==
  ASSUME RedisConstants, PInv, NEW c \in Commands, After(c), Execute(c),
         command' \in [Exchanges -> Commands \cup {NoCommand}],
         \A e \in Exchanges :
            \/ command'[e] = command[e]
            \/ command'[e] = NoCommand
            \/ c.op = "set" /\ command'[e].key = c.key /\ command'[e].data = c.data,
         givenUp' \subseteq givenUp
  PROVE  PInv'
<1> USE DEF PInv, RedisTypeOK
<1> c.key \in Keys /\ c.data \in Data /\ c.op \in {"set", "publish"}
  BY DEF Commands
<1>1. CASE c.op = "set"
  <2>1. /\ server' = [server EXCEPT ![c.key] = [data |-> c.data, age |-> 0]]
        /\ stored' = [stored EXCEPT ![c.key] = @ \cup {c.data}]
        /\ announced' = announced
    BY <1>1 DEF Execute
  <2>2. \A k \in Keys : stored[k] \subseteq stored'[k]
    BY <2>1
  <2>3. c.data \in stored'[c.key]
    BY <2>1
  <2>4. stored' \in [Keys -> SUBSET Data]
    BY <2>1
  <2>5. SetFirst'
    BY <2>1, <2>2, <2>3 DEF SetFirst, AnnouncedWasStored, After, Commands
  <2>6. [data |-> c.data, age |-> 0] \in Entries
    BY DEF Entries, RedisConstants
  <2>7. server' \in [Keys -> Entries \cup {NoEntry}]
    BY <2>1, <2>6
  <2>8. QED
    BY <2>1, <2>4, <2>5, <2>7
<1>2. CASE c.op = "publish"
  <2>1. /\ announced' = [announced EXCEPT ![c.key] = @ \cup {c.data}]
        /\ server' = server /\ stored' = stored
    BY <1>2 DEF Execute
  <2>2. announced' \in [Keys -> SUBSET Data]
    BY <2>1
  <2>3. SetFirst'
    BY <1>2, <2>1 DEF SetFirst, AnnouncedWasStored, After, Commands
  <2>4. QED
    BY <2>1, <2>2, <2>3
<1>3. QED
  BY <1>1, <1>2

(* No step sends a PUBLISH whose SET the server has not executed.            *)
LEMMA PStep ==
  ASSUME RedisConstants, PInv, [RedisNext]_redisVars
  PROVE  PInv'
<1> USE DEF PInv
<1>1. ASSUME NEW e \in Exchanges, NEW s \in Symbols, NEW d \in Data, Publish(e, s, d)
      PROVE  PInv'
  <2> DEFINE c == [op |-> "set", key |-> <<e, s>>, data |-> d]
  <2>1. c \in Commands /\ c.op = "set"
    BY DEF Commands, Keys
  <2> HIDE DEF c
  <2>2. command' = [command EXCEPT ![e] = c] /\ UNCHANGED <<server, stored, announced, givenUp>>
    BY <1>1 DEF Publish, Send, serverVars, c
  <2>3. QED
    BY <2>1, <2>2 DEF RedisTypeOK, SetFirst, AnnouncedWasStored, After
<1>2. ASSUME NEW e \in Exchanges, Answered(e)
      PROVE  PInv'
  <2> DEFINE c == command[e]
  <2>1. c \in Commands /\ After(c) /\ Execute(c) /\ givenUp' = givenUp
    BY <1>2 DEF Answered, RedisTypeOK, SetFirst
  <2>2. command' = [command EXCEPT ![e] = Following(c)]
    BY <1>2 DEF Answered, Send
  <2>3. \/ Following(c) = NoCommand
        \/ /\ c.op = "set" /\ Following(c) \in Commands
           /\ Following(c).key = c.key /\ Following(c).data = c.data
    BY <2>1 DEF Following, Commands
  <2>4. QED
    <3> HIDE DEF c
    <3>1. command' \in [Exchanges -> Commands \cup {NoCommand}]
      BY <2>2, <2>3 DEF RedisTypeOK
    <3>2. \A x \in Exchanges :
            \/ command'[x] = command[x]
            \/ command'[x] = NoCommand
            \/ c.op = "set" /\ command'[x].key = c.key /\ command'[x].data = c.data
      BY <2>2, <2>3 DEF RedisTypeOK
    <3>3. QED
      BY <2>1, <3>1, <3>2, ExecuteKeeps
<1>3. ASSUME NEW e \in Exchanges, Retry(e) \/ Fail(e)
      PROVE  PInv'
  <2>1. command[e] \in Commands /\ After(command[e])
    BY <1>3 DEF Retry, Fail, RedisTypeOK, SetFirst
  <2>2. /\ givenUp' \subseteq givenUp \cup {command[e]}
        /\ command' = command \/ command' = [command EXCEPT ![e] = NoCommand]
        /\ UNCHANGED <<server, stored, announced>>
    BY <1>3 DEF Retry, Fail, GiveUp, Send, serverVars
  <2>3. QED
    BY <2>1, <2>2 DEF RedisTypeOK, SetFirst, AnnouncedWasStored, After
<1>4. CASE ExecuteLate
  <2>1. PICK c \in givenUp : Execute(c) /\ givenUp' = givenUp \ {c}
    BY <1>4 DEF ExecuteLate
  <2>2. c \in Commands /\ After(c) /\ command' = command
    BY <1>4 DEF ExecuteLate, RedisTypeOK, SetFirst
  <2>3. QED
    BY <2>1, <2>2, ExecuteKeeps DEF RedisTypeOK
<1>5. CASE Expire
  <2>1. UNCHANGED <<stored, announced, command, givenUp>>
    BY <1>5 DEF Expire, publishVars
  <2>2. ASSUME NEW k \in Keys
        PROVE  server'[k] \in Entries \cup {NoEntry}
    <3>1. CASE server[k] = NoEntry \/ server[k].age = TTL
      BY <1>5, <3>1 DEF Expire
    <3>2. CASE ~(server[k] = NoEntry \/ server[k].age = TTL)
      <4>1. server[k] \in Entries
        BY <3>2 DEF RedisTypeOK
      <4>2. server[k].age \in 0..TTL /\ server[k].age # TTL
        BY <4>1, <3>2 DEF Entries
      <4>3. server[k].age + 1 \in 0..TTL
        BY <4>2 DEF RedisConstants
      <4>4. [server[k] EXCEPT !.age = server[k].age + 1] \in Entries
        BY <4>1, <4>3 DEF Entries
      <4>5. QED
        BY <1>5, <3>2, <4>4 DEF Expire
    <3>3. QED
      BY <3>1, <3>2
  <2>3. server' \in [Keys -> Entries \cup {NoEntry}]
    BY <1>5, <2>2 DEF Expire
  <2>4. QED
    BY <2>1, <2>3 DEF RedisTypeOK, SetFirst, AnnouncedWasStored, After
<1>6. ASSUME UNCHANGED <<serverVars, publishVars>>
      PROVE  PInv'
  BY <1>6 DEF serverVars, publishVars, RedisTypeOK, SetFirst, AnnouncedWasStored, After
<1>7. QED
  BY <1>1, <1>2, <1>3, <1>4, <1>5, <1>6 DEF RedisNext, redisVars, ListKeys, KeysFail, ReadKey,
     SkipKey, Remaining, CloseClient

(* Whichever command fails, is repeated or arrives late, for every number of *)
(* exchanges, keys and tickers: nothing is announced that was not stored.    *)
THEOREM AnnouncedStored ==
  ASSUME RedisConstants
  PROVE  RedisSpec => []AnnouncedWasStored
<1>1. RedisInit => PInv
  BY DEF RedisInit, PInv, RedisTypeOK, SetFirst, AnnouncedWasStored
<1>2. PInv => AnnouncedWasStored
  BY DEF PInv, SetFirst
<1>3. QED
  BY <1>1, <1>2, PStep, PTL DEF RedisSpec

-----------------------------------------------------------------------------
\* What a call of GetAll has read, has still to read and has skipped.
CallInv ==
  /\ step \in {"keys", "gets", "returned"}
  /\ step # "gets" => todo = {}
  /\ todo \subseteq Keys
  /\ DOMAIN result \subseteq Keys
  /\ seen \in [Keys -> SUBSET Data]
  /\ \A k \in todo : server[k] # NoEntry => server[k].data \in seen[k]
  /\ \A k \in DOMAIN result : result[k] \in seen[k]
  /\ steady \subseteq todo \cup DOMAIN result \cup skipped
  /\ \A k \in steady : server[k] # NoEntry

\* The call watches a change of the server.
LEMMA WatchKeeps ==
  ASSUME PInv, PInv', CallInv, Watch
  PROVE  CallInv'
<1> USE DEF Watch, CallInv
<1>1. seen' \in [Keys -> SUBSET Data]
  BY DEF PInv, RedisTypeOK, Entries
<1>2. \A k \in Keys : seen[k] \subseteq seen'[k]
  OBVIOUS
<1>3. \A k \in todo : server'[k] # NoEntry => server'[k].data \in seen'[k]
  OBVIOUS
<1>4. QED
  BY <1>1, <1>2, <1>3

(* Every action keeps what a GetAll under way relies on.                    *)
LEMMA CallStep ==
  ASSUME PInv, PInv', CallInv, [RedisNext]_redisVars
  PROVE  CallInv'
<1>1. ASSUME NEW e \in Exchanges, ListKeys(e)
      PROVE  CallInv'
  <2>1. todo' = {k \in {e} \X Symbols : server[k] # NoEntry} /\ todo' \subseteq Keys
    BY <1>1 DEF ListKeys, Keys
  <2>2. \A k \in todo' : server[k].data \in Data
    BY <2>1 DEF PInv, RedisTypeOK, Entries
  <2>3. seen' = [k \in Keys |-> IF k \in todo' THEN {server[k].data} ELSE {}]
    BY <1>1 DEF ListKeys
  <2>4. DOMAIN result' = {}
    BY <1>1 DEF ListKeys
  <2>5. steady' = todo' /\ server' = server /\ step' = IF todo' = {} THEN "returned" ELSE "gets"
    BY <1>1 DEF ListKeys, serverVars
  <2>6. QED
    BY <2>1, <2>2, <2>3, <2>4, <2>5 DEF CallInv
<1>2. ASSUME NEW k \in Keys, ReadKey(k) \/ SkipKey(k)
      PROVE  CallInv'
  <2>1. /\ k \in todo /\ todo' = todo \ {k}
        /\ step' = IF todo' = {} THEN "returned" ELSE "gets"
        /\ UNCHANGED <<server, seen, steady>>
    BY <1>2 DEF ReadKey, SkipKey, Remaining, serverVars
  <2>2. CASE ReadKey(k)
    <3>1. /\ server[k] # NoEntry /\ UNCHANGED skipped
          /\ result' = [q \in DOMAIN result \cup {k} |->
                         IF q = k THEN server[k].data ELSE result[q]]
      BY <2>2 DEF ReadKey
    <3>2. QED
      BY <2>1, <3>1 DEF CallInv
  <2>3. CASE SkipKey(k)
    <3>1. /\ skipped' = IF server[k] = NoEntry THEN skipped ELSE skipped \cup {k}
          /\ UNCHANGED result
      BY <2>3 DEF SkipKey
    <3>2. QED
      BY <2>1, <3>1 DEF CallInv
  <2>4. QED
    BY <1>2, <2>2, <2>3
<1>3. ASSUME Watch
      PROVE  CallInv'
  BY <1>3, WatchKeeps
<1>4. ASSUME UNCHANGED <<server, getAllVars>>
      PROVE  CallInv'
  BY <1>4 DEF getAllVars, CallInv
<1>5. CASE KeysFail
  <2>1. /\ step' = "keys" /\ todo' = todo /\ DOMAIN result' = {} /\ steady' = {}
        /\ seen' \in [Keys -> SUBSET Data]
    BY <1>5 DEF KeysFail
  <2>2. todo = {}
    BY <1>5 DEF KeysFail, CallInv
  <2>3. QED
    BY <2>1, <2>2 DEF CallInv
<1>6. QED
  BY <1>1, <1>2, <1>3, <1>4, <1>5
     DEF RedisNext, redisVars, serverVars, Publish, Answered, Retry, Fail,
     ExecuteLate, Execute, CloseClient, Expire

(* GetAll is regular whatever is published, expires or fails between its     *)
(* commands, for every number of keys.                                       *)
THEOREM Regular ==
  ASSUME RedisConstants
  PROVE  RedisSpec => []GetAllRegular
<1>1. RedisInit => PInv /\ CallInv
  <2> SUFFICES ASSUME RedisInit PROVE PInv /\ CallInv
    OBVIOUS
  <2>1. PInv
    BY DEF RedisInit, PInv, RedisTypeOK, SetFirst, AnnouncedWasStored
  <2>2. DOMAIN result = {}
    BY DEF RedisInit
  <2>3. CallInv
    BY <2>2 DEF RedisInit, CallInv
  <2>4. QED
    BY <2>1, <2>3
<1>2. CallInv => GetAllRegular
  BY DEF CallInv, GetAllRegular
<1>3. PInv /\ CallInv /\ [RedisNext]_redisVars => (PInv /\ CallInv)'
  BY PStep, CallStep
<1>4. QED
  BY <1>1, <1>2, <1>3, PTL DEF RedisSpec

-----------------------------------------------------------------------------
\* What a publisher is about is its own key, and nothing stored there or under
\* way late is newer.
StreamInv ==
  \A e \in Exchanges : command[e] # NoCommand =>
    /\ \E s \in Symbols : command[e].key = <<e, s>>
    /\ \A old \in stored[command[e].key] : old <= command[e].data
    /\ \A c \in givenUp : c.key = command[e].key => c.data <= command[e].data

(* A command executed in the middle of a call, on time or late, is not newer *)
(* than the ticker of the call.                                              *)
LEMMA ExecuteInStream ==
  ASSUME RedisConstants, PInv, StreamInv, NEW c \in Commands, Execute(c),
         NEW e \in Exchanges, command[e] # NoCommand,
         c.key = command[e].key => c.data <= command[e].data
  PROVE  \A old \in stored'[command[e].key] : old <= command[e].data
<1>1. command[e] \in Commands /\ command[e].key \in Keys /\ c.key \in Keys
  BY DEF PInv, RedisTypeOK, Commands
<1>2. stored' = stored \/ stored' = [stored EXCEPT ![c.key] = @ \cup {c.data}]
  BY DEF Execute
<1>3. \A old \in stored[command[e].key] : old <= command[e].data
  BY DEF StreamInv
<1>4. QED
  BY <1>1, <1>2, <1>3 DEF PInv, RedisTypeOK

(* A call of Publish stays the newest of its key until it returns.           *)
LEMMA StreamStep ==
  ASSUME RedisConstants, PInv, StreamInv, [RedisNext]_redisVars
  PROVE  StreamInv'
<1> USE DEF PInv, RedisTypeOK
<1>1. ASSUME NEW e \in Exchanges, NEW s \in Symbols, NEW d \in Data, Publish(e, s, d)
      PROVE  StreamInv'
  <2> DEFINE c == [op |-> "set", key |-> <<e, s>>, data |-> d]
  <2>1. /\ command' = [command EXCEPT ![e] = c]
        /\ UNCHANGED <<stored, givenUp>>
    BY <1>1 DEF Publish, Send, serverVars
  <2>2. /\ \A old \in stored[<<e, s>>] : old < d
        /\ \A q \in givenUp : q.key = <<e, s>> => q.data < d
    BY <1>1 DEF Publish
  <2>3. c.key = <<e, s>> /\ c.data = d /\ <<e, s>> \in Keys /\ d \in Nat
    BY DEF Keys, RedisConstants
  <2>4. \A old \in stored[<<e, s>>] : old \in Nat
    BY <2>3 DEF RedisConstants
  <2>5. \A q \in givenUp : q.data \in Nat
    BY DEF Commands, RedisConstants
  <2>6. /\ \A old \in stored[c.key] : old <= c.data
        /\ \A q \in givenUp : q.key = c.key => q.data <= c.data
    BY <2>2, <2>3, <2>4, <2>5
  <2> HIDE DEF c
  <2>7. QED
    BY <2>1, <2>3, <2>6 DEF StreamInv
<1>2. ASSUME NEW e \in Exchanges, Answered(e)
      PROVE  StreamInv'
  <2> DEFINE c == command[e]
  <2>1. c # NoCommand /\ c \in Commands /\ Execute(c) /\ givenUp' = givenUp
    BY <1>2 DEF Answered
  <2>2. command' = [command EXCEPT ![e] = Following(c)]
    BY <1>2 DEF Answered, Send
  <2>3. Following(c) # NoCommand => Following(c).key = c.key /\ Following(c).data = c.data
    BY <2>1 DEF Following, Commands
  <2>4. c.data \in Nat
    BY <2>1 DEF Commands, RedisConstants
  <2>5. ASSUME NEW x \in Exchanges, command[x] # NoCommand
        PROVE  \A old \in stored'[command[x].key] : old <= command[x].data
    <3>1. c.key = command[x].key => x = e
      BY <2>1, <2>5 DEF StreamInv
    <3>2. c.key = command[x].key => c.data <= command[x].data
      BY <2>4, <3>1
    <3>3. QED
      BY <2>1, <2>5, <3>2, ExecuteInStream
  <2>6. QED
    <3> SUFFICES ASSUME NEW x \in Exchanges, command'[x] # NoCommand
                 PROVE  /\ \E s \in Symbols : command'[x].key = <<x, s>>
                        /\ \A old \in stored'[command'[x].key] : old <= command'[x].data
                        /\ \A q \in givenUp' :
                             q.key = command'[x].key => q.data <= command'[x].data
      BY DEF StreamInv
    <3>1. command[x] # NoCommand /\ command'[x].key = command[x].key
            /\ command'[x].data = command[x].data
      BY <2>1, <2>2, <2>3
    <3>2. QED
      BY <2>1, <2>5, <3>1 DEF StreamInv
<1>3. ASSUME NEW e \in Exchanges, Retry(e) \/ Fail(e)
      PROVE  StreamInv'
  <2>1. /\ command[e] # NoCommand /\ command[e] \in Commands
        /\ givenUp' \subseteq givenUp \cup {command[e]}
        /\ command' = command \/ command' = [command EXCEPT ![e] = NoCommand]
        /\ stored' = stored
    BY <1>3 DEF Retry, Fail, GiveUp, Send, serverVars
  <2>2. command[e].data \in Nat
    BY <2>1 DEF Commands, RedisConstants
  <2>3. QED
    BY <2>1, <2>2 DEF StreamInv
<1>4. CASE ExecuteLate
  <2>1. PICK c \in givenUp : Execute(c) /\ givenUp' = givenUp \ {c}
    BY <1>4 DEF ExecuteLate
  <2>2. c \in Commands /\ command' = command
    BY <1>4 DEF ExecuteLate
  <2>3. ASSUME NEW x \in Exchanges, command[x] # NoCommand
        PROVE  \A old \in stored'[command[x].key] : old <= command[x].data
    <3>1. c.key = command[x].key => c.data <= command[x].data
      BY <2>1, <2>3 DEF StreamInv
    <3>2. QED
      BY <2>1, <2>2, <2>3, <3>1, ExecuteInStream
  <2>4. QED
    BY <2>1, <2>2, <2>3 DEF StreamInv
<1>5. ASSUME UNCHANGED <<stored, command, givenUp>>
      PROVE  StreamInv'
  BY <1>5 DEF StreamInv
<1>6. QED
  BY <1>1, <1>2, <1>3, <1>4, <1>5 DEF RedisNext, redisVars, serverVars, publishVars, ListKeys,
     KeysFail, ReadKey, SkipKey, Remaining, CloseClient, Expire

(* A SET executed on time stores the newest ticker of its key, whatever has  *)
(* been retried, given up or executed late before, for every bound on the    *)
(* commands under way late.                                                  *)
THEOREM Newest ==
  ASSUME RedisConstants
  PROVE  RedisSpec => NewestUnlessLate
<1>1. PInv /\ StreamInv /\ [RedisNext]_redisVars => [NewestOrLate]_redisVars
  <2> SUFFICES ASSUME PInv, StreamInv, RedisNext PROVE NewestOrLate
    BY DEF redisVars
  <2> SUFFICES ASSUME NEW k \in Keys, NEW d \in Data, ~Holds(k, d), Holds(k, d)'
               PROVE  \/ \A old \in stored[k] : old <= d
                      \/ \E c \in givenUp \ givenUp' : c.op = "set" /\ c.key = k /\ c.data = d
    BY DEF NewestOrLate, Stores
  <2>1. ASSUME NEW c \in Commands, Execute(c)
        PROVE  c.op = "set" /\ c.key = k /\ c.data = d
    BY <2>1 DEF Execute, Holds, Commands, PInv, RedisTypeOK
  <2>2. ASSUME NEW e \in Exchanges, Answered(e)
        PROVE  \A old \in stored[k] : old <= d
    <3>1. command[e] \in Commands /\ command[e] # NoCommand /\ Execute(command[e])
      BY <2>2 DEF Answered, PInv, RedisTypeOK
    <3>2. QED
      BY <2>1, <3>1 DEF StreamInv
  <2>3. CASE ExecuteLate
    <3>1. PICK c \in givenUp : Execute(c) /\ givenUp' = givenUp \ {c}
      BY <2>3 DEF ExecuteLate
    <3>2. QED
      BY <2>1, <3>1 DEF PInv, RedisTypeOK
  <2>4. ~Expire
    <3> SUFFICES ASSUME Expire PROVE FALSE
      OBVIOUS
    <3>1. CASE server[k] = NoEntry
      BY <3>1 DEF Expire, Holds
    <3>2. CASE server[k] # NoEntry
      <4>1. server[k] \in Entries
        BY <3>2 DEF PInv, RedisTypeOK
      <4>2. server'[k] = NoEntry \/ server'[k] = [server[k] EXCEPT !.age = @ + 1]
        BY DEF Expire
      <4>3. [server[k] EXCEPT !.age = @ + 1].data = server[k].data
        BY <4>1 DEF Entries
      <4>4. QED
        BY <3>2, <4>2, <4>3 DEF Holds
    <3>3. QED
      BY <3>1, <3>2
  <2>5. server' # server
    BY DEF Holds
  <2>6. QED
    BY <2>2, <2>3, <2>4, <2>5 DEF RedisNext, serverVars, Publish, Retry, Fail, ListKeys,
       KeysFail, ReadKey, SkipKey, Remaining, CloseClient
<1>2. RedisInit => PInv /\ StreamInv
  BY DEF RedisInit, PInv, RedisTypeOK, SetFirst, AnnouncedWasStored, StreamInv
<1>3. PInv /\ StreamInv /\ [RedisNext]_redisVars => PInv' /\ StreamInv'
  BY PStep, StreamStep
<1>4. QED
  BY <1>1, <1>2, <1>3, PTL DEF RedisSpec, NewestUnlessLate
=============================================================================
