------------------------------ MODULE Storage -------------------------------
(***************************************************************************)
(* The storage of the service: main (cmd/ticker/main.go) takes Redis when   *)
(* it is configured and answers a ping, else the memory storage, and keeps  *)
(* it for good.  The variables of the storage not taken stay as they are.   *)
(***************************************************************************)
EXTENDS MemoryStorage

CONSTANTS
  Versions, RedisTTL,             \* Data and TTL of RedisStorage
  MaxLate, NoCommand, NoAnswer

VARIABLES
  backend,
  server, stored, announced, command, givenUp, open,
  step, todo, result, skipped, seen, steady

redisVars ==
  <<server, stored, announced, command, givenUp, open, step, todo, result, skipped, seen, steady>>

R == INSTANCE RedisStorage WITH Data <- Versions, TTL <- RedisTTL

ASSUME RedisAssumption == R!RedisConstants

storageVars == <<backend, vars, redisVars>>

\* NewRedisStorage fails when there is no address or no answer.
StorageInit ==
  /\ backend \in {"redis", "memory"}
  /\ Init
  /\ R!RedisInit

StorageNext ==
  \/ backend = "memory" /\ Next /\ UNCHANGED <<backend, redisVars>>
  \/ backend = "redis" /\ R!RedisNext /\ UNCHANGED <<backend, vars>>

StorageSpec == StorageInit /\ [][StorageNext]_storageVars

-----------------------------------------------------------------------------
(* RedisStorage!AnnouncedWasStored: "Store in Redis", then "publish to      *)
(* channel".  Subscribers of a channel are never told of a ticker that was   *)
(* never in the store, whichever command fails or is executed late.         *)
AnnouncedWasStored == R!AnnouncedWasStored

(* RedisStorage!GetAllRegular: a GetAll made of several commands returns    *)
(* only tickers stored at some moment of the call, and leaves out a key that *)
(* was there all the time only if its own GET failed.                       *)
GetAllRegular == R!GetAllRegular

(* RedisStorage!NewestUnlessLate: what Redis comes to hold under a key is   *)
(* the newest ticker ever stored there, unless a SET that the client had    *)
(* given up is executed late.                                               *)
NewestUnlessLate == R!NewestUnlessLate
=============================================================================
