---------------------------- MODULE RedisStorage ----------------------------
(***************************************************************************)
(* internal/storage/redis_storage.go against a Redis server.  Every command *)
(* is atomic at the server, but Publish and GetAll are several commands:    *)
(* SET, then PUBLISH; KEYS, then a GET per key.  A key and its channel have *)
(* one publisher, the run loop of the exchange.                             *)
(*                                                                         *)
(* A command may be executed and answered, or given up by the client, which *)
(* tries again or reports an error; one that was given up may still reach   *)
(* the server, later than commands sent after it, or never.  Time passes at *)
(* the server, which expires keys.  Data grows along the stream of a key.   *)
(***************************************************************************)
EXTENDS Naturals, FiniteSets

CONSTANTS
  Exchanges, Symbols,
  Data,      \* serialized tickers, numbered in the order of the stream
  TTL,       \* r.ttl
  MaxLate,   \* bound on commands given up and still under way
  NoEntry,   \* the server has no such key
  NoCommand, \* the publisher is between two calls of Publish
  NoAnswer   \* the zero value of a failed GET

Keys == Exchanges \X Symbols
Entries == [data : Data, age : 0..TTL]
Commands == [op : {"set", "publish"}, key : Keys, data : Data]

\* What the constants have to be.
RedisConstants ==
  /\ Data \subseteq Nat \ {0}
  /\ TTL \in Nat /\ MaxLate \in Nat
  /\ NoEntry \notin Entries
  /\ NoCommand \notin Commands
  /\ NoAnswer \notin Data

VARIABLES
  server,     \* the keys of the server
  stored,     \* data the server ever stored under each key
  announced,  \* data it ever sent to the channel of each key
  command,    \* what the publisher of each exchange is waiting for
  givenUp,    \* commands given up that the server may still receive
  open        \* Close has not been called

VARIABLES     \* one call of GetAll
  step,       \* "keys", "gets" or, with a map, "returned"
  todo,       \* keys still to be read
  result,     \* the map it returns
  skipped,    \* keys whose GET failed
  seen,       \* data each key had at some moment of the call
  steady      \* keys the server had at every moment of the call

serverVars == <<server, stored, announced>>
publishVars == <<command, givenUp>>
getAllVars == <<step, todo, result, skipped, seen, steady>>
redisVars == <<serverVars, publishVars, open, getAllVars>>

RedisInit ==
  /\ server = [k \in Keys |-> NoEntry]
  /\ stored = [k \in Keys |-> {}]
  /\ announced = [k \in Keys |-> {}]
  /\ command = [e \in Exchanges |-> NoCommand]
  /\ givenUp = {}
  /\ open = TRUE
  /\ step = "keys" /\ todo = {} /\ result = <<>> /\ skipped = {}
  /\ seen = [k \in Keys |-> {}] /\ steady = {}

-----------------------------------------------------------------------------
\* What the call of GetAll under way could see of the new state of the server.
Watch ==
  /\ seen' = [k \in Keys |->
                IF server'[k] = NoEntry \/ step # "gets" THEN seen[k]
                                                         ELSE seen[k] \cup {server'[k].data}]
  /\ steady' = {k \in steady : server'[k] # NoEntry}
  /\ UNCHANGED <<step, todo, result, skipped>>

\* The server executes a command.
Execute(c) ==
  /\ IF c.op = "set"
       THEN /\ server' = [server EXCEPT ![c.key] = [data |-> c.data, age |-> 0]]
            /\ stored' = [stored EXCEPT ![c.key] = @ \cup {c.data}]
            /\ UNCHANGED announced
       ELSE /\ announced' = [announced EXCEPT ![c.key] = @ \cup {c.data}]
            /\ UNCHANGED <<server, stored>>
  /\ Watch

Send(e, c) == command' = [command EXCEPT ![e] = c]

\* Mutant: a goroutine per message, so that tickers come in any order.
PublishInAnyOrder(e, s, d) ==
  /\ open
  /\ command[e] = NoCommand
  /\ Send(e, [op |-> "set", key |-> <<e, s>>, data |-> d])
  /\ UNCHANGED <<serverVars, givenUp, open, getAllVars>>

\* Publish of the next ticker of a key.
Publish(e, s, d) ==
  /\ open
  /\ command[e] = NoCommand
  /\ \A old \in stored[<<e, s>>] : old < d
  /\ \A c \in givenUp : c.key = <<e, s>> => c.data < d
  /\ Send(e, [op |-> "set", key |-> <<e, s>>, data |-> d])
  /\ UNCHANGED <<serverVars, givenUp, open, getAllVars>>

\* After SET comes PUBLISH, after PUBLISH the return.
Following(c) == IF c.op = "set" THEN [c EXCEPT !.op = "publish"] ELSE NoCommand

\* The server executes the command and its answer arrives.
Answered(e) ==
  /\ open
  /\ command[e] # NoCommand
  /\ Execute(command[e])
  /\ Send(e, Following(command[e]))
  /\ UNCHANGED <<givenUp, open>>

GiveUp(c) ==
  \/ UNCHANGED givenUp
  \/ Cardinality(givenUp) < MaxLate /\ givenUp' = givenUp \cup {c}

\* An attempt times out, and the client library sends the command again.
Retry(e) ==
  /\ command[e] # NoCommand
  /\ GiveUp(command[e])
  /\ UNCHANGED <<serverVars, command, open, getAllVars>>

\* Mutant: the error of SET is only logged, like that of PUBLISH.
AnnounceAnyway(e) ==
  /\ command[e] # NoCommand
  /\ GiveUp(command[e])
  /\ Send(e, Following(command[e]))
  /\ UNCHANGED <<serverVars, open, getAllVars>>

\* The last attempt times out or is refused: an error of SET ends Publish, an
\* error of PUBLISH is logged.  Either way Publish returns.
Fail(e) ==
  /\ command[e] # NoCommand
  /\ GiveUp(command[e])
  /\ Send(e, NoCommand)
  /\ UNCHANGED <<serverVars, open, getAllVars>>

\* The server receives, out of order, a command that was given up.
ExecuteLate ==
  /\ \E c \in givenUp : Execute(c) /\ givenUp' = givenUp \ {c}
  /\ UNCHANGED <<command, open>>

-----------------------------------------------------------------------------
\* KEYS ticker:<exchange>:*
ListKeys(e) ==
  /\ open
  /\ step \in {"keys", "returned"}
  /\ todo' = {k \in {e} \X Symbols : server[k] # NoEntry}
  /\ step' = IF todo' = {} THEN "returned" ELSE "gets"
  /\ result' = <<>>
  /\ skipped' = {}
  /\ steady' = todo'
  /\ seen' = [k \in Keys |-> IF k \in todo' THEN {server[k].data} ELSE {}]
  /\ UNCHANGED <<serverVars, publishVars, open>>

\* KEYS fails, or the client is closed: GetAll returns the error and no map.
KeysFail ==
  /\ step \in {"keys", "returned"}
  /\ step' = "keys"
  /\ result' = <<>>
  /\ skipped' = {} /\ steady' = {}
  /\ seen' = [k \in Keys |-> {}]
  /\ UNCHANGED <<todo, serverVars, publishVars, open>>

Remaining(k) ==
  /\ step = "gets"
  /\ k \in todo
  /\ todo' = todo \ {k}
  /\ step' = IF todo' = {} THEN "returned" ELSE "gets"
  /\ UNCHANGED <<serverVars, publishVars, open, seen, steady>>

\* GET of one key.
ReadKey(k) ==
  /\ open
  /\ Remaining(k)
  /\ server[k] # NoEntry
  /\ result' = [q \in DOMAIN result \cup {k} |-> IF q = k THEN server[k].data ELSE result[q]]
  /\ UNCHANGED skipped

\* Mutant: no continue after an error.
EmptyKey(k) ==
  /\ Remaining(k)
  /\ result' = [q \in DOMAIN result \cup {k} |-> IF q = k THEN NoAnswer ELSE result[q]]
  /\ skipped' = skipped \cup {k}

\* The key has expired, or the GET fails: continue.
SkipKey(k) ==
  /\ Remaining(k)
  /\ skipped' = IF server[k] = NoEntry THEN skipped ELSE skipped \cup {k}
  /\ UNCHANGED result

-----------------------------------------------------------------------------
\* Close, once, by main: from now on no answer arrives.
CloseClient ==
  /\ open
  /\ open' = FALSE
  /\ UNCHANGED <<serverVars, publishVars, getAllVars>>

\* A unit of time at the server.
Expire ==
  /\ server' = [k \in Keys |->
                  IF server[k] = NoEntry \/ server[k].age = TTL
                    THEN NoEntry
                    ELSE [server[k] EXCEPT !.age = @ + 1]]
  /\ Watch
  /\ UNCHANGED <<stored, announced, publishVars, open>>

RedisNext ==
  \/ \E e \in Exchanges :
       \/ \E s \in Symbols, d \in Data : Publish(e, s, d)
       \/ Answered(e) \/ Retry(e) \/ Fail(e) \/ ListKeys(e)
  \/ ExecuteLate
  \/ KeysFail
  \/ \E k \in Keys : ReadKey(k) \/ SkipKey(k)
  \/ CloseClient
  \/ Expire

RedisSpec == RedisInit /\ [][RedisNext]_redisVars

-----------------------------------------------------------------------------
(* "Store in Redis", then "publish to channel": subscribers of the channel  *)
(* are never told of a ticker that was never in the store, whichever        *)
(* command fails, is retried or is executed late.                           *)
AnnouncedWasStored == \A k \in Keys : announced[k] \subseteq stored[k]

(* GetAll is not atomic, but regular: every ticker it returns was stored at *)
(* some moment of the call, and a key that was there all the time is left   *)
(* out only if its own GET failed.                                          *)
GetAllRegular ==
  step = "returned" =>
    /\ \A k \in DOMAIN result : result[k] \in seen[k]
    /\ steady \ skipped \subseteq DOMAIN result

Holds(k, d) == server[k] # NoEntry /\ server[k].data = d

\* A key comes to hold a ticker.
Stores(k, d) == ~Holds(k, d) /\ Holds(k, d)'

NewestOrLate ==
  \A k \in Keys, d \in Data :
    Stores(k, d) =>
      \/ \A old \in stored[k] : old <= d
      \/ \E c \in givenUp \ givenUp' : c.op = "set" /\ c.key = k /\ c.data = d

(* The server never goes back to an older ticker by itself: what a key comes *)
(* to hold is the newest ticker ever stored there, unless a SET that the     *)
(* client had given up is executed late.  Retries alone do no harm.          *)
NewestUnlessLate == [][NewestOrLate]_redisVars
=============================================================================
