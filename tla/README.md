# Verification of ticker-service-v2

TLA+ models, TLC runs and TLAPS proofs for the ticker service: a Go program that
keeps one WebSocket connection per exchange, normalises what it receives,
stores the last ticker of each symbol with a time to live, and serves it over
HTTP.

Contents: [inventory](#inventory), [modules](#modules), [how the models
correspond to the code](#correspondence), [runs](#runs), [what disagrees with the
documentation](#disagreements), [proofs](#proofs), [what is not
modelled](#not-modelled), [plan](#plan).

## Inventory

| component | source | state it keeps | operations | what is hard |
|---|---|---|---|---|
| handler skeleton (OKX, Bitget, Bybit, Gate) | `internal/exchanges/{okx,bitget,bybit,gate}.go` | `h.conn`, `h.status`, `h.config.Symbols`, counters | `Connect`, `subscribe`, `Close`, `HandleMessages`, `Subscribe`, `Unsubscribe`, `reconnect`, `keepAlive`, `GetStatus` | the run loop and HTTP requests reconnect the same handler at the same time; `subscribe` reads the list without the lock and `h.conn` later; pingers outlive their connection |
| Binance handler | `internal/exchanges/binance.go` | the same, plus a set of symbols under its own lock | one stream of all symbols, filtered on arrival; `Subscribe`/`Unsubscribe` change the set only | filter looked up, lock released, ticker published afterwards |
| Bybit cache | `internal/exchanges/bybit.go` | `tickerCache` under `cacheMu` | merge of partial updates; cleared by `reconnect` | a partial update read from the old connection merged after the cache was cleared |
| message processing | `processMessage` of each handler | none | which messages are tickers, which are errors | five message grammars, in which a reply can look like a ticker |
| pingers | `keepAlive` of each handler | the connection just looked up | a tick every 20 or 30 s: look `h.conn` up, ping it, return on an error | one more per `Connect`, tied to no connection |
| manager | `internal/exchanges/manager.go` | map of handlers, wait group, backoff per goroutine | `AddExchange`, `Start`, `runExchange`, `Subscribe`, `Unsubscribe`, `publishTicker`, `Wait` | the loop closes whatever is current when it wakes up |
| memory storage | `internal/storage/memory_storage.go` | map exchange -> symbol -> (data, time), 10 s TTL | `Publish`, `Get`, `GetAll`, background clean-up, `Close` | expiry must not depend on when the clean-up runs |
| Redis storage | `internal/storage/redis_storage.go` | keys with TTL in Redis | `Publish` (SET, PUBLISH), `Get`, `GetAll` (KEYS, then GET each) | operations of several commands, each of which can fail, be repeated, or arrive late |
| HTTP server | `internal/server/server.go` | none of its own | ticker, status, metrics, health, subscribe, unsubscribe | auto-subscription: two look-ups and a sleep under one 2 s deadline |
| service | `cmd/ticker/main.go` | lifecycle | storage choice, start, signal, shutdown | what is still running when `main` returns, and how long it waits |
| symbol conversion | `internal/exchanges/symbol_converter.go` | none | config -> WebSocket -> storage format | round trip per exchange, spellings |
| configuration, logging, unused Redis client | `internal/config`, `internal/logger`, `internal/redis` | read at start | | |

How they interact. `main` builds one handler per enabled exchange and gives it to
the manager, which runs each in a goroutine (`runExchange`): connect, register a
callback, read messages until an error, close, start over. The callback turns a
ticker into JSON and calls `storage.Publish` in the same goroutine. Every HTTP
request runs in a goroutine of its own and calls the storage, or
`manager.Subscribe`/`Unsubscribe`, which call the handler directly. So the
connection state of a handler is shared by the run loop, any number of requests
and a pinger per `Connect`, under a lock (`h.mu`) that covers single accesses
only, never a whole `Connect` or `reconnect`.

What makes each component correct:

* handler and manager: the connection in use is not a closed one and carries a
  subscription to every listed symbol; a reconnection replaces a connection
  instead of adding one; a removed symbol is no longer received; a lost
  connection is replaced; a cancelled context stops the loop and leaves nothing
  open;
* Binance: nothing is published for a symbol nobody subscribed to;
* Bybit: a published ticker has all its fields;
* storage: the last ticker, for the TTL, and not longer; Redis: nothing announced
  that was not stored, a `GetAll` made of several reads is still one of the call;
* ticker request: data that arrives while the request waits is served;
* pingers: a connection in use is pinged, and every pinger returns when the handler
  is left without a connection;
* names and messages: what is stored under a name a client can ask for is a
  ticker, of a symbol somebody asked for; a listed symbol comes to be found;
* service: the storage outlives those who use it, and a signal ends the process
  within a bounded time.

## Modules

| module | models | extends / instantiates |
|---|---|---|
| `OkxHandler` | the handler's shared state, one action per critical section or network call of its methods | |
| `ExchangeLoop` | `runExchange`, concurrent requests, network, shutdown | `OkxHandler` |
| `KeepAlive` | the pingers of a handler | `ExchangeLoop` |
| `GateHandler` | Gate's `subscribe`, one write per symbol | `ExchangeLoop` |
| `BybitHandler` | snapshot/delta messages, the cache, Bybit's `reconnect` | `ExchangeLoop`, and as its refinement by `INSTANCE ... WITH pc <- ConnectionPc` |
| `BinanceHandler` | the symbol filter between the reader and requests | |
| `SymbolNames` | names and messages of all five exchanges, from list to look-up | |
| `TickerStore` | abstract specification of a storage | |
| `MemoryStorage` | the memory storage, its clean-up and time | `TickerStore` by `INSTANCE ... WITH live <- Live` |
| `RedisStorage` | the Redis storage, command by command, and the server | |
| `Storage` | the backend `main` chooses | `MemoryStorage`; instance of `RedisStorage` |
| `TickerRequest` | `handleTicker` with auto-subscription, `handleSubscribe`, `handleUnsubscribe` | `BinanceHandler`; instance of `TickerStore` |
| `Service` | `main`: start, signal, shutdown, exit; how long each activity may take | |
| `*_proofs` | theorems about the module of that name; `Handlers_proofs`: about `KeepAlive` and `BybitHandler`; `TickerRequest_proofs`: also about `BinanceHandler` | that module, `TLAPS` |
| `MC*` | small instances for TLC | the module of that name |

Definitions introduced by a comment `Mutant` are altered forms of the operator
that follows them. No specification uses them; each breaks a property, which
shows that the property depends on what the code does there.

## Correspondence

**OkxHandler, ExchangeLoop.** A connection is an identity with a socket state:
`idle`, `open`, `dropped` (lost, not closed here), `closed` (`Close` was called
on it). `conn`, `connected` and `symbols` are `h.conn`, `h.status.Connected` and
`h.config.Symbols`; `dialed`, `sock` and `args` are the locals of an actor that
live across a step; `pc` is the place it is at. `Close` is one critical section,
so an operator that the actions which close conjoin. `Connect` is `DialOk` or
`DialFail`, `Install`, `ReadSymbols`, `PickConn`, `WriteOk` or `WriteFail`, and
`Abort` (the `h.Close()` after a failed subscribe). `HandleMessages` is
`ReadNext` (context, copy of `h.conn`), then `Receive` or `ReadError`. A request
is `BeginUpdate`, `StoreSymbols` (two steps under `h.mu`, because `subscribe`
reads the list without it), `Reconnect`, a `Connect`, `ReturnToCaller`.
`bitget.go` has these steps statement for statement.

The unlocked read of `config.Symbols` is a data race: an overlapping read may
see the pointer of one slice header and the length of the other. `TornReads`
lists the outcomes: the old or the new list, or the old one cut to the new
length. Reading one string too many (new length, old array with spare capacity)
yields an empty name that subscribes nothing and is left out.

`Collect` is the finalizer of a `net.Conn` nobody refers to any more. It also
lets a small set of connection identities serve an unbounded history.

**KeepAlive.** The step in which a `Connect` leaves `subscribe` without an error
(`WriteOk`) starts a pinger. `pinger` has the place of each goroutine: waiting for
its tick, about to ping the connection it has just copied, or ended, when its
identity can be used again. The code has no bound for their number; in the model a
`WriteOk` waits while no identity of `Pingers` is free, and the proofs are for
every set of them. A connection that is replaced between two ticks leaves its
pinger to the next one, so that they accumulate, here as in the code.

**GateHandler** replaces `PickConn` and `WriteOk` by a loop: `PickForSymbol`
looks `h.conn` up for the next symbol or ends the loop, `WriteSymbol` writes one.
Everything else is `OkxHandler`'s.

**BybitHandler** adds what `ReadMessage` returns (the first ticker of a symbol on
a connection has all fields, later ones any of them), the merge under `cacheMu`
followed by the callback, and `reconnect` as three steps: close, clear, dial. A
ticker is its set of populated fields. `partial` and `stale` are history: the
connections that delivered an incompletely published ticker, and those dialled
before the cache was last cleared. `ImplementsLoop` says that none of this touches
the connection: with an actor that merges counted as about to read again, and one
that clears as about to dial (`ConnectionPc`), every step is a step of
`ExchangeLoop` or leaves it as it is.

**BinanceHandler.** `batch` is the array being worked through, `passed` the
symbol whose look-up succeeded and which is not yet published; `Check` is the
look-up under `symbolsMu`, `Publish` the conversion and callback after it is
released. `processMessage` also accepts a single JSON object and does not filter
it (`ReceiveObject`); the property is about the symbols that come in arrays,
which is what the stream the handler dials carries. `late` counts publications
of a symbol that is not subscribed, since it last was.

**SymbolNames.** A name is a base with the separator before the quote, its case
and OKX's suffix, each named in a word, which is all that `ConfigToWebSocket`, `WebSocketToStorage` and
the handlers' own replacements look at. A message has a class (tickers,
acknowledgement, rejection, pong, reply), the names it is about, the names it has
data of, and whether these are in an array; `OkxNames` ... `BinanceNames` are the
five `processMessage`s as functions from a message to the names it is published
under. Binance's takes any object for a ticker of the symbol it names, listed or
not; for which symbols it sends such objects is a constant (`SentAlone`), since the
stream the handler dials carries arrays. The list is a set of spellings: a symbol
can be on it twice. Any symbols are configured. Reconnections are atomic here, their
interleavings being `ExchangeLoop`'s, but what they leave behind is kept: of the
exchanges with subscriptions, messages may be about every symbol that was ever on
the list (`asked`), because a message may have been read before `Unsubscribe`, a
replaced connection may still be read, and a `Connect` that has read the old list
may write it to a newer connection.

**TickerStore, MemoryStorage.** Each operation of the memory storage is one
critical section of `m.mu`. Time is in whole seconds, a time stamp is kept as its
age, which is all the code looks at. The refinement maps an expired entry to
nothing (`Live`): reading hides it at once, the clean-up removes it later, and
neither is visible in `TickerStore`.

**RedisStorage.** `Publish` is SET, then PUBLISH, then the return: a publisher
waits in `command` until the command is `Answered` or has `Fail`ed for good.
go-redis repeats a command that times out (`Retry`), and one that was given up
may still be executed, later than its successors (`givenUp`, `ExecuteLate`). An
error of SET ends `Publish`; one of PUBLISH is only logged. `GetAll` is KEYS
(`ListKeys`, or `KeysFail`, which returns no map) and a GET per key (`ReadKey`, `SkipKey`); `seen` and `steady` are
what the call could have seen. Each exchange has one publisher, its run loop, whose
tickers are numbered in the order of the stream, so that an older one can be told
from a newer one (`NewestUnlessLate`).
`Get` is one command and appears in `TickerRequest`.

**Storage.** `main` takes Redis if it is configured and answers, else the memory
storage, and never changes: `backend` is chosen in the initial state.

**TickerRequest.** The reader of `BinanceHandler` publishes into `TickerStore`;
requests run `Request` (context created), `FirstGet`, `AutoSubscribe`, sleep,
`SecondGet`. `HonoursContext` tells the two storages apart: the memory storage
ignores its context, a Redis operation fails once the context is done. `stream`
is history: whether the reader came past the symbol during the sleep and whether
somebody removed it first.

**Service.** Of a run loop only the activity it is in (`at`) and the time it may
still spend in it (`left`) are kept; `Top` and `Check` are the two places where
it looks at the context. A message may bring several tickers to be stored, one call
of `storage.Publish` after the other, without a look at the context: `batch` counts
those still to come. Binance's array has as many as there are subscribed symbols;
the model lets every handler have up to `MaxTickers`. `phase` is how far `main` is: `cancel()`, `srv.Shutdown`
with its timeout (`drainLeft`), `manager.Wait()`, and the deferred `stor.Close()`.
A failing `ListenAndServe` ends the process at once (`killed`). Time (`Tick`)
passes when nobody has a step to take that needs none. `since` is history: the
time since the signal.

## Runs

| run | instance | what it shows |
|---|---|---|
| `keep_alive` | 1 request at a time, 2 connections, 1 symbol, 2 pingers at a time | `TypeOK`; `CurrentConnSubscribed`, `CurrentConnNotClosed` under all interleavings of the run loop with a reconnecting request; `KeptAlive`: the current connection has a pinger though pingers are shared by connections; `PingersEnd`: when the handler is finally without a connection, all of them return |
| `loop_live` | 1 request, 2 connections, 1 symbol | `LoopEnds`: once the context is cancelled every step of the loop brings it nearer to its end; `LoopStops`, `ReaderFollows`, `Recovers` under `ReachableSpec` |
| `gate` | 2 requests at a time, 2 connections, 2 symbols, one listed at start | `CurrentConnSubscribed` and `CurrentConnNotClosed` when the list is written symbol by symbol |
| `bybit_dynamic` | 1 request, 1 symbol, 2 fields | `ImplementsLoop`: merging and clearing leave the connection alone; `FreshConnComplete`: only a connection that was there before a request cleared the cache delivers tickers that are published incomplete; so without requests none is |
| `names` | 2 symbols, 4 spellings each, 5 exchanges, 1 symbol also sent as an object | `NoEmptyServed`: no reply, rejection or pong is served as a ticker without prices; `PublishedWasAsked`: what is published was asked for at some time, or was sent alone by Binance, and is under the name `GET` looks up; `ListedIsServed`: what is listed comes to be found |
| `storage` | both backends; 1 exchange, 2 symbols, 2 tickers; memory with TTL 10 and clean-up every 5, Redis with TTL 1 and 1 late command | memory: `NoStaleGarbage`, `ImplementsStore`; Redis: `AnnouncedWasStored`, `GetAllRegular`, `NewestUnlessLate`: only a SET that was given up puts an older ticker over a newer one |
| `request_memory` | 2 requests, 2 symbols, one also sent as an object | `AtMostOneLate`, `ServedWhenCarried` |
| `service` | 2 exchanges, up to 4 tickers a message, 2 requests, unit of 15 s | `StorageOutlivesLoops`, `RequestsDrained`, `ExitBounded`: the exit takes at most a dial and a backoff sleep, or a read and the storing of all tickers it brought; `SignalEnds` |
| `reconnect_single`, `bybit_partial`, `request_redis`, `service_grace` | small | [disagreements](#disagreements) |

Bounds, and why they are enough.

* `Conns` has two identities. An identity comes back through `Collect`, so it
  bounds the connections in use at one time, not their number; with none free a
  dial waits. Two are one more than the handler has a place for. `Callers` are
  requests in the handler at one time: two (in `gate`) let a request overlap the
  loop and another request in every order. What one request cannot show in the
  other runs is covered by the proofs, which hold for any number.
* `Pingers` are two: one may be on an earlier connection, or left over from it,
  while the other was started for the current one.
* Two symbols tell the list from its parts; one is enough for liveness, where no
  property looks at the list, and for `KeptAlive`.
* `MaxBackoff` is 1: the cap is reached at once, and no guard reads the delay;
  the proof of `TypeCorrect` has every cap.
* `MaxAge`: ages above the TTL, one interval and one second are merged; they are
  all expired. `MaxLate` of `BinanceHandler`: the counter stops at 2 (at 0 where
  it is not used); the property is about reaching 2. `MaxLate` of `RedisStorage`
  bounds the commands given up and still under way at one time: 1 lets one
  overtake any number of others.
* `Versions` are the tickers of a key in the order of the stream: two tell an
  older from a newer one. `RedisTTL` is 1: a key may expire between any two
  commands.
* `RequestMemory` has a TTL of 2 instead of 10: only TTL >= sleep matters, which
  `RequestAssumption` states and the proof uses; equality is the hardest case.
* `Service` counts in units of 15 s, durations rounded up: a dial 3 (the WebSocket
  library's handshake timeout, 45 s), a read 4 (60 s), a backoff sleep at most 4,
  a call of `Publish` 1, `Shutdown` 1 (10 s), a request 4 (it may hold a dial).
  `MaxTickers` is 4, so that a read and the storing of its tickers (8) are longer
  than a dial and a sleep (7), and the bound is that of the message. In the code it
  is the number of subscribed symbols. The proof has every value.
* `SentAlone` is one symbol of the two, so that an object about a listed symbol, about
  an unlisted one and about none all occur.

`CHECK_DEADLOCK FALSE` stands where the system really stops: in `service` after
the exit, and in `storage` when Redis is closed while nothing is under way (time
then goes on without changing anything).

Fairness. `Scheduling`: the run loop is strongly fair and a request inside the
handler too: Go schedules every runnable goroutine, `sync.RWMutex` hands the lock
to a waiter after bounded overtaking, so a lock that is free infinitely often is
got; `ReadMessage` ends within the 60 s deadline, sleeps and writes end. Nothing
is assumed about new requests or about shutdown. `Recovers` in addition needs an
environment in which recovery is possible (`ExchangeReachable`): a loop that
dials again and again is eventually let in, and unreachable sockets are
eventually collected, without which the bound on `Conns` would stop the system.
`LoopStops` and `ReaderFollows` are checked under the same specification.
`PingerScheduling`: every pinger gets its ticks and its writes end, and the holder
of `h.mu` releases it; nothing else is assumed to go on. `SymbolNames!FairSpec`: the
exchange keeps sending tickers of a symbol while it is on the list, for otherwise
nothing can be served; of removed ones nothing is assumed. `Service!FairSpec`: goroutines are scheduled, deadlines and sleeps end,
handlers of requests return, time passes.

## Disagreements

Runs that end in a violation on purpose. Each states what the repository says
of itself.

* `reconnect_single`: "reconnect closes current connection and establishes a new
  one" (`okx.go:349`). `ReplacedIsClosed`: a connection that is not closed is the
  current one or about to be installed. In the run, the run loop has dialled a
  connection and not yet installed it when a request changes the list. `reconnect`
  finds no connection to close and dials another while the loop installs its own;
  then `Connect` overwrites `h.conn` with the second, and the first stays open until
  garbage collection. The same overwriting follows, with nothing rare about it, when
  the run loop sees the close of `reconnect`, starts over at once and installs a
  connection before `reconnect` wakes up after 500 ms and dials too.
* `bybit_partial`: "With caching, all fields remain populated with latest
  values" (`bybit_test.go:22`). A delta read before the close is merged after the
  clearing.
* `request_redis`: "Auto-subscribes to new symbols (2-second delay for first
  request)" (`README.md:100`). The context of the look-ups has the same two
  seconds as the sleep between them.
* `service_grace`: "give the app 30s to complete shutdown"
  (`docker-compose.yml:9`). A run loop that the signal meets in a dial, a backoff
  sleep or a read of a silent connection takes up to 45 s and 60 s, 60 s and
  60 s to look at the context; `manager.Wait` has no timeout. `ExitBounded`
  (run `service`) is what does hold.

Noted while modelling, without a run of their own:

* A reconnection that a request has started can install a connection after the
  run loop has closed the handler for good (`manager.go:67`): `Wait` counts only
  the loops (`main.go:108`). `SoloStopped`, `GateSolo` and
  `SoloConnection` are what holds without requests, for OKX and Bitget, Gate, Bybit.
* A `Connect` that has read the list before an `Unsubscribe` and is then overtaken
  writes the removed symbol on the newer connection (`okx.go:98`), between two
  statements of `subscribe`. Its tickers then keep coming (`asked` of `SymbolNames`),
  although `Unsubscribe` "removes a symbol" (`okx.go:319`).
* Pingers accumulate: every `Connect` starts one (`okx.go:88`), and one whose
  connection is replaced between two of its ticks goes on with the next connection.
  `PingersEnd` is about what happens when there is none any more.
* `bybit_test.go:143,160` and `TEST_DOCUMENTATION.md:73-77` say that Bybit's cache
  survives reconnections. It survives those of the run loop; `reconnect`, by which a
  request changes the list, clears it (`bybit.go:409-412`). No property relies on
  either: `FreshConnComplete` is stated relative to the last clearing.
* Two pingers, or a pinger and `subscribe`, may write to one connection at the
  same time (`okx.go:289`), which the WebSocket library does not allow.
* `Unsubscribe` of Bybit, Bitget, OKX and Gate compares spellings: `BTCUSDT` does
  not remove `btc-usdt`, and the request is still answered `unsubscribed`.
* A `GET` of a symbol that is not stored, on an exchange other than Binance, adds
  it to the list and reconnects, and is answered that the exchange requires
  pre-configuration (`server.go:125-143`).
* `gate.go:234` speaks of "both single object and array formats"; an object in
  `result` fails to parse, as `GateNames` has it.
* `status.Symbols` (`okx.go:265`) keeps the configured list, and `reconnectCount`
  (`okx.go:90`) counts the first connection.

## Proofs

All are for every value of the constants that satisfies the module's named
assumption.

* `ExchangeLoop_proofs`: `TypeCorrect`, `NotClosed`, `Subscribed`, from
  `Invariance == Spec => []IInv`. `CurrentConnSubscribed` is not inductive: it
  speaks of the moment after a `Connect` has left `subscribe`, and is true there
  because of what was true of its locals before. `IInv` adds what the actors in
  between know: that `h.mu` is held exactly by the caller storing a list
  (`LockInv`), that a dialled connection has one dialler and is not closed before
  it is installed (`DialedInv`), and that a `Connect` whose connection is still
  current writes to that connection, with a list that covers the present one
  unless an update is about to close it (`WriterInv`). One lemma per group of
  actions (loop, caller, environment), one step per action. `SoloSingle` and
  `SoloStopped` assume `Callers = {}`: what requests break (`ReplacedIsClosed`, that
  there is one unclosed connection at most, and that none is left) holds
  without them, from an invariant that says where the one connection can be.
  `LoopEnding`: `LoopEnds`, by the rank `StepsToStop` of the places the loop can be
  at; the two places that lead back to a dial or to a read look at the context
  first. It is not claimed of Gate, whose `subscribe` goes on through the list
  whatever the context says.
* `Handlers_proofs`, pingers: `PingersDisturbNothing`, a handler with pingers takes
  only steps of `ExchangeLoop`, so that its invariants and `LoopEnds` carry over;
  `ConnectionKeptAlive`. A pinger that is about to ping an earlier connection may
  give up, and one that has ended may be started again for another connection; what is
  inductive is that some pinger is waiting, or is on the current connection, whenever
  that is settled and alive.
* `Handlers_proofs`, Bybit: `LoopImplemented`, the refinement `ImplementsLoop`,
  action by action under `ConnectionPc`. From it `ConnectionInvariance` (the
  inductive invariant of `ExchangeLoop` holds of Bybit's connection),
  `ConnectionSafe`, `BybitLoopEnds` and `SoloConnection`. `Fresh`:
  `FreshConnComplete`, from `CacheInv`: what was sent in full on a connection
  dialled since the cache was last cleared is in the cache in full, or is the
  message being merged; the types and the state of the connection it rests on come
  from `ConnectionInvariance`. `SoloComplete`: without requests every published
  ticker is complete, so that `bybit_partial` needs a request.
* `GateHandler_proofs`: `GateSubscribed`, `GateNotClosed`, `GateSolo`. `GateWriterInv`: what is
  already written on the current connection and what its `Connect` has still to
  write together cover the list, until an update is about to close it.
* `Storage_proofs`. Memory: `TypeCorrect`; `Bounded`, from an invariant that ties
  the age of an entry to the time left until the next clean-up; `Refinement`, by
  showing that `Publish`, `Get`, `GetAll` and `Tick` are the corresponding steps
  of `TickerStore` on `Live`, and `RemoveExpired` and `Close` stutter.
  Composition: `BackendsApart`, every behaviour of `Storage` is one of both
  backends; `StorageImplements`, `StorageAnnounced`, `StorageRegular` and
  `StorageNewest` follow from the theorems about them.
* `RedisStorage_proofs`: `AnnouncedStored`, since every PUBLISH that is on its way,
  on time or late, follows a SET that was executed; `Regular`, since a key still
  to be read shows only what the call has seen, and no key leaves the account of
  read, unread and skipped. `Newest`: `NewestUnlessLate`, from `StreamInv`: the
  ticker of a publisher is at least as new as what was ever stored under its key
  and what is still under way late, however often a command is repeated.
* `TickerRequest_proofs`: `Filtered`, of `BinanceHandler`. Inductive is that a symbol
  which is subscribed, or past the filter, has not been published late yet. `Served`, for storages that ignore contexts. Inductive
  is that a symbol waited for stays subscribed until it is carried or removed, and
  that afterwards the age of its entry and the rest of the sleep together do not
  exceed the sleep, hence the TTL. `FilteredInService`: the composition takes only
  steps of `BinanceHandler`, so `Filtered` carries over.
* `Service_proofs`: `Bounded`, `Outlived`, `DrainedFirst`. Inductive for the bound
  is a budget: time since the signal, time left to the present activity and to those
  that may follow it without a look at the context, the sleep after a dial or the
  tickers of the batch after the one being stored, never exceed `ExitTime`.
* `SymbolNames_proofs`: `RoundTrip`, every spelling a handler can convert becomes the
  name of an instrument and comes back as the key `GET` looks up, on each of the
  five exchanges; `OnlyTickersServed` (`NoEmptyServed`) and `OnlyAskedPublished`
  (`PublishedWasAsked`), from `ListInv`: what is on the list is a spelling, on
  Binance's the name of an instrument; the instruments the list names are among those
  asked for, which are names of the exchange; and from the fact that the empty name
  of Binance's objects cannot be asked for. `NextTickerServed`: for a symbol that is
  listed there are messages to come, and each of them makes `GET` find it, which is
  the step that `ListedIsServed` repeats under fairness.

Every invariant and every action property of the passing runs, and both
refinements, are stated by theorems. Only model-checked: the properties that need
fairness (`PingersEnd`, `LoopStops`, `ReaderFollows`, `Recovers`, `SignalEnds`,
`ListedIsServed`), which is out of the prover's reach, and the violations, each of
which is one behaviour. `LoopEnding` and `NextTickerServed` are the parts of
`LoopStops` and `ListedIsServed` that do not depend on fairness.

## Not modelled

* Counters, status, metrics, health, logging, configuration: only read or
  written to be shown. Prices and their parsing.
* Overlapping writes on a connection: a write is one step.
* Rates and delays as such. A 500 ms sleep or a 30 s period is a step that may be
  arbitrarily late; TTLs, the request's sleep and deadline, and the durations of
  `Service` are the only times.
* Quotes other than USDT, the only supported one.
* The factory (a switch on the name), types, and `internal/redis`, which the
  service does not import.
* Binance's own connection, which is `OkxHandler`'s without `subscribe` and
  `reconnect` and with no second actor that dials.

## Plan

Done: the core (`OkxHandler`, `ExchangeLoop`), the storages and their refinement,
the other handlers, pingers, requests, names and messages, the life of the
service; theorems for every safety and action property.

Left:

1. `GetAll` of Redis as an implementation of a weaker, regular store, stated as an
   abstract specification of its own.
2. The end of Gate's run loop: a rank that counts the symbols `subscribe` has still
   to write.
3. Overlapping writes of pingers and `subscribe`, with a write of two steps.
