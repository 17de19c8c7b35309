----------------------------- MODULE TickerStore ----------------------------
(***************************************************************************)
(* What internal/storage/interface.go promises its users: Get and GetAll    *)
(* return the last data published for a key, as one atomic step, for        *)
(* exactly TTL time units, whatever the implementation does to keep or      *)
(* discard it.  An operation may also fail to reach the store.              *)
(***************************************************************************)
EXTENDS Naturals

CONSTANTS
  Exchanges, Symbols,
  Data,       \* serialized tickers
  TTL,        \* time to live
  NoEntry,    \* nothing stored under the key
  NotFound,   \* Get returned an error: no data
  Failed      \* an operation could not reach the store

Keys == Exchanges \X Symbols

VARIABLES
  live,    \* the readable entry of each key
  answer   \* the result of the last operation: of Get, Data or an error; of
           \* GetAll, a function from keys to Data

storeVars == <<live, answer>>

StoreInit ==
  /\ live = [k \in Keys |-> NoEntry]
  /\ answer = NotFound

Put(k, d) ==
  /\ live' = [live EXCEPT ![k] = [data |-> d, age |-> 0]]
  /\ UNCHANGED answer

\* One unit of time; an entry of age TTL is not readable after it.
Elapse ==
  /\ live' = [k \in Keys |->
                IF live[k] = NoEntry \/ live[k].age = TTL
                  THEN NoEntry
                  ELSE [live[k] EXCEPT !.age = @ + 1]]
  /\ UNCHANGED answer

Read(k) ==
  /\ answer' = IF live[k] = NoEntry THEN NotFound ELSE live[k].data
  /\ UNCHANGED live

ReadAll(e) ==
  /\ answer' = [k \in {q \in {e} \X Symbols : live[q] # NoEntry} |-> live[k].data]
  /\ UNCHANGED live

Unreachable ==
  /\ answer' = Failed
  /\ UNCHANGED live

StoreNext ==
  \/ \E k \in Keys, d \in Data : Put(k, d)
  \/ Elapse
  \/ \E k \in Keys : Read(k)
  \/ \E e \in Exchanges : ReadAll(e)
  \/ Unreachable

StoreSpec == StoreInit /\ [][StoreNext]_storeVars
=============================================================================
