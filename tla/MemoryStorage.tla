---------------------------- MODULE MemoryStorage ---------------------------
(***************************************************************************)
(* internal/storage/memory_storage.go.  Every operation is one critical     *)
(* section of m.mu, so one action.  The two-level map is a function on      *)
(* <<exchange, symbol>> keys (an exchange is present in m.data iff one of   *)
(* its keys has an entry), and a timestamp is kept as its age, which is     *)
(* what the code compares with the TTL.                                     *)
(***************************************************************************)
EXTENDS Naturals

CONSTANTS
  Exchanges, Symbols,
  Data,              \* serialized tickers
  TTL,               \* m.ttl
  CleanupInterval,   \* m.cleanupInterval
  NoEntry, NotFound, Failed

Keys == Exchanges \X Symbols

\* Ages above MaxAge are not told apart: they are all expired.
MaxAge == TTL + CleanupInterval + 1

Entries == [data : Data, age : 0..MaxAge]

ASSUME StorageAssumption ==
  /\ TTL \in Nat
  /\ CleanupInterval \in Nat \ {0}
  /\ NoEntry \notin Entries
  /\ NotFound \notin Data /\ Failed \notin Data

VARIABLES
  entry,          \* m.data
  untilCleanup,   \* time to the next tick of the clean-up goroutine
  cleaning,       \* the clean-up goroutine is running
  answer          \* the result of the last Get or GetAll

vars == <<entry, untilCleanup, cleaning, answer>>

\* NewMemoryStorage
Init ==
  /\ entry = [k \in Keys |-> NoEntry]
  /\ untilCleanup = CleanupInterval
  /\ cleaning = TRUE
  /\ answer = NotFound

Expired(k) == entry[k].age > TTL

Publish(k, d) ==
  /\ entry' = [entry EXCEPT ![k] = [data |-> d, age |-> 0]]
  /\ UNCHANGED <<untilCleanup, cleaning, answer>>

\* Mutant: expiry is left to the clean-up.
GetUnchecked(k) ==
  /\ answer' = IF entry[k] = NoEntry THEN NotFound ELSE entry[k].data
  /\ UNCHANGED <<entry, untilCleanup, cleaning>>

Get(k) ==
  /\ answer' = IF entry[k] = NoEntry \/ Expired(k) THEN NotFound ELSE entry[k].data
  /\ UNCHANGED <<entry, untilCleanup, cleaning>>

GetAll(e) ==
  /\ LET readable == {k \in {e} \X Symbols : entry[k] # NoEntry /\ ~Expired(k)}
     IN  answer' = [k \in readable |-> entry[k].data]
  /\ UNCHANGED <<entry, untilCleanup, cleaning>>

\* Mutant: entries get one more clean-up interval.
RemoveLate ==
  /\ cleaning
  /\ untilCleanup = 0
  /\ entry' = [k \in Keys |->
                 IF entry[k] # NoEntry /\ entry[k].age > TTL + CleanupInterval
                   THEN NoEntry ELSE entry[k]]
  /\ untilCleanup' = CleanupInterval
  /\ UNCHANGED <<cleaning, answer>>

RemoveExpired ==
  /\ cleaning
  /\ untilCleanup = 0
  /\ entry' = [k \in Keys |->
                 IF entry[k] # NoEntry /\ Expired(k) THEN NoEntry ELSE entry[k]]
  /\ untilCleanup' = CleanupInterval
  /\ UNCHANGED <<cleaning, answer>>

\* Called once, by main; a second call would close a closed channel.
Close ==
  /\ cleaning
  /\ cleaning' = FALSE
  /\ UNCHANGED <<entry, untilCleanup, answer>>

\* Time passes; the clean-up goroutine is not late by a whole unit.
Tick ==
  /\ cleaning => untilCleanup > 0
  /\ untilCleanup' = IF cleaning THEN untilCleanup - 1 ELSE untilCleanup
  /\ entry' = [k \in Keys |->
                 IF entry[k] = NoEntry \/ entry[k].age = MaxAge
                   THEN entry[k]
                   ELSE [entry[k] EXCEPT !.age = @ + 1]]
  /\ UNCHANGED <<cleaning, answer>>

Next ==
  \/ \E k \in Keys :
       \/ \E d \in Data : Publish(k, d)
       \/ Get(k)
  \/ \E e \in Exchanges : GetAll(e)
  \/ RemoveExpired
  \/ Close
  \/ Tick

Spec == Init /\ [][Next]_vars

-----------------------------------------------------------------------------
(* Types; an answer is data, "not found", or data for some keys.            *)
TypeOK ==
  /\ entry \in [Keys -> Entries \cup {NoEntry}]
  /\ untilCleanup \in 0..CleanupInterval
  /\ cleaning \in BOOLEAN
  /\ \/ answer \in Data \cup {NotFound}
     \/ \E ks \in SUBSET Keys : answer \in [ks -> Data]

(* Memory is bounded in time: while the clean-up runs, no entry stays in    *)
(* the map longer than the TTL and one clean-up interval.                   *)
NoStaleGarbage ==
  cleaning => \A k \in Keys :
                entry[k] # NoEntry => entry[k].age <= TTL + CleanupInterval

\* The entries a reader can get.
Live == [k \in Keys |->
           IF entry[k] = NoEntry \/ Expired(k) THEN NoEntry ELSE entry[k]]

Store == INSTANCE TickerStore WITH live <- Live

(* The lazy check on reading and the periodic removal together implement a  *)
(* store in which an entry is readable for exactly the TTL.                 *)
ImplementsStore == Store!StoreSpec
=============================================================================
