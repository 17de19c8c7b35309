------------------------- MODULE SymbolNames_proofs -------------------------
(***************************************************************************)
(* SymbolNames for every set of symbols, on every exchange.                 *)
(***************************************************************************)
EXTENDS SymbolNames, FiniteSetTheorems, TLAPS

(* A spelling by its parts.                                                  *)
LEMMA SpellingParts ==
  ASSUME NEW n \in Spellings
  PROVE  \E b \in Bases, s \in {"dash", "none"}, l \in {"lower", "upper"} :
           n = Name(b, s, l, "none")
BY DEF Spellings, Name

(* What GET looks up for a symbol.                                           *)
LEMMA KeyFindable ==
  ASSUME NEW b \in Bases
  PROVE  Key(b) \in Findable /\ Key(b).base = b
<1>1. Key(b) \in Spellings
  BY DEF Spellings, Key, Name
<1>2. Key(b).sep = "dash" /\ ToLower(Key(b)) = Key(b) /\ Key(b).base = b
  BY DEF ToLower, Name, Key
<1>3. QED
  BY <1>1, <1>2 DEF Findable

(* The storage form of the name of an instrument is what GET looks up, for   *)
(* the same base.                                                            *)
LEMMA InstrumentFound ==
  ASSUME exchange \in Exchanges, NEW b \in Bases
  PROVE  /\ StorageName(InstrumentName(b)) = Key(b)
         /\ InstrumentName(b).base = b
<1>1. CASE exchange = "okx"
  <2>1. InstrumentName(b) = Name(b, "dash", "upper", "swap")
    BY <1>1 DEF InstrumentName
  <2>2. QED
    BY <1>1, <2>1 DEF Name, StorageName, WithSuffix, WebSocketToStorage, ToLower, Key
<1>2. CASE exchange = "gate"
  <2>1. InstrumentName(b) = Name(b, "underscore", "upper", "none")
    BY <1>2 DEF InstrumentName
  <2>2. WithSuffix(InstrumentName(b), "none") = Name(b, "underscore", "upper", "none")
    BY <2>1 DEF WithSuffix, Name
  <2>3. Replace(Name(b, "underscore", "upper", "none"), "underscore", "dash")
          = Name(b, "dash", "upper", "none")
    BY DEF Replace, Name
  <2>4. ToLower(Name(b, "dash", "upper", "none")) = Key(b)
    BY DEF ToLower, Name, Key
  <2>5. StorageName(InstrumentName(b)) = Key(b)
    BY <1>2, <2>2, <2>3, <2>4 DEF StorageName, WebSocketToStorage
  <2>6. QED
    BY <2>1, <2>5 DEF Name
<1>3. CASE exchange \in {"binance", "bybit", "bitget"}
  <2>1. InstrumentName(b) = Name(b, "none", "upper", "none")
    BY <1>3 DEF InstrumentName
  <2>2. WithSuffix(InstrumentName(b), "none") = Name(b, "none", "upper", "none")
    BY <2>1 DEF WithSuffix, Name
  <2>3. Name(b, "none", "upper", "none") # Blank
    BY DEF Name, Blank
  <2>4. StorageName(InstrumentName(b)) = Key(b)
    <3>1. StorageName(InstrumentName(b))
            = WebSocketToStorage(Name(b, "none", "upper", "none"))
      BY <2>2 DEF StorageName
    <3>2. QED
      BY <1>3, <2>3, <3>1 DEF WebSocketToStorage, Name, Key
  <2>5. QED
    BY <2>1, <2>4 DEF Name
<1>4. QED
  BY <1>1, <1>2, <1>3 DEF Exchanges

(* From a spelling a handler can convert to the wire and back no symbol is   *)
(* lost: the exchange has it, and it comes back under the name GET looks up. *)
THEOREM RoundTrip ==
  ASSUME exchange \in Exchanges, NEW n \in Spellings, Convertible(n)
  PROVE  /\ WireName(n) \in Instruments
         /\ StorageName(WireName(n)) = Key(n.base)
         /\ StorageName(WireName(n)) \in Findable
<1>1. PICK b \in Bases, s \in {"dash", "none"}, l \in {"lower", "upper"} :
        n = Name(b, s, l, "none")
  BY SpellingParts
<1>2. n.base = b
  BY <1>1 DEF Name
<1>3. WireName(n) = InstrumentName(b)
  <2>1. CASE exchange \in {"binance", "bybit", "bitget"}
    BY <1>1, <2>1 DEF Name, WireName, WithSuffix, ConfigToWebSocket, ToUpper, Replace,
                      InstrumentName
  <2>2. CASE exchange = "gate"
    BY <1>1, <2>2 DEF Name, WireName, WithSuffix, ConfigToWebSocket, ToUpper, Replace,
                      InstrumentName, Convertible
  <2>3. CASE exchange = "okx"
    BY <1>1, <2>3 DEF Name, WireName, WithSuffix, ConfigToWebSocket, ToUpper,
                      InstrumentName, Convertible
  <2>4. QED
    BY <2>1, <2>2, <2>3 DEF Exchanges
<1>4. WireName(n) \in Instruments
  BY <1>3 DEF Instruments
<1>5. QED
  BY <1>2, <1>3, <1>4, InstrumentFound, KeyFindable

-----------------------------------------------------------------------------
(* The list holds spellings of known symbols, and Binance's the names of its *)
(* instruments; what it names was asked for.                                 *)
ListInv ==
  /\ exchange \in Exchanges
  /\ listed \subseteq Spellings
  /\ exchange = "binance" => listed \subseteq Instruments
  /\ asked \subseteq Instruments
  /\ \A n \in listed : OnWire({n}) \subseteq asked

(* What Subscribe puts on the list is a spelling; of Binance an instrument,  *)
(* which is its own name on the wire.                                        *)
LEMMA EntryListed ==
  ASSUME exchange \in Exchanges, NEW n \in Spellings
  PROVE  Entry(n) \in Spellings /\ (exchange = "binance" => Entry(n) \in Instruments)
<1>1. PICK b \in Bases, s \in {"dash", "none"}, l \in {"lower", "upper"} :
        n = Name(b, s, l, "none")
  BY SpellingParts
<1>2. CASE exchange = "binance"
  <2>1. Entry(n) = Name(b, "none", "upper", "none")
    BY <1>1, <1>2 DEF Entry, ConfigToWebSocket, ToUpper, Replace, Name
  <2>2. InstrumentName(b) = Name(b, "none", "upper", "none")
    BY <1>2 DEF InstrumentName
  <2>3. QED
    BY <2>1, <2>2 DEF Instruments, Spellings, Name
<1>3. QED
  BY <1>2 DEF Entry

(* Binance's instruments are their own names on the wire.                    *)
LEMMA BinanceWire ==
  ASSUME exchange = "binance", NEW w \in Instruments
  PROVE  WireName(w) = w
<1>1. PICK b \in Bases : w = Name(b, "none", "upper", "none")
  BY DEF Instruments, InstrumentName
<1>2. ConfigToWebSocket(w) = w
  BY <1>1 DEF ConfigToWebSocket, ToUpper, Replace, Name
<1>3. QED
  BY <1>1, <1>2 DEF WireName, WithSuffix, Name

(* The key of a symbol is a spelling of it.                                  *)
LEMMA KeySpelling ==
  ASSUME NEW b \in Bases
  PROVE  Key(b) \in Spellings
BY DEF Key, Spellings, Name

(* So is a spelling in lower case.                                           *)
LEMMA LowerSpelling ==
  ASSUME NEW n \in Spellings
  PROVE  ToLower(n) \in Spellings
BY DEF ToLower, Spellings, Name

(* ListInv is inductive.                                                     *)
LEMMA ListInvariance == Spec => []ListInv
<1>1. Init => ListInv
  <2> SUFFICES ASSUME Init PROVE ListInv
    OBVIOUS
  <2>1. PICK configured \in SUBSET Bases : listed = {Entry(Key(b)) : b \in configured}
    BY DEF Init
  <2>2. exchange \in Exchanges /\ asked = OnWire(listed)
    BY DEF Init
  <2>3. asked \subseteq Instruments /\ \A n \in listed : OnWire({n}) \subseteq asked
    BY <2>2 DEF OnWire
  <2>4. QED
    BY <2>1, <2>2, <2>3, KeySpelling, EntryListed DEF ListInv
<1>2. ListInv /\ [Next]_vars => ListInv'
  <2> SUFFICES ASSUME ListInv, [Next]_vars PROVE ListInv'
    OBVIOUS
  <2>0. exchange' = exchange
    BY DEF Next, vars, Receive, Subscribe, Unsubscribe, Get, Expire
  <2>1. Instruments' = Instruments
    BY <2>0 DEF Instruments, InstrumentName
  <2> DEFINE wire(n) == OnWire({n})
  <2>w. \A n : wire(n)' = wire(n)
    BY <2>0, <2>1 DEF OnWire, WireName, ConfigToWebSocket
  <2>s. \A n : wire(n) \subseteq Instruments
    BY DEF OnWire
  <2>2. ASSUME NEW n \in Spellings, Subscribe(n) PROVE ListInv'
    <3>1. listed' = listed \cup {Entry(n)} /\ asked' = asked \cup wire(Entry(n))
      BY <2>2 DEF Subscribe
    <3>2. \A q \in listed : wire(q) \subseteq asked
      BY DEF ListInv
    <3>3. \A q \in listed' : wire(q)' \subseteq asked'
      <4> HIDE DEF wire
      <4>1. QED
        BY <3>1, <3>2, <2>w
    <3>4. asked' \subseteq Instruments
      BY <3>1, <2>s DEF ListInv
    <3>5. QED
      BY <2>0, <2>1, <3>1, <3>3, <3>4, EntryListed DEF ListInv
  <2>3. ASSUME listed' \subseteq listed, asked' = asked PROVE ListInv'
    <3>1. \A q \in listed' : wire(q)' \subseteq asked'
      <4>1. \A q \in listed : wire(q) \subseteq asked
        BY DEF ListInv
      <4> HIDE DEF wire
      <4>2. QED
        BY <2>3, <4>1, <2>w
    <3>2. QED
      BY <2>0, <2>1, <2>3, <3>1 DEF ListInv
  <2>4. ASSUME NEW n \in Spellings, Unsubscribe(n) PROVE ListInv'
    BY <2>3, <2>4 DEF Unsubscribe
  <2>5. QED
    BY <2>2, <2>3, <2>4, LowerSpelling DEF Next, vars, Receive, Get, Expire
<1>3. QED
  BY <1>1, <1>2, PTL DEF Spec

-----------------------------------------------------------------------------
(* The conversion to the wire keeps the symbol.                              *)
LEMMA WireBase ==
  ASSUME exchange \in Exchanges, NEW n
  PROVE  WireName(n).base = n.base
BY DEF WireName, WithSuffix, ConfigToWebSocket, ToUpper, Replace, Name, Exchanges

(* A message with tickers holds them in an array or, from Bybit and Binance, *)
(* in an object; the others hold none.                                       *)
LEMMA MessageKinds ==
  ASSUME NEW m \in TickerMessages \cup OtherMessages
  PROVE  \/ /\ m.class = "tickers" /\ m.data # {} /\ m.about = m.data
            /\ \/ m.form = "array" /\ m.data \subseteq Carried
               \/ /\ m.form = "object" /\ exchange \in {"bybit", "binance"}
                  /\ m.data \subseteq SingleObjects
         \/ m.class # "tickers" /\ m.form = "object" /\ m.data = {}
<1>1. ASSUME NEW ws \in SUBSET Carried, ws # {}, m = Message("tickers", "array", ws, ws)
      PROVE  /\ m.class = "tickers" /\ m.data # {} /\ m.about = m.data
             /\ m.form = "array" /\ m.data \subseteq Carried
  BY <1>1 DEF Message
<1>2. ASSUME NEW w \in SingleObjects, m = Message("tickers", "object", {w}, {w})
      PROVE  /\ m.class = "tickers" /\ m.data # {} /\ m.about = m.data
             /\ m.form = "object" /\ exchange \in {"bybit", "binance"}
             /\ m.data \subseteq SingleObjects
  <2>1. exchange \in {"bybit", "binance"}
    BY <1>2 DEF SingleObjects
  <2>2. QED
    BY <1>2, <2>1 DEF Message
<1>3. ASSUME m \in OtherMessages
      PROVE  m.class # "tickers" /\ m.form = "object" /\ m.data = {}
  BY <1>3 DEF OtherMessages, Message
<1>4. CASE m \in TickerMessages
  <2>1. \/ \E ws \in SUBSET Carried : ws # {} /\ m = Message("tickers", "array", ws, ws)
        \/ \E w \in SingleObjects : m = Message("tickers", "object", {w}, {w})
    BY <1>4 DEF TickerMessages
  <2>2. QED
    BY <2>1, <1>1, <1>2
<1>5. QED
  BY <1>3, <1>4

(* The data of a message names instruments, and what is not filtered was     *)
(* asked for, or sent by Binance alone.                                      *)
LEMMA DataNames ==
  ASSUME ListInv, NEW m \in TickerMessages \cup OtherMessages, NEW w \in m.data
  PROVE  /\ w \in Instruments
         /\ (exchange = "binance" /\ m.form = "array") \/ w.base \in AskedFor
<1>1. CASE m.form = "array" /\ m.data \subseteq Carried
  BY <1>1 DEF Carried, AskedFor, ListInv
<1>2. CASE m.form = "object" /\ m.data \subseteq SingleObjects
  <2>1. CASE exchange = "bybit"
    BY <1>2, <2>1 DEF SingleObjects, Carried, AskedFor, ListInv
  <2>2. CASE exchange = "binance"
    <3>1. PICK b \in SentAlone : w = InstrumentName(b)
      BY <1>2, <2>2 DEF SingleObjects
    <3>2. b \in Bases
      BY NamesAssumption
    <3>3. w.base = b
      BY <3>1, <3>2, InstrumentFound DEF ListInv
    <3>4. QED
      BY <2>2, <3>1, <3>2, <3>3 DEF Instruments, AskedFor
  <2>3. QED
    BY <1>2, <2>1, <2>2, MessageKinds
<1>3. QED
  BY <1>1, <1>2, MessageKinds

(* What is published comes from a ticker of an instrument asked for, or sent *)
(* by Binance alone, under its key; only what names no symbol is published    *)
(* without one, blank.                                                       *)
LEMMA Published ==
  ASSUME ListInv, NEW m \in TickerMessages \cup OtherMessages, NEW k \in PublishedNames(m)
  PROVE  \/ m.data # {} /\ \E b \in Bases : k = Key(b) /\ b \in AskedFor
         \/ k = Blank
<1>1. ASSUME NEW w \in m.data, k = StorageName(w),
             exchange = "binance" /\ m.form = "array" => w \in listed
      PROVE  m.data # {} /\ \E b \in Bases : k = Key(b) /\ b \in AskedFor
  <2>1. w \in Instruments
    BY DataNames
  <2>2. PICK b \in Bases : w = InstrumentName(b)
    BY <2>1 DEF Instruments
  <2>3. k = Key(b) /\ w.base = b
    BY <1>1, <2>2, InstrumentFound DEF ListInv
  <2>4. CASE exchange = "binance" /\ m.form = "array"
    <3>1. w \in listed /\ WireName(w) = w
      BY <1>1, <2>1, <2>4, BinanceWire
    <3>2. w \in OnWire({w})
      BY <2>1, <3>1 DEF OnWire
    <3>3. w \in asked
      BY <3>1, <3>2 DEF ListInv
    <3>4. QED
      BY <2>3, <3>3 DEF AskedFor
  <2>5. CASE ~(exchange = "binance" /\ m.form = "array")
    BY <2>3, <2>5, DataNames
  <2>6. QED
    BY <2>4, <2>5
<1>2. StorageName(Blank) = Blank
  BY DEF StorageName, WithSuffix, WebSocketToStorage, Blank, Name, ToLower, Replace
<1>3. CASE exchange = "okx"
  BY <1>1, <1>3, MessageKinds DEF PublishedNames, OkxNames
<1>4. CASE exchange = "bitget"
  BY <1>1, <1>4 DEF PublishedNames, BitgetNames
<1>5. CASE exchange = "gate"
  BY <1>1, <1>5 DEF PublishedNames, GateNames
<1>6. CASE exchange = "bybit"
  BY <1>1, <1>6 DEF PublishedNames, BybitNames
<1>7. CASE exchange = "binance"
  <2>1. k \in BinanceNames(m)
    BY <1>7 DEF PublishedNames
  <2>2. CASE m.form = "array"
    BY <1>1, <2>1, <2>2 DEF BinanceNames
  <2>3. CASE m.form # "array" /\ m.data # {}
    BY <1>1, <2>1, <2>3 DEF BinanceNames
  <2>4. CASE m.form # "array" /\ m.data = {}
    BY <1>2, <2>1, <2>4 DEF BinanceNames
  <2>5. QED
    BY <2>2, <2>3, <2>4
<1>8. QED
  BY <1>3, <1>4, <1>5, <1>6, <1>7 DEF ListInv, Exchanges

(* What GET can look up has a dash, and so is not blank.                     *)
LEMMA BlankNotFindable == Blank \notin Findable
BY DEF Blank, Findable, ToLower, Name

-----------------------------------------------------------------------------
(* Whatever an exchange sends, only tickers come to be stored where a client *)
(* can find them.                                                            *)
THEOREM OnlyTickersServed == Spec => []NoEmptyServed
<1>1. Init => NoEmptyServed
  BY DEF Init, NoEmptyServed
<1>2. ListInv /\ NoEmptyServed /\ [Next]_vars => NoEmptyServed'
  <2> SUFFICES ASSUME ListInv, NoEmptyServed, [Next]_vars PROVE NoEmptyServed'
    OBVIOUS
  <2> Findable' = Findable
    BY DEF Findable
  <2>1. ASSUME NEW m \in TickerMessages \cup OtherMessages, Receive(m)
        PROVE  NoEmptyServed'
    <3> SUFFICES ASSUME NEW k \in Findable \cap DOMAIN stored' PROVE stored'[k] = "ticker"
      BY DEF NoEmptyServed
    <3>1. CASE k \in PublishedNames(m)
      BY <2>1, <3>1, Published, BlankNotFindable DEF Receive
    <3>2. CASE k \notin PublishedNames(m)
      BY <2>1, <3>2 DEF Receive, NoEmptyServed
    <3>3. QED
      BY <3>1, <3>2
  <2>2. ASSUME NEW k \in DOMAIN stored, Expire(k) PROVE NoEmptyServed'
    BY <2>2 DEF Expire, NoEmptyServed
  <2>3. ASSUME stored' = stored PROVE NoEmptyServed'
    BY <2>3 DEF NoEmptyServed
  <2>4. QED
    BY <2>1, <2>2, <2>3 DEF Next, vars, Subscribe, Unsubscribe, Get
<1>3. QED
  BY <1>1, <1>2, ListInvariance, PTL DEF Spec

(* Nothing comes into the storage that nobody asked for and Binance did not  *)
(* send alone, and what comes is under the name GET looks up, for every set  *)
(* of symbols, and however late a message about a removed symbol comes.      *)
THEOREM OnlyAskedPublished == Spec => PublishedWasAsked
<1> DEFINE Justified ==
      \A k \in DOMAIN stored' \ DOMAIN stored : k # Blank => k \in {Key(b) : b \in AskedFor}
<1>1. ListInv /\ [Next]_vars => [Justified]_vars
  <2> SUFFICES ASSUME ListInv, Next PROVE Justified
    BY DEF vars
  <2>1. ASSUME NEW m \in TickerMessages \cup OtherMessages, Receive(m) PROVE Justified
    BY <2>1, Published DEF Receive
  <2>2. ASSUME NEW k \in DOMAIN stored, Expire(k) PROVE Justified
    BY <2>2 DEF Expire
  <2>3. ASSUME stored' = stored PROVE Justified
    BY <2>3
  <2>4. QED
    BY <2>1, <2>2, <2>3 DEF Next, Subscribe, Unsubscribe, Get
<1>2. QED
  BY <1>1, ListInvariance, PTL DEF Spec, PublishedWasAsked

(* The step behind ListedIsServed: for a symbol on the list in a spelling    *)
(* the handler converts there are messages to come, and whichever of them    *)
(* comes next, GET finds a ticker of that symbol after it.                   *)
THEOREM NextTickerServed ==
  ASSUME ListInv, NEW n \in listed, Convertible(n)
  PROVE  /\ About(n.base) # {}
         /\ \A m \in About(n.base) : Receive(m) => /\ Key(n.base) \in DOMAIN stored'
                                                   /\ stored'[Key(n.base)] = "ticker"
<1>1. n \in Spellings /\ exchange \in Exchanges
  BY DEF ListInv
<1>2. PICK b \in Bases : n.base = b /\ InstrumentName(b) \in Carried
  <2>1. PICK b \in Bases, s \in {"dash", "none"}, l \in {"lower", "upper"} :
          n = Name(b, s, l, "none")
    BY <1>1, SpellingParts
  <2>2. n.base = b
    BY <2>1 DEF Name
  <2>3. CASE exchange = "binance"
    BY <2>2, <2>3 DEF Carried, Instruments
  <2>4. CASE exchange # "binance"
    <3>1. WireName(n) \in Instruments /\ WireName(n).base = n.base
      BY <1>1, RoundTrip, WireBase
    <3>2. WireName(n) = InstrumentName(b)
      BY <1>1, <2>2, <3>1, InstrumentFound DEF Instruments
    <3>3. WireName(n) \in OnWire({n})
      BY <3>1 DEF OnWire
    <3>4. WireName(n) \in asked
      BY <3>3 DEF ListInv
    <3>5. QED
      BY <2>2, <2>4, <3>2, <3>4 DEF Carried
  <2>5. QED
    BY <2>2, <2>3, <2>4
<1>3. About(b) # {}
  <2> DEFINE w == InstrumentName(b)
             msg == Message("tickers", "array", {w}, {w})
  <2>1. Cardinality({w}) = 1
    BY FS_Singleton
  <2>2. msg \in TickerMessages
    BY <1>2, <2>1 DEF TickerMessages
  <2>3. msg.form = "array" /\ w \in msg.data /\ w.base = b
    BY <1>1, InstrumentFound DEF Message
  <2>4. QED
    BY <2>2, <2>3 DEF About
<1>4. ASSUME NEW m \in About(b), Receive(m)
      PROVE  Key(b) \in DOMAIN stored' /\ stored'[Key(b)] = "ticker"
  <2>1. m \in TickerMessages /\ m.form = "array" /\ \E w \in m.data : w.base = b
    BY DEF About
  <2>2. PICK w \in m.data : w.base = b
    BY <2>1
  <2>3. m.class = "tickers" /\ m.data # {} /\ m.about = m.data
    BY <2>1, MessageKinds
  <2>4. w = InstrumentName(b) /\ StorageName(w) = Key(b)
    <3>1. w \in Instruments
      BY <2>1, <2>2, DataNames
    <3>2. QED
      BY <1>1, <2>2, <3>1, InstrumentFound DEF Instruments
  <2>5. Key(b) \in PublishedNames(m)
    <3>1. CASE exchange = "okx"
      BY <2>2, <2>3, <2>4, <3>1 DEF PublishedNames, OkxNames
    <3>2. CASE exchange = "bitget"
      BY <2>2, <2>3, <2>4, <3>2 DEF PublishedNames, BitgetNames
    <3>3. CASE exchange = "gate"
      BY <2>1, <2>2, <2>3, <2>4, <3>3 DEF PublishedNames, GateNames
    <3>4. CASE exchange = "bybit"
      BY <2>2, <2>3, <2>4, <3>4 DEF PublishedNames, BybitNames
    <3>5. CASE exchange = "binance"
      <4>1. n \in Instruments
        BY <3>5 DEF ListInv
      <4>2. n = w
        BY <1>1, <1>2, <2>4, <4>1, InstrumentFound DEF Instruments
      <4>3. Key(b) \in BinanceNames(m)
        BY <2>1, <2>2, <2>4, <4>2 DEF BinanceNames
      <4>4. QED
        BY <3>5, <4>3 DEF PublishedNames
    <3>6. QED
      BY <1>1, <3>1, <3>2, <3>3, <3>4, <3>5 DEF Exchanges
  <2>6. QED
    BY <1>4, <2>3, <2>5 DEF Receive
<1>5. QED
  BY <1>2, <1>3, <1>4
=============================================================================
