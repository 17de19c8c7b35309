---------------------------- MODULE SymbolNames -----------------------------
(***************************************************************************)
(* The way of a symbol through the service: the name in the configuration   *)
(* or in a request, the name on the wire (internal/exchanges/               *)
(* symbol_converter.go), the messages of the exchange about it and which of *)
(* them each handler takes for tickers (processMessage), and the name in    *)
(* the storage, where GET looks it up (internal/server/server.go).          *)
(*                                                                         *)
(* A name is a base with what the code tells apart in it: the separator     *)
(* before the quote (a "dash", an "underscore", two dashes or "none"), the  *)
(* case of its letters, and the suffix ("swap") of OKX's perpetual          *)
(* contracts.                                                               *)
(* The quote is USDT, the only supported one.  Reconnections are atomic     *)
(* here: their interleavings are the subject of ExchangeLoop.  What they     *)
(* leave behind is kept: a symbol that was removed from the list may still   *)
(* arrive.                                                                  *)
(***************************************************************************)
EXTENDS FiniteSets

CONSTANTS
  Bases,      \* base currencies
  SentAlone,  \* bases of which Binance also sends tickers as single objects
  NoBase      \* of the empty string

ASSUME NamesAssumption ==
  /\ SentAlone \subseteq Bases
  /\ NoBase \notin Bases

Exchanges == {"binance", "okx", "bybit", "bitget", "gate"}

Name(b, s, l, x) == [base |-> b, sep |-> s, letters |-> l, suffix |-> x]

\* What clients write: btc-usdt, BTC-USDT, btcusdt, BTCUSDT.
Spellings ==
  [base : Bases, sep : {"dash", "none"}, letters : {"lower", "upper"}, suffix : {"none"}]

\* The name GET looks up.
Key(b) == Name(b, "dash", "lower", "none")

\* The zero value of a field that names a symbol.
Blank == Name(NoBase, "none", "lower", "none")

VARIABLES
  exchange,  \* whose handler this is
  listed,    \* config.Symbols; of Binance, subscribedSymbols
  asked,     \* the instruments that were ever on the list
  stored     \* for every name in the storage: a "ticker", or an "empty" one,
             \* made of a message without prices

vars == <<exchange, listed, asked, stored>>

-----------------------------------------------------------------------------
ToUpper(n) == Name(n.base, n.sep, "upper", n.suffix)
ToLower(n) == Name(n.base, n.sep, "lower", n.suffix)
Replace(n, old, new) ==
  Name(n.base, IF n.sep = old THEN new ELSE n.sep, n.letters, n.suffix)
WithSuffix(n, x) == Name(n.base, n.sep, n.letters, x)

ConfigToWebSocket(n) ==
  CASE exchange \in {"binance", "bybit", "bitget"} -> ToUpper(Replace(n, "dash", "none"))
    [] exchange = "gate" -> ToUpper(Replace(n, "dash", "underscore"))
    [] OTHER -> ToUpper(n)

\* Mutant: the suffix is left out.
NoSwap(n) == ConfigToWebSocket(n)

\* subscribe; OKX's puts -SWAP after "-USDT".
WireName(n) ==
  WithSuffix(ConfigToWebSocket(n),
             IF exchange = "okx" /\ n.sep = "dash" THEN "swap" ELSE n.suffix)

\* Names that end in "usdt" get a dash before it, and a second one if they
\* had one.
WebSocketToStorage(w) ==
  CASE exchange \in {"binance", "bybit", "bitget"} ->
         IF w = Blank THEN w
         ELSE Name(w.base, IF w.sep = "none" THEN "dash" ELSE "dashes", "lower", w.suffix)
    [] exchange = "gate" -> ToLower(Replace(w, "underscore", "dash"))
    [] OTHER -> ToLower(w)

\* OKX's handler takes the suffix off first.
StorageName(w) == WebSocketToStorage(WithSuffix(w, "none"))

\* handleTicker: a symbol without a dash is refused, the others are lowered.
Findable == {ToLower(n) : n \in {q \in Spellings : q.sep = "dash"}}

-----------------------------------------------------------------------------
\* The exchange: the names it gives its instruments.
InstrumentName(b) ==
  CASE exchange = "okx" -> Name(b, "dash", "upper", "swap")
    [] exchange = "gate" -> Name(b, "underscore", "upper", "none")
    [] OTHER -> Name(b, "none", "upper", "none")

Instruments == {InstrumentName(b) : b \in Bases}

\* The instruments that a list names.
OnWire(names) == {WireName(n) : n \in names} \cap Instruments

\* What may arrive: !miniTicker@arr carries everything; of the others the list,
\* but also symbols removed from it, by a message read before Unsubscribe, on a
\* replaced connection that is still read, or because a Connect that has read
\* the old list writes it to a newer connection.
Carried == IF exchange = "binance" THEN Instruments ELSE asked

Message(class, form, about, data) ==
  [class |-> class, form |-> form, about |-> about, data |-> data]

SingleObjects ==
  CASE exchange = "bybit" -> Carried
    [] exchange = "binance" -> {InstrumentName(b) : b \in SentAlone}
    [] OTHER -> {}

\* Tickers: of one symbol, or in Binance's stream of any number, in an array;
\* from Bybit, and for SentAlone from Binance, also as an object.
TickerMessages ==
  {Message("tickers", "array", ws, ws) :
     ws \in {s \in SUBSET Carried : s # {} /\ (Cardinality(s) = 1 \/ exchange = "binance")}}
    \cup {Message("tickers", "object", {w}, {w}) : w \in SingleObjects}

\* Acknowledgements and rejections, which name the symbol, and pongs.  When a
\* name was asked for that is rejected is left open.
OtherMessages ==
  IF exchange = "binance"
    THEN {Message("reply", "object", {}, {})}
    ELSE {Message("ack", "object", {w}, {}) : w \in Carried}
           \cup {Message("rejection", "object", {WireName(n)}, {}) : n \in Spellings}
           \cup {Message("pong", "object", {}, {})}

-----------------------------------------------------------------------------
\* Mutants: what a message is about is published; the filter is left out.
AboutOkx(m) == {StorageName(w) : w \in m.about}
UnfilteredBinance(m) == {StorageName(w) : w \in m.data}

\* processMessage: the names a message is published under.  OKX's takes the
\* name from the message, once for every element of its data.
OkxNames(m) == IF m.data = {} THEN {} ELSE {StorageName(w) : w \in m.about}

\* Only snapshots and updates; everything else is passed over.
BitgetNames(m) == IF m.class = "tickers" THEN {StorageName(w) : w \in m.data} ELSE {}

\* A rejection is an error; so is a ticker that is not in an array.
GateNames(m) ==
  IF m.class = "tickers" /\ m.form = "array" THEN {StorageName(w) : w \in m.data} ELSE {}

\* Snapshots and deltas, whose data is an object or an array; a rejection
\* passes for the acknowledgement it looks like.
BybitNames(m) == IF m.class = "tickers" THEN {StorageName(w) : w \in m.data} ELSE {}

\* The elements of an array are filtered; any object is taken for a ticker of
\* the symbol it names, on the list or not, or of none.
BinanceNames(m) ==
  IF m.form = "array"
    THEN {StorageName(w) : w \in m.data \cap listed}
    ELSE {StorageName(w) : w \in IF m.data = {} THEN {Blank} ELSE m.data}

PublishedNames(m) ==
  CASE exchange = "okx" -> OkxNames(m)
    [] exchange = "bitget" -> BitgetNames(m)
    [] exchange = "gate" -> GateNames(m)
    [] exchange = "bybit" -> BybitNames(m)
    [] OTHER -> BinanceNames(m)

Receive(m) ==
  /\ stored' = [k \in DOMAIN stored \cup PublishedNames(m) |->
                  IF k \notin PublishedNames(m) THEN stored[k]
                  ELSE IF m.data = {} THEN "empty" ELSE "ticker"]
  /\ UNCHANGED <<exchange, listed, asked>>

-----------------------------------------------------------------------------
\* What Subscribe and Unsubscribe compare: Binance's names on the wire, the
\* names as they were given by the others.
Entry(n) == IF exchange = "binance" THEN ConfigToWebSocket(n) ELSE n

\* Any symbols are configured, as "btc-usdt".
Init ==
  /\ exchange \in Exchanges
  /\ \E configured \in SUBSET Bases : listed = {Entry(Key(b)) : b \in configured}
  /\ asked = OnWire(listed)
  /\ stored = <<>>

Subscribe(n) ==
  /\ listed' = listed \cup {Entry(n)}
  /\ asked' = asked \cup OnWire({Entry(n)})
  /\ UNCHANGED <<exchange, stored>>

Unsubscribe(n) ==
  /\ listed' = listed \ {Entry(n)}
  /\ UNCHANGED <<exchange, asked, stored>>

\* GET of a symbol that is not stored subscribes it in lower case.
Get(n) ==
  /\ ToLower(n) \in Findable \ DOMAIN stored
  /\ Subscribe(ToLower(n))

Expire(k) ==
  /\ stored' = [q \in DOMAIN stored \ {k} |-> stored[q]]
  /\ UNCHANGED <<exchange, listed, asked>>

Next ==
  \/ \E m \in TickerMessages \cup OtherMessages : Receive(m)
  \/ \E n \in Spellings : Subscribe(n) \/ Unsubscribe(n) \/ Get(n)
  \/ \E k \in DOMAIN stored : Expire(k)

Spec == Init /\ [][Next]_vars

\* A spelling from which the handler makes a name of the exchange.
Convertible(n) == n.sep = "dash" \/ exchange \in {"binance", "bybit", "bitget"}

OnList(b) == \E n \in listed : n.base = b /\ Convertible(n)

About(b) == {m \in TickerMessages : m.form = "array" /\ \E w \in m.data : w.base = b}

\* The exchange keeps sending the tickers of a symbol while it is subscribed.
FairSpec ==
  Spec /\ \A b \in Bases : WF_vars(OnList(b) /\ \E m \in About(b) : Receive(m))

-----------------------------------------------------------------------------
(* Nothing but a ticker is stored where a client can find it: replies,       *)
(* rejections and pongs of no exchange pass for tickers without prices.      *)
NoEmptyServed == \A k \in Findable \cap DOMAIN stored : stored[k] = "ticker"

AskedFor == {w.base : w \in asked} \cup IF exchange = "binance" THEN SentAlone ELSE {}

(* What comes new into the storage is a symbol that the configuration or a   *)
(* request asked for at some time, whatever the spelling was, or one that    *)
(* Binance sent as a single object; and it is under the name GET looks up.   *)
(* Only what names no symbol at all is under the empty name.                 *)
PublishedWasAsked ==
  [][\A k \in DOMAIN stored' \ DOMAIN stored :
       k # Blank => k \in {Key(b) : b \in AskedFor}]_vars

(* From the configured or requested name to the name on the wire and back    *)
(* no symbol is lost: one that stays listed comes to be found by GET.        *)
ListedIsServed ==
  \A b \in Bases : OnList(b) ~> (Key(b) \in DOMAIN stored \/ ~OnList(b))
=============================================================================
