CONSTANTS
  Loop = loop
  NoConn = NoConn
  NoActor = NoActor
  Pingers = {p1, p2}
  Waiting = Waiting
  Ended = Ended
  Callers = {u1}
  Actors = {loop, u1}
  Conns = {c1, c2}
  Symbols = {btc}
  InitSymbols = {btc}
  MaxBackoff = 1
SPECIFICATION FairKeepAliveSpec
INVARIANTS TypeOK CurrentConnSubscribed CurrentConnNotClosed KeptAlive
PROPERTY PingersEnd
