CONSTANTS
  Loop = loop
  NoConn = NoConn
  NoActor = NoActor
  Callers = {u1}
  Actors = {loop, u1}
  Conns = {c1, c2}
  Symbols = {btc}
  InitSymbols = {btc}
  MaxBackoff = 1
SPECIFICATION ReachableSpec
PROPERTIES LoopEnds LoopStops ReaderFollows Recovers
