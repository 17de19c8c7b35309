CONSTANTS
  Loop = loop
  NoConn = NoConn
  NoActor = NoActor
  Callers = {u1}
  Actors = {loop, u1}
  Conns = {c1, c2}
  Symbols = {btc}
  InitSymbols = {btc}
  MaxBackoff = 1
  Fields = {last, bid}
  NoMessage = NoMessage
SPECIFICATION BybitSpec
SYMMETRY ConnFieldSymmetry
INVARIANT FreshConnComplete
PROPERTY ImplementsLoop
