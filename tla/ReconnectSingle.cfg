CONSTANTS
  Loop = loop
  NoConn = NoConn
  NoActor = NoActor
  Callers = {u1}
  Actors = {loop, u1}
  Conns = {c1, c2}
  Symbols = {btc, eth}
  InitSymbols = {btc}
  MaxBackoff = 1
SPECIFICATION Spec
INVARIANT ReplacedIsClosed
