CONSTANTS
  Loop = loop
  NoConn = NoConn
  NoActor = NoActor
  Callers = {u1, u2}
  Actors = {loop, u1, u2}
  Conns = {c1, c2}
  Symbols = {btc, eth}
  InitSymbols = {btc}
  MaxBackoff = 1
SPECIFICATION GateSpec
SYMMETRY SafetySymmetry
INVARIANTS CurrentConnSubscribed CurrentConnNotClosed
