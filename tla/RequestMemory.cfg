CONSTANTS
  Symbols = {btc, eth}
  Configured = {btc}
  ObjectSymbols = {btc}
  NoSymbol = NoSymbol
  MaxLate = 2
  Requests = {r1, r2}
  TTL = 2
  Timeout = 2
  Sleep = 2
  HonoursContext = FALSE
  Data = {t}
  NoEntry = NoEntry
  NotFound = NotFound
  Failed = Failed
SPECIFICATION Spec
SYMMETRY RequestSymmetry
INVARIANTS AtMostOneLate ServedWhenCarried
