CONSTANTS
  Symbols = {btc, eth}
  Configured = {btc}
  ObjectSymbols = {btc}
  NoSymbol = NoSymbol
  MaxLate = 0
  Requests = {r1, r2}
  TTL = 2
  Timeout = 2
  Sleep = 2
  HonoursContext = TRUE
  Data = {t}
  NoEntry = NoEntry
  NotFound = NotFound
  Failed = Failed
SPECIFICATION Spec
SYMMETRY RequestSymmetry
INVARIANT ServedWhenCarried
