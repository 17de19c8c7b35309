CONSTANTS
  Exchanges = {okx}
  Symbols = {btc, eth}
  Data = {t1, t2}
  Versions = {1, 2}
  TTL = 10
  CleanupInterval = 5
  RedisTTL = 1
  MaxLate = 1
  NoEntry = NoEntry
  NotFound = NotFound
  Failed = Failed
  NoCommand = NoCommand
  NoAnswer = NoAnswer
SPECIFICATION StorageSpec
SYMMETRY SymbolSymmetry
INVARIANTS NoStaleGarbage AnnouncedWasStored GetAllRegular
PROPERTIES ImplementsStore NewestUnlessLate
CHECK_DEADLOCK FALSE
