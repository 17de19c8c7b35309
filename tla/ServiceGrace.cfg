CONSTANTS
  Exchanges = {okx, gate}
  Requests = {r1, r2}
  DialTime = 3
  ReadTime = 4
  MaxBackoff = 4
  MaxTickers = 4
  StoreTime = 1
  RequestTime = 4
  DrainTime = 1
SPECIFICATION Spec
INVARIANT ExitsWithinGrace
CHECK_DEADLOCK FALSE
