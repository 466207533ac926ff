SPECIFICATION Spec
CONSTANTS
  COMMON_PAGE_80_INTERVAL = 119
  COMMON_PAGE_81_INTERVAL = 120
  COMMON_PAGE_82_INTERVAL = 121
  CounterRange = 256
  RequestedPages = {}
  MaxTransmitCount = 0
INVARIANT
  InterleaveEvery121
