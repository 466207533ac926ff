SPECIFICATION LinkFairSpec
CONSTANTS
  COMMON_PAGE_80_INTERVAL = 1
  COMMON_PAGE_81_INTERVAL = 2
  COMMON_PAGE_82_INTERVAL = 3
  CounterRange = 5
  RequestedPages <- MCRequestedPages
  MaxTransmitCount = 1
  Readings = {r1, r2}
  Fields <- MCFields
  Values <- MCValues
  Commands <- MCCommands
  Nothing = Nothing
INVARIANTS
  LinkTypeOK
  ReadBack
PROPERTY
  ReadingsArrive
