SPECIFICATION FairSpec
CONSTANTS
  COMMON_PAGE_80_INTERVAL = 7
  COMMON_PAGE_81_INTERVAL = 8
  COMMON_PAGE_82_INTERVAL = 9
  CounterRange = 16
  RequestedPages <- MCRequestedPages
  MaxTransmitCount = 3
INVARIANTS
  TypeOK
  OneCycle
  WrapBound
  RequestsHonoured
PROPERTIES
  AcknowledgedOnRequest
  RotationResumes
  ScheduleKept
