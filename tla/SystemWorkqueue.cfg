SPECIFICATION FairSpec
CONSTANTS
  SUPERVISION_CYCLE_TIME = 2
  SYS_POWEROFF_DELAY = 1
  Readings = {r1, r2}
  NoReading = NoReading
INVARIANTS
  TypeOK
  OneOfThePairPending
  PagesUpToDate
PROPERTIES
  OffOnlyAfterDelay
  SleepsWithoutSignal
  StaysOnWithSignal
