SPECIFICATION FairSpec
CONSTANTS
  BT_DISABLE_DELAY = 2
  BT_DISABLE_RESCHEDULE = 1
  REBOOT_DELAY = 1
  Ids = {hw, engraved}
  HwId = hw
  NoId = NoId
INVARIANTS
  TypeOK
  ShutdownPlanned
  IdUsedOrRebooting
PROPERTIES
  WindowKept
  BluetoothEnds
  RebootFollows
