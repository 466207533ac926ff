SPECIFICATION Spec
CONSTANTS
  BT_DISABLE_DELAY = 2
  BT_DISABLE_RESCHEDULE = 1
  REBOOT_DELAY = 1
  Ids = {hw}
  HwId = hw
  NoId = NoId
PROPERTY
  StaysAlive
