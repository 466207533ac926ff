SPECIFICATION MemorySpec
CONSTANTS
  MaxUptime = 3
  MaxBoots = 3
  MaxOffs = 2
  NoCrc = NoCrc
  SRAM_BEGIN = 536870912
  SRAM_END = 537133056
  Addresses <- MCAddresses
  RETAINED_CHECKED_SIZE = 28
INVARIANTS
  MemoryTypeOK
  OffRecordValid
  BluetoothExactlyOnFirstBoot
  UptimeAccounted
  RecordRetained
PROPERTY
  AccountKept
