SPECIFICATION Spec
CONSTANTS
  MaxUptime = 3
  MaxBoots = 3
  MaxOffs = 2
  NoCrc = NoCrc
INVARIANT
  OperatingTimeNotAhead
