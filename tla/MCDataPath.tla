----------------------------- MODULE MCDataPath -----------------------------
(* Measurements on both sides of every threshold and at the limits of the  *)
(* conversions, any single bit disturbed, commands for every flag.         *)
EXTENDS DataPath

MCMeasurement(count, voltage) ==
  [count |-> count, temperature |-> 75, voltage |-> voltage, flags |-> 32]

\* 19 counts are clamped and 20 are not; 1972 and 3913 pass the ranges of
\* int16_t and uint16_t.
MCMeasurements ==
  {MCMeasurement(0, 255), MCMeasurement(19, 178), MCMeasurement(20, 177),
   MCMeasurement(-1, 168), MCMeasurement(300, 152), MCMeasurement(1972, 136),
   MCMeasurement(3913, 119), MCMeasurement(255, 0)}

MCDisturbed == Bits \cup {NoBit}

MCTimes == {2 ^ 25 - 1, 2 ^ 25}

MCPage16(command, role, ambient, low, high) ==
  [command |-> command, role |-> role, ambient_pressure |-> ambient,
   alarm_low_pressure |-> low, alarm_high_pressure |-> high]

MCStored == {MCPage16(0, 2, 1013, 1900, 65535)}

MCCommands ==
  {MCPage16(0, 0, 65535, 65535, 65535), MCPage16(1, 1, 65535, 65535, 65535),
   MCPage16(2, 0, 65535, 65535, 65535), MCPage16(2, 0, 950, 65535, 65535),
   MCPage16(15, 15, 0, 1100, 2600)}
=============================================================================
