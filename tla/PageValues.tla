----------------------------- MODULE PageValues -----------------------------
(***************************************************************************)
(* What ant_sensor_data_handler_cb (ant.c) computes from a reading and     *)
(* from the configuration on page 16: pressure, alarms, battery state.     *)
(***************************************************************************)
EXTENDS Integers

Unset == 65535                    \* 0xffff
ANT_TPMS_AMBIENT_DEFAULT == 1013

\* Both alarm bits mean OK: ANT_TPMS_ALARM_NONE sets both, ALARM_ALL none.
Alarms == {"LOW_OK", "HIGH_OK"}

int16 == {n \in Int : -32768 <= n /\ n <= 32767}

\* Conversion to int16_t.
Int16(x) == ((x + 32768) % 65536) - 32768

AmbientOffset(page_16) ==
  IF page_16.ambient_pressure = Unset
  THEN 0
  ELSE ANT_TPMS_AMBIENT_DEFAULT - page_16.ambient_pressure

\* (A slip: the offset is applied the other way round.)
OverAmbient(page_16, measured) ==
  LET compensated == Int16(measured - AmbientOffset(page_16)) IN
  IF compensated <= 75 THEN 0 ELSE compensated

\* (A slip: the value is not clamped.)
Unclamped(page_16, measured) == Int16(AmbientOffset(page_16) + measured)

\* The pressure of page 1.
CompensatedPressure(page_16, measured) ==
  LET compensated == Int16(AmbientOffset(page_16) + measured) IN
  IF compensated <= 75 THEN 0 ELSE compensated

AlarmsConfigured(page_16) ==
  /\ page_16.alarm_low_pressure # Unset
  /\ page_16.alarm_high_pressure # Unset

\* The bits that are set on the baseline ANT_TPMS_ALARM_ALL.
AlarmBits(page_16, pressure) ==
  {bit \in Alarms :
     \/ bit = "LOW_OK" /\ page_16.alarm_low_pressure <= pressure
     \/ bit = "HIGH_OK" /\ pressure <= page_16.alarm_high_pressure}

AlarmsOf(page_16, pressure) ==
  IF AlarmsConfigured(page_16) THEN AlarmBits(page_16, pressure) ELSE Alarms

-----------------------------------------------------------------------------
(* The battery: battery_level_percent (sensor.c) and the state of page 82  *)

\* (A slip: the second section forgets the level it starts from.)
LevelFromZero(mv) ==
  CASE mv >= 3000                -> 100
    [] mv > 2900 /\ mv < 3000    -> 100 - ((3000 - mv) * 58) \div 100
    [] mv > 2740 /\ mv <= 2900   -> ((2900 - mv) * 24) \div 160
    [] mv > 2440 /\ mv <= 2740   -> 18 - ((2740 - mv) * 12) \div 300
    [] mv > 2100 /\ mv <= 2440   -> 6 - ((2440 - mv) * 6) \div 340
    [] mv <= 2100                -> 0

battery_level_percent(mv) ==
  CASE mv >= 3000                -> 100
    [] mv > 2900 /\ mv < 3000    -> 100 - ((3000 - mv) * 58) \div 100
    [] mv > 2740 /\ mv <= 2900   -> 42 - ((2900 - mv) * 24) \div 160
    [] mv > 2440 /\ mv <= 2740   -> 18 - ((2740 - mv) * 12) \div 300
    [] mv > 2100 /\ mv <= 2440   -> 6 - ((2440 - mv) * 6) \div 340
    [] mv <= 2100                -> 0

\* ANT_COMMON_page82_BATTERY_STATE
STATE_NEW == 1
STATE_GOOD == 2
STATE_OK == 3
STATE_LOW == 4
STATE_CRITICAL == 5
STATE_INVALID == 7

BatteryState(percent) ==
  CASE percent >= 100                   -> STATE_NEW
    [] percent >= 50 /\ percent < 100   -> STATE_GOOD
    [] percent >= 15 /\ percent < 50    -> STATE_OK
    [] percent >= 5 /\ percent < 15     -> STATE_LOW
    [] percent < 5                      -> STATE_CRITICAL
=============================================================================
