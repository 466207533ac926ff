----------------------------- MODULE PageCodec -----------------------------
(***************************************************************************)
(* Encoding and decoding of the data pages 1, 16 and 82 (pages/*.c and     *)
(* ant_tpms_utils.h): the seven bytes of a frame after its page number.    *)
(***************************************************************************)
EXTENDS PageValues

uint16 == {n \in Nat : n <= 65535}
uint24 == {n \in Nat : n \div 65536 <= 255}
Nibble == 0 .. 15
Byte == 0 .. 255

Page1 == [role : Byte, alarms : SUBSET Alarms, pressure : uint16]

Page16 == [command : Nibble, role : Nibble, ambient_pressure : uint16,
           alarm_low_pressure : uint16, alarm_high_pressure : uint16]

Page82 == [battery_count : Nibble, battery_id : Nibble, operating_time : Nat,
           battery_voltage_mv : uint16, battery_status : 0 .. 7]

-----------------------------------------------------------------------------
(* The pages before the first reading, the first command and the settings  *)

DEFAULT_ANT_TPMS_page1 ==
  [role |-> 0, alarms |-> Alarms, pressure |-> Unset]

DEFAULT_ANT_TPMS_page16 ==
  [command |-> 0, role |-> 0, ambient_pressure |-> ANT_TPMS_AMBIENT_DEFAULT,
   alarm_low_pressure |-> Unset, alarm_high_pressure |-> Unset]

\* (A slip: the battery status is a zero like the other fields.)
Page82AllZero ==
  [battery_count |-> 15, battery_id |-> 15, operating_time |-> 0,
   battery_voltage_mv |-> 0, battery_status |-> 0]

DEFAULT_ANT_COMMON_page82 ==
  [battery_count |-> 15, battery_id |-> 15, operating_time |-> 0,
   battery_voltage_mv |-> 0, battery_status |-> STATE_INVALID]

-----------------------------------------------------------------------------
(* ant_tpms_utils.h: numbers as bytes, the lowest first                    *)

uint16_encode(value) == <<value % 256, (value \div 256) % 256>>

\* The number in bytes i and i + 1.
uint16_decode(b, i) == b[i] + 256 * b[i + 1]

uint24_encode(value) ==
  <<value % 256, (value \div 256) % 256, (value \div 65536) % 256>>

\* The number in bytes i .. i + 2.
uint24_decode(b, i) == b[i] + 256 * b[i + 1] + 65536 * b[i + 2]

-----------------------------------------------------------------------------
(* Page 1: role, alarms and pressure                                       *)

AlarmByte(alarms) ==
  (IF "LOW_OK" \in alarms THEN 1 ELSE 0) + (IF "HIGH_OK" \in alarms THEN 2 ELSE 0)

AlarmsOfByte(byte) ==
  {bit \in Alarms : \/ bit = "LOW_OK" /\ byte % 2 = 1
                    \/ bit = "HIGH_OK" /\ (byte \div 2) % 2 = 1}

ant_tpms_page_1_encode(page) ==
  LET pressure == uint16_encode(page.pressure) IN
  <<page.role, AlarmByte(page.alarms), 255, 255, 255,
    pressure[1], pressure[2]>>

ant_tpms_page_1_decode(b) ==
  [role |-> b[1], alarms |-> AlarmsOfByte(b[2]),
   pressure |-> uint16_decode(b, 6)]

-----------------------------------------------------------------------------
(* Page 16: a command and a configuration; the role has four bits.         *)

\* (A slip: the bit fields of the first byte are laid out the other way.)
Page16EncodeSwapped(page) ==
  LET ambient == uint16_encode(page.ambient_pressure)
      low == uint16_encode(page.alarm_low_pressure)
      high == uint16_encode(page.alarm_high_pressure) IN
  <<(page.command % 16) + 16 * (page.role % 16),
    ambient[1], ambient[2], low[1], low[2], high[1], high[2]>>

ant_tpms_page_16_encode(page) ==
  LET ambient == uint16_encode(page.ambient_pressure)
      low == uint16_encode(page.alarm_low_pressure)
      high == uint16_encode(page.alarm_high_pressure) IN
  <<(page.role % 16) + 16 * (page.command % 16),
    ambient[1], ambient[2], low[1], low[2], high[1], high[2]>>

ant_tpms_page_16_decode(b) ==
  [command |-> b[1] \div 16, role |-> b[1] % 16,
   ambient_pressure |-> uint16_decode(b, 2),
   alarm_low_pressure |-> uint16_decode(b, 4),
   alarm_high_pressure |-> uint16_decode(b, 6)]

-----------------------------------------------------------------------------
(* Page 82: operating time and battery.  The time is sent in units of two  *)
(* seconds, the voltage in volts and 256ths of a volt.                     *)

\* (A slip: the fraction is a percentage of the byte's largest value.)
FractionalVoltageOf255(mv) == ((mv % 1000) * 100) \div 1000

FractionalVoltage(mv) == ((mv % 1000) * 256) \div 1000

ant_common_page_82_encode(page) ==
  LET time == uint24_encode(page.operating_time \div 2)
      valid == page.battery_status # STATE_INVALID IN
  <<255, (page.battery_count % 16) + 16 * (page.battery_id % 16),
    time[1], time[2], time[3],
    IF valid THEN FractionalVoltage(page.battery_voltage_mv) ELSE 255,
    (IF valid THEN ((page.battery_voltage_mv \div 1000) % 16) ELSE 15)
      + 16 * (page.battery_status % 8) + 128>>

ant_common_page_82_decode(b) ==
  [battery_count |-> b[2] % 16, battery_id |-> (b[2] \div 16) % 16,
   operating_time |-> uint24_decode(b, 3) * (IF b[7] \div 128 = 1 THEN 2 ELSE 16),
   battery_voltage_mv |-> (b[7] % 16) * 1000 + (b[6] * 1000) \div 256,
   battery_status |-> (b[7] \div 16) % 8]
=============================================================================
