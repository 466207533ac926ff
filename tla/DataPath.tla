------------------------------ MODULE DataPath ------------------------------
(***************************************************************************)
(* A measurement on its way from the pressure sensor to a display:         *)
(* decode_sensor_buffer on a frame in which a bit may be disturbed         *)
(* (sensor.c, spi.c), ant_sensor_data_handler_cb (ant.c), and the codecs   *)
(* of the pages a display decodes (pages/*.c); in the other direction the  *)
(* page 16 commands of a display, through the codecs to                    *)
(* ant_tpms_config_handler.                                                *)
(*                                                                         *)
(* The values are what matters here: the handlers are one step each, and   *)
(* a display that listens receives what the pages hold.  Config has the    *)
(* steps of the handler and the storage, SystemWorkqueue the transfer.     *)
(***************************************************************************)
EXTENDS SensorFrame, PageCodec

CONSTANTS
  Measurements,   \* what the sensor measures
  Disturbed,      \* bits of a frame that may be disturbed, or NoBit for none
  NoBit,
  Times,          \* operating times in seconds when a reading arrives
  Commands,       \* page 16 commands of displays
  Stored,         \* page 16 as profile_setup leaves it
  NoReading       \* the pages hold no reading yet

Reading == [measured : Measurements, bit : Disturbed, time : Times,
            ambient : uint16]

ASSUME DataAssumption ==
  /\ Measurements \subseteq Measurement
  /\ Disturbed \subseteq Bits \cup {NoBit}
  /\ NoBit \notin Bits
  /\ Times \subseteq Nat
  /\ Commands \subseteq Page16
  /\ Stored \subseteq Page16
  /\ \A page \in Stored :
       page.command = 0 /\ page.ambient_pressure = ANT_TPMS_AMBIENT_DEFAULT
  /\ NoReading \notin Reading

VARIABLES
  page_1, page_16, page_82,   \* of the tpms profile
  \* History variables, read by the properties only:
  reading,                    \* the reading on the pages, as it really was
  wanted                      \* page 16 as the displays' commands ask for it

vars == <<page_1, page_16, page_82, reading, wanted>>

TypeOK ==
  /\ page_1 \in Page1
  /\ page_16 \in Page16
  /\ page_82 \in Page82
  /\ reading \in Reading \cup {NoReading}
  /\ wanted \in Page16

-----------------------------------------------------------------------------
(* From the sensor to the pages                                            *)

\* What the decoder makes of each frame: no readings if it drops the frame,
\* several where C leaves the conversion open.
Received ==
  [measured \in Measurements |-> [bit \in Disturbed |->
     decode_sensor_buffer(IF bit = NoBit THEN FrameOf(measured)
                          ELSE Flipped(FrameOf(measured), bit))]]

\* spim_receive reads and decodes a frame and publishes what is accepted;
\* the listener, ant_sensor_data_handler_cb, brings the pages up to date.
SensorData(measured, bit, time) ==
  /\ \E readings \in Received[measured][bit] :
       LET pressure == CompensatedPressure(page_16, readings.pressure_hpa) IN
       /\ page_1' = [page_1 EXCEPT !.pressure = pressure,
                                   !.alarms = AlarmsOf(page_16, pressure)]
       /\ page_82' = [page_82 EXCEPT
                        !.operating_time = time,
                        !.battery_voltage_mv = readings.voltage_mv,
                        !.battery_status =
                          BatteryState(battery_level_percent(readings.voltage_mv))]
  /\ reading' = [measured |-> measured, bit |-> bit, time |-> time,
                 ambient |-> page_16.ambient_pressure]
  /\ UNCHANGED <<page_16, wanted>>

-----------------------------------------------------------------------------
(* From a display to the pages                                             *)

SET_ROLE == 1
SET_AMBIENT == 2
SET_ALARM_LOW == 4
SET_ALARM_HIGH == 8

\* The bit is set in the command.
Has(command, bit) == (command \div bit) % 2 = 1

IsReset(c) ==
  /\ c.command = 0
  /\ c.ambient_pressure = Unset
  /\ c.alarm_low_pressure = Unset
  /\ c.alarm_high_pressure = Unset

\* Page 16 after ant_tpms_config_handler.
Configured(c) ==
  [(IF IsReset(c) THEN DEFAULT_ANT_TPMS_page16 ELSE page_16) EXCEPT
     !.role = IF Has(c.command, SET_ROLE) THEN c.role ELSE @,
     !.ambient_pressure =
       IF Has(c.command, SET_AMBIENT) THEN c.ambient_pressure ELSE @,
     !.alarm_low_pressure =
       IF Has(c.command, SET_ALARM_LOW) THEN c.alarm_low_pressure ELSE @,
     !.alarm_high_pressure =
       IF Has(c.command, SET_ALARM_HIGH) THEN c.alarm_high_pressure ELSE @]

\* The fields of page 16, and what a display expects of its command.
FlagOf == [role |-> SET_ROLE, ambient_pressure |-> SET_AMBIENT,
           alarm_low_pressure |-> SET_ALARM_LOW,
           alarm_high_pressure |-> SET_ALARM_HIGH]

Asked(command) ==
  IF IsReset(command) THEN DEFAULT_ANT_TPMS_page16
  ELSE [field \in DOMAIN wanted |->
          IF field # "command" /\ Has(command.command, FlagOf[field])
          THEN command[field] ELSE wanted[field]]

\* A display encodes a command, sens_message_decode decodes it for the
\* handler; page 1 is matched to page 16.
ReceiveCommand(command) ==
  LET c == ant_tpms_page_16_decode(ant_tpms_page_16_encode(command)) IN
  /\ page_16' = Configured(c)
  /\ page_1' = [page_1 EXCEPT !.role = Configured(c).role]
  /\ wanted' = Asked(command)
  /\ UNCHANGED <<page_82, reading>>

-----------------------------------------------------------------------------
(* ant_tpms_init and profile_setup, on every boot                          *)

ProfileSetup(stored) ==
  [page_1 |-> [DEFAULT_ANT_TPMS_page1 EXCEPT !.role = stored.role],
   page_16 |-> [DEFAULT_ANT_TPMS_page16 EXCEPT
                  !.role = stored.role,
                  !.alarm_low_pressure = stored.alarm_low_pressure,
                  !.alarm_high_pressure = stored.alarm_high_pressure],
   page_82 |-> DEFAULT_ANT_COMMON_page82]

Restart(stored) ==
  /\ page_1' = ProfileSetup(stored).page_1
  /\ page_16' = ProfileSetup(stored).page_16
  /\ page_82' = ProfileSetup(stored).page_82
  /\ reading' = NoReading
  /\ wanted' = stored

Init ==
  \E stored \in Stored :
    /\ page_1 = ProfileSetup(stored).page_1
    /\ page_16 = ProfileSetup(stored).page_16
    /\ page_82 = ProfileSetup(stored).page_82
    /\ reading = NoReading
    /\ wanted = stored

Next ==
  \/ \E measured \in Measurements, bit \in Disturbed, time \in Times :
       SensorData(measured, bit, time)
  \/ \E command \in Commands : ReceiveCommand(command)
  \/ \E stored \in Stored : Restart(stored)

Spec == Init /\ [][Next]_vars

-----------------------------------------------------------------------------
(* What a display shows that listens                                       *)

Shown1 == ant_tpms_page_1_decode(ant_tpms_page_1_encode(page_1))
Shown16 == ant_tpms_page_16_decode(ant_tpms_page_16_encode(page_16))
Shown82 == ant_common_page_82_decode(ant_common_page_82_encode(page_82))

\* 16.75 hPa a count, less 248 hPa, relative to the ambient pressure, in
\* exact arithmetic.
Exact(count) ==
  (67 * count) \div 4 - 248
    + (IF reading.ambient = Unset THEN 0
       ELSE ANT_TPMS_AMBIENT_DEFAULT - reading.ambient)

\* What should be shown for it.
Shows(count) == IF Exact(count) <= 75 THEN 0 ELSE Exact(count)

\* Neither the pressure nor the compensated pressure leaves int16_t.
Fits(count) ==
  /\ (67 * count) \div 4 - 248 \in int16
  /\ Exact(count) \in int16

-----------------------------------------------------------------------------
(* Properties                                                              *)

\* Undisturbed, a measurement is shown in full hPa as exact arithmetic has
\* it, through shift, byte order, float, two integer conversions, offset and
\* page 1.  Below zero counts C does not define the conversion: then what
\* is shown is between that measurement and a count of zero
\* (decode_sensor_buffer, ant_sensor_data_handler_cb).
PressureShown ==
  reading # NoReading /\ reading.bit = NoBit =>
    LET count == reading.measured.count IN
    Fits(count) => IF count >= 0 THEN Shown1.pressure = Shows(count)
                   ELSE Shown1.pressure \in Shows(count) .. Shows(0)

\* The checksum ignores the lowest bit of each byte.  A disturbed frame that
\* is accepted shows the pressure of one count more or less (of 256 if it is
\* the lowest bit of the high byte), and the voltage of one step more or
\* less (decode_sensor_buffer, ant_common_page_82_encode).
DisturbanceContained ==
  reading # NoReading /\ reading.bit # NoBit =>
    LET count == reading.measured.count
        error == IF reading.bit = 8 THEN 256 ELSE 1
        voltage == (reading.measured.voltage + SENSOR_COMP_CONST_VOLT) * 10 IN
    /\ count >= 0 /\ Fits(count - error) /\ Fits(count + error) =>
         Shown1.pressure \in {Shows(count - error), Shows(count),
                              Shows(count + error)}
    /\ Shown82.battery_voltage_mv \in voltage - 14 .. voltage + 10

\* Page 82 shows the voltage as measured, at most 4 mV lower, and the
\* operating time in even seconds until its 24 bits are full, at 2^25 s
\* (ant_common_page_82_encode).
Page82Shown ==
  reading # NoReading =>
    /\ reading.bit = NoBit =>
         (reading.measured.voltage + SENSOR_COMP_CONST_VOLT) * 10
            - Shown82.battery_voltage_mv \in 0 .. 4
    /\ reading.time \div 2 \in uint24 =>
         reading.time - Shown82.operating_time \in {0, 1}

\* From one reading to the next, a display never shows a better battery at
\* a lower voltage: the sections of battery_level_percent meet, and the
\* thresholds of the state are in order.
NeverBetterAtLowerVoltage ==
  [][/\ reading # NoReading /\ reading' # NoReading
     /\ page_82'.battery_voltage_mv <= page_82.battery_voltage_mv
     => Shown82'.battery_status >= Shown82.battery_status]_vars

\* Until a reading has been accepted since the boot, a display can tell:
\* page 1 shows 0xffff for the pressure and page 82 an invalid battery; and
\* never afterwards (ant_tpms_init, ant_sensor_data_handler_cb).
InvalidUntilRead ==
  /\ reading = NoReading <=> Shown1.pressure = Unset
  /\ reading = NoReading <=> Shown82.battery_status = STATE_INVALID

\* What displays have commanded since the boot is what a display is shown
\* on page 16, and as the role on page 1: through two encodings, the bit
\* fields of the command and the handler (ant_tpms_config_handler).
ConfigurationShown ==
  /\ Shown16 = wanted
  /\ Shown1.role = wanted.role
=============================================================================
