------------------------------- MODULE Config -------------------------------
(***************************************************************************)
(* The configuration of the device and the pages that show it: settings.c, *)
(* and in ant.c profile_setup, the handler of page 16 commands and the     *)
(* handler of sensor readings.                                             *)
(*                                                                         *)
(* Three threads are at work.  main() loads the settings, and initialises  *)
(* those that are missing.  Then the ANT context handles page 16 commands  *)
(* and the system workqueue handles sensor readings.  Saving a setting     *)
(* blocks, so a reading or a restart may come before the save is done.     *)
(* The storage is atomic: after a restart it holds the old value or the    *)
(* new one.                                                                *)
(***************************************************************************)
EXTENDS PageValues

CONSTANTS
  Roles,        \* values of ant_tpms_role_t
  NoRole,       \* ANT_TPMS_ROLE_NONE
  Pressures,    \* values of the pressure fields of page 16, in hPa
  Commands,     \* the page 16 commands displays send
  Measured,     \* the pressures the sensor measures, int16_t
  NoValue,      \* a key the storage does not have
  NoCommand     \* no command is being handled

\* The settings keys of the fields of page 16 that are stored.
Fields == {"role", "alarm_low_pressure", "alarm_high_pressure"}
Keys == {"role", "alL", "alH"}

Flags == {"SET_ROLE", "SET_AMBIENT", "SET_ALARM_LOW", "SET_ALARM_HIGH"}

Page16 == [role : Roles, ambient_pressure : Pressures,
           alarm_low_pressure : Pressures, alarm_high_pressure : Pressures]

\* A command carries a page 16 and a bit field of flags.
Command == [flags : SUBSET Flags, page : Page16]

ASSUME PressureAssumption == Pressures \subseteq 0 .. Unset

ASSUME MeasuredAssumption == Measured \subseteq int16

ASSUME DefaultAssumption ==
  Unset \in Pressures /\ ANT_TPMS_AMBIENT_DEFAULT \in Pressures

ASSUME ValueAssumption ==
  /\ NoRole \in Roles
  /\ NoValue \notin Roles \cup Pressures
  /\ Commands \subseteq Command

VARIABLES
  flash,          \* the settings storage
  main,           \* main(): "profile", then the field it loads; "open" once ANT
                  \* runs, "failed" if it could not be started
  page_16,        \* tpms.page_16
  page_1,         \* tpms.page_1
  ant,            \* the step of ant_tpms_config_handler that is next
  command,        \* its argument p_page16
  \* History variables, read by the properties only:
  failed,         \* fields whose last save or load failed
  reset,          \* fields reset by a command, not configured since
  fresh           \* a reading came after the last change it depends on

page_vars == <<page_16, page_1>>
ant_vars == <<ant, command>>
history == <<failed, reset, fresh>>
vars == <<flash, main, page_16, page_1, ant, command, failed, reset, fresh>>

TypeOK ==
  /\ flash \in [Keys -> Roles \cup Pressures \cup {NoValue}]
  /\ main \in {"profile", "open", "failed"} \cup Fields
  /\ page_16 \in Page16
  /\ page_1 \in [role : Roles, alarms : SUBSET Alarms, pressure : 0 .. Unset]
  /\ ant \in {"idle", "set_role", "set_ambient", "set_low", "set_high", "match"}
            \cup Fields
  /\ command \in Command \cup {NoCommand}
  /\ failed \subseteq Fields
  /\ reset \subseteq Fields
  /\ fresh \in BOOLEAN

-----------------------------------------------------------------------------
(* The pages and the storage before any setting is loaded                  *)

DEFAULT_ANT_TPMS_page16 ==
  [role |-> NoRole, ambient_pressure |-> ANT_TPMS_AMBIENT_DEFAULT,
   alarm_low_pressure |-> Unset, alarm_high_pressure |-> Unset]

DEFAULT_ANT_TPMS_page1 ==
  [role |-> NoRole, alarms |-> Alarms, pressure |-> Unset]

\* (A slip: the key of the low threshold is used for both.)
KeyOfCopied(field) == IF field = "role" THEN "role" ELSE "alL"

\* The key the handler of commands saves a field under.
KeyOf(field) ==
  CASE field = "role" -> "role"
    [] field = "alarm_low_pressure" -> "alL"
    [] field = "alarm_high_pressure" -> "alH"

\* The key profile_setup loads a field from, and the field it loads next.
LoadKey == [role |-> "role", alarm_low_pressure |-> "alL",
            alarm_high_pressure |-> "alH"]

NextLoad == [role |-> "alarm_low_pressure",
             alarm_low_pressure |-> "alarm_high_pressure",
             alarm_high_pressure |-> "open"]

-----------------------------------------------------------------------------
(* main(): profile_setup                                                   *)

\* The while loop of load_immediate_value_init_default for a missing key: the
\* default is saved, and the loop looks again.
InitDefault(key, default) ==
  /\ flash[key] = NoValue
  /\ flash' = [flash EXCEPT ![key] = default]
  /\ UNCHANGED <<main, page_vars, ant_vars, history>>

\* (A slip: the default is saved under the key of the role.)
DefaultUnderRole(field) ==
  InitDefault("role", DEFAULT_ANT_TPMS_page16[field])

\* The default of a field of page 16.
InitDefaultField(field) ==
  InitDefault(LoadKey[field], DEFAULT_ANT_TPMS_page16[field])

\* As long as saving the default fails, the loop goes round and main() does
\* not get on: the step leaves everything as it is.
SaveDefault ==
  \E field \in Fields : main = field /\ InitDefaultField(field)

\* The profile is initialised; without a settings subsystem, a device ID or
\* an ANT stack start_ant_device ends here.
SensInit ==
  /\ main = "profile"
  /\ main' \in {"role", "failed"}
  /\ page_16' = DEFAULT_ANT_TPMS_page16
  /\ page_1' = DEFAULT_ANT_TPMS_page1
  /\ UNCHANGED <<flash, ant_vars, history>>

\* What a load may leave in the variable it was to fill when it fails: role
\* is not initialised, alarm_thres is neither for the low threshold, and
\* holds the low threshold when it is read for the high one.
Leftover(field) ==
  CASE field = "role" -> Roles
    [] field = "alarm_low_pressure" -> Pressures
    [] field = "alarm_high_pressure" -> {page_16.alarm_low_pressure}

\* The pages with a field loaded.
Loaded(field, value) ==
  /\ page_16' = [page_16 EXCEPT ![field] = value]
  /\ page_1' = IF field = "role" THEN [page_1 EXCEPT !.role = value]
                                 ELSE page_1

\* A field of page 16 is loaded, or cannot be read; after the last one the
\* channel is opened, if that works.
LoadField(field) ==
  /\ main = field
  /\ flash[LoadKey[field]] # NoValue
  /\ \/ /\ Loaded(field, flash[LoadKey[field]])
        /\ UNCHANGED failed
     \/ /\ \E value \in Leftover(field) : Loaded(field, value)
        /\ failed' = failed \cup {field}
  /\ main' \in IF NextLoad[field] = "open" THEN {"open", "failed"}
                                           ELSE {NextLoad[field]}
  /\ UNCHANGED <<flash, ant_vars, reset, fresh>>

-----------------------------------------------------------------------------
(* ant_tpms_config_handler, one action per if statement and per save.      *)

IsReset(c) ==
  /\ c.flags = {}
  /\ c.page.ambient_pressure = Unset
  /\ c.page.alarm_low_pressure = Unset
  /\ c.page.alarm_high_pressure = Unset

\* The profile has decoded an acknowledged page 16; the reset is first.
ReceiveCommand(c) ==
  /\ main = "open"
  /\ ant = "idle"
  /\ command' = c
  /\ ant' = "set_role"
  /\ page_16' = IF IsReset(c) THEN DEFAULT_ANT_TPMS_page16 ELSE page_16
  /\ reset' = IF IsReset(c) THEN Fields ELSE reset
  /\ fresh' = (fresh /\ ~IsReset(c))
  /\ UNCHANGED <<flash, main, page_1, failed>>

\* A field that the command configures is set, to be saved next; one that it
\* does not is skipped.
Configure(step, flag, field, next) ==
  /\ main = "open"
  /\ ant = step
  /\ IF flag \in command.flags
     THEN /\ page_16' = [page_16 EXCEPT ![field] = command.page[field]]
          /\ reset' = reset \ {field}
          /\ fresh' = (fresh /\ field = "role")
          /\ ant' = IF field \in Fields THEN field ELSE next
     ELSE /\ ant' = next
          /\ UNCHANGED <<page_16, reset, fresh>>
  /\ UNCHANGED <<flash, main, page_1, command, failed>>

ConfigureRole == Configure("set_role", "SET_ROLE", "role", "set_ambient")

\* The ambient pressure is not stored persistently.
ConfigureAmbient ==
  Configure("set_ambient", "SET_AMBIENT", "ambient_pressure", "set_low")

ConfigureLow ==
  Configure("set_low", "SET_ALARM_LOW", "alarm_low_pressure", "set_high")

ConfigureHigh ==
  Configure("set_high", "SET_ALARM_HIGH", "alarm_high_pressure", "match")

\* settings_save_one of a field returns; a failure is only logged.
SaveField(field, next) ==
  /\ main = "open"
  /\ ant = field
  /\ \/ /\ flash' = [flash EXCEPT ![KeyOf(field)] = page_16[field]]
        /\ failed' = failed \ {field}
     \/ /\ failed' = failed \cup {field}
        /\ UNCHANGED flash
  /\ ant' = next
  /\ UNCHANGED <<main, page_vars, command, reset, fresh>>

\* (A slip: page 1 follows the commands that set a role, not the reset.)
MatchRoleIfSet ==
  /\ main = "open"
  /\ ant = "match"
  /\ page_1' = IF "SET_ROLE" \in command.flags
               THEN [page_1 EXCEPT !.role = page_16.role] ELSE page_1
  /\ ant' = "idle"
  /\ command' = NoCommand
  /\ UNCHANGED <<flash, main, page_16, history>>

\* The last statement: match page 1 to page 16.
MatchRole ==
  /\ main = "open"
  /\ ant = "match"
  /\ page_1' = [page_1 EXCEPT !.role = page_16.role]
  /\ ant' = "idle"
  /\ command' = NoCommand
  /\ UNCHANGED <<flash, main, page_16, history>>

-----------------------------------------------------------------------------
(* ant_sensor_data_handler_cb: pressure and alarms of page 1.  Without an  *)
(* open channel nobody sees the pages.                                     *)

\* (A slip: the pressure on page 1 has not been updated yet.)
SensorDataAlarmsFirst(measured) ==
  /\ main = "open"
  /\ page_1' = [page_1 EXCEPT !.pressure = CompensatedPressure(page_16, measured),
                              !.alarms = AlarmsOf(page_16, page_1.pressure)]
  /\ fresh' = TRUE
  /\ UNCHANGED <<flash, main, page_16, ant_vars, failed, reset>>

SensorData(measured) ==
  LET pressure == CompensatedPressure(page_16, measured) IN
  /\ main = "open"
  /\ page_1' = [page_1 EXCEPT !.pressure = pressure,
                              !.alarms = AlarmsOf(page_16, pressure)]
  /\ fresh' = TRUE
  /\ UNCHANGED <<flash, main, page_16, ant_vars, failed, reset>>

-----------------------------------------------------------------------------
(* Restarts                                                                *)

\* System OFF and wake-up, a reboot, a change of the battery: RAM is lost, the
\* storage is not.  Nobody sees the pages before profile_setup fills them.
Restart ==
  /\ main' = "profile"
  /\ page_16' = DEFAULT_ANT_TPMS_page16
  /\ page_1' = DEFAULT_ANT_TPMS_page1
  /\ ant' = "idle"
  /\ command' = NoCommand
  /\ failed' = {}
  /\ reset' = {}
  /\ fresh' = FALSE
  /\ UNCHANGED flash

Init ==
  /\ flash = [key \in Keys |-> NoValue]
  /\ main = "profile"
  /\ page_16 = DEFAULT_ANT_TPMS_page16
  /\ page_1 = DEFAULT_ANT_TPMS_page1
  /\ ant = "idle"
  /\ command = NoCommand
  /\ failed = {}
  /\ reset = {}
  /\ fresh = FALSE

MainStep ==
  \/ SaveDefault
  \/ SensInit
  \/ \E field \in Fields : LoadField(field)

HandlerStep ==
  \/ ConfigureRole
  \/ ConfigureAmbient
  \/ ConfigureLow
  \/ ConfigureHigh
  \/ SaveField("role", "set_ambient")
  \/ SaveField("alarm_low_pressure", "set_high")
  \/ SaveField("alarm_high_pressure", "match")
  \/ MatchRole

Next ==
  \/ MainStep
  \/ \E c \in Commands : ReceiveCommand(c)
  \/ HandlerStep
  \/ \E measured \in Measured : SensorData(measured)
  \/ Restart

Spec == Init /\ [][Next]_vars

(* main() goes on, and does not fail for ever to save a default.           *)
FairSpec == Spec /\ WF_vars(MainStep) /\ SF_vars(SaveDefault)

-----------------------------------------------------------------------------
(* Properties                                                              *)

\* Between commands the storage holds what page 16 shows, but for fields that
\* could not be read or saved and fields that a command reset in RAM: over
\* restarts in the middle of a command as well (ant_tpms_config_handler,
\* profile_setup).
StoredAsShown ==
  main = "open" /\ ant = "idle" =>
    \A field \in Fields \ (failed \cup reset) :
      flash[LoadKey[field]] = page_16[field]

\* Between commands page 1 and page 16 show the same role, also after a reset,
\* a failed save or a role that could not be loaded.
RoleOnBothPages ==
  main = "open" /\ ant = "idle" => page_1.role = page_16.role

\* With a reading since the last change of thresholds or offset, the alarm
\* bits agree with the pressure that is shown beside them; with only one
\* threshold configured there is never an alarm (ant_sensor_data_handler_cb,
\* while ant_tpms_config_handler may be half-way through a command).
AlarmsMatchPressure ==
  fresh =>
    /\ "LOW_OK" \in page_1.alarms <=>
         (AlarmsConfigured(page_16) => page_16.alarm_low_pressure <= page_1.pressure)
    /\ "HIGH_OK" \in page_1.alarms <=>
         (AlarmsConfigured(page_16) => page_1.pressure <= page_16.alarm_high_pressure)

\* main() gets through the settings, however they are missing or unreadable,
\* or the device restarts again and again (load_immediate_value_init_default).
BootCompletes == []<>(main \in {"open", "failed", "profile"})

\* What ant_tpms.h:111 says of the handler of commands, "Event handler to
\* update runtime configuration and store persistently": a reset, too.
ConfigurationStored ==
  main = "open" /\ ant = "idle" =>
    \A field \in Fields \ failed : flash[LoadKey[field]] = page_16[field]
=============================================================================
