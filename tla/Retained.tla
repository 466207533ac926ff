------------------------------ MODULE Retained ------------------------------
(***************************************************************************)
(* The state that survives System OFF (retained.c, retained.h) and the     *)
(* threads that use it: the start of main(), the power-off and the reboot  *)
(* work items, the sensor data handler, and the callback that mcumgr runs  *)
(* when a firmware image has been transferred.                             *)
(*                                                                         *)
(* The record lives in a __noinit section: System OFF and a reboot keep    *)
(* it, removing the battery destroys it.  The system workqueue is a        *)
(* cooperative thread, so its handlers are single actions; the callback    *)
(* runs in the preemptible mcumgr thread, so between any two of its        *)
(* statements a handler of the system workqueue may run, power off or      *)
(* reboot.                                                                 *)
(***************************************************************************)
EXTENDS Naturals

CONSTANTS
  MaxUptime,    \* bound on the operating time between two battery changes
  MaxBoots,     \* bound on boots: starts that the counter has to count
  MaxOffs,      \* bound on off_count
  NoCrc         \* a stored checksum that matches no contents

ASSUME BoundAssumption ==
  /\ MaxUptime \in Nat
  /\ MaxBoots \in Nat
  /\ MaxOffs \in Nat

\* The part of struct retained_data that the checksum covers.
RetainedData == [uptime_latest : Nat, uptime_sum : Nat,
                 boots : Nat, off_count : Nat]

ASSUME NoCrcAssumption == NoCrc \notin RetainedData

Blank == [uptime_latest |-> 0, uptime_sum |-> 0, boots |-> 0, off_count |-> 0]

VARIABLES
  power,      \* "unpowered", "off" (System OFF), "reset" (rebooting) or "on"
  retained,   \* the record in RAM
  crc,        \* its stored checksum: the contents it was computed from
  uptime,     \* k_uptime_seconds()
  bluetooth,  \* main() has called start_bluetooth_services in this session
  operating_time, \* of page 82: 0, or as the sensor data handler last set it
  smp,        \* the mcumgr thread: its place in dfu_pending_cb
  smp_now,    \* its local variable now,
  smp_delta,  \* the session time it is about to add,
  smp_stores, \* and the stores of retained_update it has not made yet
  \* History variables, read by the properties only:
  past,       \* true uptime of the earlier sessions on this battery
  lost,       \* of that, seconds no retained_update ever recorded
  torn,       \* the device went off between the stores of the callback
  image,      \* the boot counter was cleared for a new image in the session
  start       \* why the session began: "battery", "image" or "wake"

smp_vars == <<smp, smp_now, smp_delta, smp_stores>>
history == <<past, lost, torn, image, start>>
vars == <<power, retained, crc, uptime, bluetooth, operating_time,
          smp, smp_now, smp_delta, smp_stores,
          past, lost, torn, image, start>>

TypeOK ==
  /\ power \in {"unpowered", "off", "reset", "on"}
  /\ retained \in RetainedData
  /\ crc \in RetainedData \cup {NoCrc}
  /\ uptime \in Nat
  /\ bluetooth \in BOOLEAN
  /\ operating_time \in Nat
  /\ smp \in {"idle", "clear", "read", "store", "seal"}
  /\ smp_now \in Nat
  /\ smp_delta \in Nat
  /\ smp_stores \subseteq {"uptime_sum", "uptime_latest"}
  /\ past \in Nat
  /\ lost \in Nat
  /\ torn \in BOOLEAN
  /\ image \in BOOLEAN
  /\ start \in {"battery", "image", "wake"}

-----------------------------------------------------------------------------
(* retained.c                                                              *)

\* The residue check of retained_validate: the stored checksum is the one of
\* the contents.
Valid == crc = retained

\* The record as retained_validate leaves it: reset if invalid, and ready to
\* accrue the time of this session.
Validated == IF Valid THEN [retained EXCEPT !.uptime_latest = 0] ELSE Blank

\* (A slip: the operands of the difference are swapped.)
AccruedBackwards(r, now) ==
  [r EXCEPT !.uptime_sum = @ + (r.uptime_latest - now), !.uptime_latest = now]

\* (A slip: the whole session is added on each update.)
AccruedAgain(r, now) ==
  [r EXCEPT !.uptime_sum = @ + now, !.uptime_latest = now]

\* The time of the session that was not recorded yet is added.
Accrued(r, now) ==
  [r EXCEPT !.uptime_sum = @ + (now - r.uptime_latest), !.uptime_latest = now]

\* retained_update run to its end: the record, and the checksum stored for it.
retained_update(r, now) == [data |-> Accrued(r, now), crc |-> Accrued(r, now)]

-----------------------------------------------------------------------------
(* main(): from the reset to the decision about Bluetooth.  No other thread *)
(* uses the record before the callback is registered.                      *)

\* (A slip: the boot is not counted.)
BootRecordUncounted == retained_update(Validated, 0)

\* This boot is counted, then the record is updated.
BootRecord == retained_update([Validated EXCEPT !.boots = @ + 1], 0)

\* Only a boot that counts as the first one starts Bluetooth.
FirstBoot == BootRecord.data.boots <= 1

Boot ==
  /\ power \in {"unpowered", "off", "reset"}
  /\ BootRecord.data.boots <= MaxBoots
  /\ power' = "on"
  /\ uptime' = 0
  /\ retained' = BootRecord.data
  /\ crc' = BootRecord.crc
  /\ bluetooth' = FirstBoot
  /\ start' = IF power = "unpowered" THEN "battery"
              ELSE IF image THEN "image" ELSE "wake"
  /\ image' = FALSE
  \* A record that failed its check takes the time it held with it.
  /\ lost' = IF Valid THEN lost ELSE lost + retained.uptime_sum
  \* ant_tpms_init, later in main(), before the radio or a reading can come.
  /\ operating_time' = 0
  /\ UNCHANGED <<smp_vars, past, torn>>

-----------------------------------------------------------------------------
(* Handlers of the system workqueue                                        *)

\* The session ends: RAM other than the record is gone.
SessionEnds ==
  /\ bluetooth' = FALSE
  /\ smp' = "idle"
  /\ smp_now' = 0
  /\ smp_delta' = 0
  /\ smp_stores' = {}

\* (A slip: the record is updated first, then the off is counted.)
PoweroffRecordCountedLate ==
  [retained_update(retained, uptime) EXCEPT !.data.off_count = @ + 1]

\* The record poweroff leaves: one more off, then updated.
PoweroffRecord ==
  retained_update([retained EXCEPT !.off_count = @ + 1], uptime)

\* The mcumgr thread is not between the two stores of its update.
Undivided == smp_stores \in {{}, {"uptime_sum", "uptime_latest"}}

\* poweroff, when the wake interrupt could be configured: count, update, off.
Poweroff ==
  /\ power = "on"
  /\ retained.off_count < MaxOffs
  /\ retained' = PoweroffRecord.data
  /\ crc' = PoweroffRecord.crc
  /\ power' = "off"
  /\ past' = past + uptime
  /\ uptime' = 0
  /\ torn' = (torn \/ ~Undivided)
  /\ SessionEnds
  /\ UNCHANGED <<operating_time, lost, image, start>>

\* reboot_work_wrapper after a device ID has been written, or the reset
\* command of mcumgr: both need a Bluetooth link, neither updates the record.
Reboot ==
  /\ power = "on"
  /\ bluetooth
  /\ power' = "reset"
  /\ past' = past + uptime
  /\ lost' = lost + (uptime - retained.uptime_latest)
  /\ uptime' = 0
  /\ torn' = (torn \/ ~Undivided)
  /\ SessionEnds
  /\ UNCHANGED <<retained, crc, operating_time, image, start>>

\* (A slip: what the callback has summed up of this session counts twice.)
SampleWhole == retained.uptime_sum + uptime

\* The operating time of page 82, in ant_sensor_data_handler_cb.
Sample == retained.uptime_sum + (uptime - retained.uptime_latest)

SensorData ==
  /\ power = "on"
  /\ operating_time' = Sample
  /\ UNCHANGED <<power, retained, crc, uptime, bluetooth, smp_vars, history>>

-----------------------------------------------------------------------------
(* dfu_pending_cb in the mcumgr thread, one action per access              *)

DfuPending ==
  /\ power = "on"
  /\ bluetooth
  /\ smp = "idle"
  /\ smp' = "clear"
  /\ UNCHANGED <<power, retained, crc, uptime, bluetooth, operating_time,
                 smp_now, smp_delta, smp_stores, history>>

\* retained.boots = 0
ClearBoots ==
  /\ power = "on"
  /\ smp = "clear"
  /\ retained' = [retained EXCEPT !.boots = 0]
  /\ image' = TRUE
  /\ smp' = "read"
  /\ UNCHANGED <<power, crc, uptime, bluetooth, operating_time,
                 smp_now, smp_delta, smp_stores, past, lost, torn, start>>

\* now = k_uptime_seconds(), and the loads of the statement that follows.
ReadUptime ==
  /\ power = "on"
  /\ smp = "read"
  /\ smp_now' = uptime
  /\ smp_delta' = uptime - retained.uptime_latest
  /\ smp_stores' = {"uptime_sum", "uptime_latest"}
  /\ smp' = "store"
  /\ UNCHANGED <<power, retained, crc, uptime, bluetooth, operating_time,
                 history>>

\* The record is not volatile: the compiler may emit the stores of
\* uptime_sum and uptime_latest in either order.
Store(field) ==
  /\ power = "on"
  /\ smp = "store"
  /\ field \in smp_stores
  /\ retained' = IF field = "uptime_sum"
                 THEN [retained EXCEPT !.uptime_sum = @ + smp_delta]
                 ELSE [retained EXCEPT !.uptime_latest = smp_now]
  /\ smp_stores' = smp_stores \ {field}
  /\ smp' = IF smp_stores = {field} THEN "seal" ELSE "store"
  /\ UNCHANGED <<power, crc, uptime, bluetooth, operating_time,
                 smp_now, smp_delta, history>>

\* The checksum, and the return of the callback.
Seal ==
  /\ power = "on"
  /\ smp = "seal"
  /\ crc' = retained
  /\ smp' = "idle"
  /\ UNCHANGED <<power, retained, uptime, bluetooth, operating_time,
                 smp_now, smp_delta, smp_stores, history>>

-----------------------------------------------------------------------------
(* The environment                                                         *)

Tick ==
  /\ power = "on"
  /\ past + uptime < MaxUptime
  /\ uptime' = uptime + 1
  /\ UNCHANGED <<power, retained, crc, bluetooth, operating_time, smp_vars,
                 history>>

\* RAM without power holds nothing that passes the check.
BatteryRemoved ==
  /\ power' = "unpowered"
  /\ retained' = Blank
  /\ crc' = NoCrc
  /\ uptime' = 0
  /\ operating_time' = 0
  /\ past' = 0
  /\ lost' = 0
  /\ torn' = FALSE
  /\ image' = FALSE
  /\ SessionEnds
  /\ UNCHANGED start

Init ==
  /\ power = "unpowered"
  /\ retained = Blank
  /\ crc = NoCrc
  /\ uptime = 0
  /\ bluetooth = FALSE
  /\ operating_time = 0
  /\ smp = "idle"
  /\ smp_now = 0
  /\ smp_delta = 0
  /\ smp_stores = {}
  /\ past = 0
  /\ lost = 0
  /\ torn = FALSE
  /\ image = FALSE
  /\ start = "battery"

Next ==
  \/ Boot
  \/ Poweroff
  \/ Reboot
  \/ SensorData
  \/ DfuPending
  \/ ClearBoots
  \/ ReadUptime
  \/ \E field \in {"uptime_sum", "uptime_latest"} : Store(field)
  \/ Seal
  \/ Tick
  \/ BatteryRemoved

Spec == Init /\ [][Next]_vars

-----------------------------------------------------------------------------
(* Properties                                                              *)

\* A device that has been switched off by poweroff finds a valid record when
\* it wakes, wherever in dfu_pending_cb the mcumgr thread was preempted for
\* good (main.c poweroff, retained.c).
OffRecordValid == power = "off" => Valid

\* A session offers Bluetooth exactly if it is the first on this battery or
\* the first after the callback cleared the boot counter for a new image: no
\* ordinary wake-up does, and no power-off or reboot in the middle of the
\* callback makes the device forget to (main.c main, dfu_pending_cb).
BluetoothExactlyOnFirstBoot ==
  power = "on" => (bluetooth <=> start \in {"battery", "image"})

\* Every second of operation is in uptime_sum, or was lost to a reboot that
\* did not update the record, or is the part of this session since
\* uptime_latest; none is there twice (retained_update and its callers).
UptimeAccounted ==
  ~torn =>
    /\ power = "on" /\ Undivided =>
         retained.uptime_sum + lost = past + retained.uptime_latest
    /\ power # "on" => retained.uptime_sum + lost = past

\* The seconds the record stands for: it has to be read with what the callback
\* holds between its two stores.
Counted ==
  CASE smp_stores = {"uptime_latest"} ->
         retained.uptime_sum + (uptime - smp_now)
    [] smp_stores = {"uptime_sum"} ->
         retained.uptime_sum + smp_delta + (uptime - retained.uptime_latest)
    [] power = "on" /\ Undivided ->
         retained.uptime_sum + (uptime - retained.uptime_latest)
    [] OTHER -> retained.uptime_sum

\* What the session, or its end, allows to be said of them.
AccountState ==
  CASE power = "on" /\ smp \in {"read", "store", "seal"} -> "updating"
    [] power = "on" /\ smp \in {"idle", "clear"} -> "on"
    [] power = "reset" /\ ~Valid -> "doubtful"
    [] OTHER -> "off"

\* The operating time as UptimeAccount promises it.
Account == INSTANCE UptimeAccount WITH
  state <- AccountState,
  session <- uptime,
  total <- past + uptime,
  counted <- Counted,
  shown <- operating_time

\* Whatever poweroff, reboots and readings fall into the callback, page 82 and
\* the record keep the promise of UptimeAccount: readings and the power-off
\* are exact unless they fall between the accesses of the callback, and then
\* off by no more than the session; a reboot loses no time of an earlier
\* session unless it falls there (retained_validate, retained_update,
\* poweroff, dfu_pending_cb, ant_sensor_data_handler_cb).
AccountKept == Account!Spec

\* What retained.h:20-21 says of uptime_sum: "Cumulative uptime from all
\* previous sessions up through uptime_latest of this session."
CumulativeUptime ==
  power = "on" /\ smp = "idle" =>
    retained.uptime_sum = past + retained.uptime_latest

\* What ant_common_page_82.h:54 says of operating_time, "Cumulative Operating
\* Time in seconds": never more than the device has operated.
OperatingTimeNotAhead == operating_time <= past + uptime
=============================================================================
