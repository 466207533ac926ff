-------------------------- MODULE SystemWorkqueue --------------------------
(***************************************************************************)
(* What runs once main() has finished: the system workqueue of Zephyr, one *)
(* cooperative thread that takes its work items in FIFO order, with        *)
(*   - supervise and poweroff (main.c), which hand each other on so that   *)
(*     the device goes to System OFF when the wake signal is gone, and     *)
(*   - spim_receive (spi.c), which the interrupt of the pressure sensor    *)
(*     schedules, and which publishes what it reads to the ANT+ pages.     *)
(*                                                                         *)
(* Interrupts, timeouts and the wake pin act between any two actions, also *)
(* while spim_receive is in the middle of its transfer.                    *)
(***************************************************************************)
EXTENDS Naturals, Sequences

CONSTANTS
  SUPERVISION_CYCLE_TIME,  \* SUPERVISION_CYCLE_TIME_MS, in ticks
  SYS_POWEROFF_DELAY,      \* in ticks
  Readings,                \* what the sensor can have measured
  NoReading                \* the pages before the first reading

ASSUME DelayAssumption ==
  /\ SUPERVISION_CYCLE_TIME \in Nat \ {0}
  /\ SYS_POWEROFF_DELAY \in Nat \ {0}

ASSUME ReadingAssumption == Readings # {} /\ NoReading \notin Readings

Works == {"supervision", "poweroff", "spim_receive"}

VARIABLES
  power,        \* "on" or "off": System OFF
  wake_signal,  \* the level of the wake pin
  main,         \* "starting", "done" or "failed": a GPIO check returned early
  work,         \* the flags of each delayable work item
  timer,        \* ticks until a delayed work item is queued
  queue,        \* the FIFO of the workqueue
  transfer,     \* spim_receive: "none", "clean", or "mixed" when the sensor
                \* has measured anew since the transfer began
  sensor,       \* the reading the sensor offers
  pages,        \* the reading the ANT+ pages show
  installed,    \* spim_init has installed int_cb_handler
  \* History variables, read by the properties only:
  missed,       \* the last transfer failed, or there was none
  sample,       \* the level supervise saw last
  sample_age    \* ticks since then, up to SYS_POWEROFF_DELAY

sensor_vars == <<transfer, sensor, pages, installed, missed>>
sample_vars == <<sample, sample_age>>
vars == <<power, wake_signal, main, work, timer, queue,
          transfer, sensor, pages, installed, missed, sample, sample_age>>

TypeOK ==
  /\ power \in {"on", "off"}
  /\ wake_signal \in BOOLEAN
  /\ main \in {"starting", "done", "failed"}
  /\ work \in [Works -> {"idle", "delayed", "queued"}]
  /\ timer \in [Works -> Nat]
  /\ queue \in Seq(Works)
  /\ transfer \in {"none", "clean", "mixed"}
  /\ sensor \in Readings
  /\ pages \in Readings \cup {NoReading}
  /\ installed \in BOOLEAN
  /\ missed \in BOOLEAN
  /\ sample \in {"none", "high", "low"}
  /\ sample_age \in 0 .. SYS_POWEROFF_DELAY

-----------------------------------------------------------------------------
(* Zephyr's delayable work                                                 *)

\* k_work_schedule with a delay, on the flags w: nothing happens to an item
\* that is pending already.
Delay(w, next, delay) ==
  IF w[next] = "idle"
  THEN /\ work' = [w EXCEPT ![next] = "delayed"]
       /\ timer' = [timer EXCEPT ![next] = delay]
  ELSE /\ work' = w
       /\ UNCHANGED timer

\* The workqueue is free and w is the item it runs next.
Runs(w) ==
  /\ power = "on"
  /\ transfer = "none"
  /\ queue # <<>>
  /\ Head(queue) = w
  /\ work[w] = "queued"

\* The flags while the handler of w runs: w may be scheduled again.
Taken(w) == [work EXCEPT ![w] = "idle"]

\* A reset: static data is initialised, no work item is pending.
Restart ==
  /\ main' = "starting"
  /\ work' = [w \in Works |-> "idle"]
  /\ timer' = [w \in Works |-> 0]
  /\ queue' = <<>>
  /\ transfer' = "none"
  /\ pages' = NoReading
  /\ installed' = FALSE
  /\ missed' = TRUE
  /\ sample' = "none"
  /\ sample_age' = 0
  /\ UNCHANGED sensor

\* The delay of w is over: the timeout interrupt queues the item.
Expires(w) == work[w] = "delayed" /\ timer[w] = 1

Tick ==
  /\ power = "on"
  /\ \E w \in Works : work[w] = "delayed"
  /\ timer' = [w \in Works |-> IF work[w] = "delayed" THEN timer[w] - 1
                                                      ELSE timer[w]]
  /\ work' = [w \in Works |-> IF Expires(w) THEN "queued" ELSE work[w]]
  /\ queue' = IF Expires("supervision") THEN Append(queue, "supervision")
              ELSE IF Expires("poweroff") THEN Append(queue, "poweroff")
              ELSE queue
  /\ sample_age' = IF sample_age < SYS_POWEROFF_DELAY THEN sample_age + 1
                                                      ELSE sample_age
  /\ UNCHANGED <<power, wake_signal, main, sample, sensor_vars>>

-----------------------------------------------------------------------------
(* main(), from the GPIO checks on                                         *)

\* spim_init installs int_cb_handler last: each of its failures comes before.
SpimInit == installed' \in BOOLEAN

\* main() ignores a failure of spim_init; the supervision starts with its last
\* statement.
MainDone ==
  /\ power = "on"
  /\ main = "starting"
  /\ main' = "done"
  /\ SpimInit
  /\ Delay(work, "supervision", SUPERVISION_CYCLE_TIME)
  /\ UNCHANGED <<power, wake_signal, queue, transfer, sensor, pages, missed,
                 sample_vars>>

\* The wake pin is not ready or cannot be configured: main() returns.
MainFails ==
  /\ power = "on"
  /\ main = "starting"
  /\ main' = "failed"
  /\ UNCHANGED <<power, wake_signal, work, timer, queue, sensor_vars,
                 sample_vars>>

-----------------------------------------------------------------------------
(* supervise and poweroff                                                  *)

\* (A slip: the test of the pin is inverted.)
ReadsHigh == wake_signal

\* gpio_pin_get_dt(&wake_signal) == 0
ReadsLow == ~wake_signal

Supervise ==
  /\ Runs("supervision")
  /\ queue' = Tail(queue)
  /\ IF ReadsLow
     THEN Delay(Taken("supervision"), "poweroff", SYS_POWEROFF_DELAY)
     ELSE Delay(Taken("supervision"), "supervision", SUPERVISION_CYCLE_TIME)
  /\ sample' = IF wake_signal THEN "high" ELSE "low"
  /\ sample_age' = 0
  /\ UNCHANGED <<power, wake_signal, main, sensor_vars>>

\* The wake interrupt is configured: sys_poweroff does not return.
PoweroffOk ==
  /\ Runs("poweroff")
  /\ power' = "off"
  /\ Restart
  /\ UNCHANGED wake_signal

\* (A slip: the failure is only logged.)
PoweroffFailsLogged ==
  /\ Runs("poweroff")
  /\ queue' = Tail(queue)
  /\ work' = Taken("poweroff")
  /\ UNCHANGED <<power, wake_signal, main, timer, sensor_vars, sample_vars>>

\* The interrupt could not be configured: supervision goes on.
PoweroffFails ==
  /\ Runs("poweroff")
  /\ queue' = Tail(queue)
  /\ Delay(Taken("poweroff"), "supervision", SUPERVISION_CYCLE_TIME)
  /\ UNCHANGED <<power, wake_signal, main, sensor_vars, sample_vars>>

-----------------------------------------------------------------------------
(* The pressure sensor and spim_receive                                    *)

\* (A slip: the interrupt is ignored while a transfer is in progress.)
IntSchedulesWhenFree ==
  installed /\ work["spim_receive"] = "idle" /\ transfer = "none"

\* k_work_schedule queues the item unless it is queued already; the flag of
\* a handler that is running does not count.
IntSchedules == installed /\ work["spim_receive"] = "idle"

\* The sensor has measured and pulls its line: int_cb_handler schedules
\* spim_receive with SPIM_INT_TRANSFER_DELAY_MS = 0.
Measure(reading) ==
  /\ power = "on"
  /\ sensor' = reading
  /\ transfer' = IF transfer = "none" THEN "none" ELSE "mixed"
  /\ IF IntSchedules
     THEN /\ work' = [work EXCEPT !["spim_receive"] = "queued"]
          /\ queue' = Append(queue, "spim_receive")
     ELSE UNCHANGED <<work, queue>>
  /\ UNCHANGED <<power, wake_signal, main, timer, pages, installed, missed,
                 sample_vars>>

\* spim_receive begins its transfer.
ReceiveStart ==
  /\ Runs("spim_receive")
  /\ queue' = Tail(queue)
  /\ work' = Taken("spim_receive")
  /\ transfer' = "clean"
  /\ UNCHANGED <<power, wake_signal, main, timer, sensor, pages, installed,
                 missed, sample_vars>>

\* spi_read and the checksum are fine: the reading is published, and the zbus
\* listener ant_sensor_data_handler_cb puts it on the pages before the
\* handler returns.  A transfer in which the sensor measured anew may still
\* have read the earlier measurement, or a mixture that passes the checksum.
ReceivePublish ==
  /\ power = "on"
  /\ transfer # "none"
  /\ pages' \in IF transfer = "clean" THEN {sensor} ELSE Readings
  /\ transfer' = "none"
  /\ missed' = FALSE
  /\ UNCHANGED <<power, wake_signal, main, work, timer, queue, sensor,
                 installed, sample_vars>>

\* (A slip: the error is logged only, and sensor_data is published without
\* having been filled in.)
ReceiveDropUnfilled ==
  /\ power = "on"
  /\ transfer # "none"
  /\ transfer' = "none"
  /\ pages' = "unfilled"
  /\ missed' = TRUE
  /\ UNCHANGED <<power, wake_signal, main, work, timer, queue, sensor,
                 installed, sample_vars>>

\* spi_read fails, or decode_sensor_buffer finds the checksum wrong: the
\* reading is dropped.
ReceiveDrop ==
  /\ power = "on"
  /\ transfer # "none"
  /\ transfer' = "none"
  /\ missed' = TRUE
  /\ UNCHANGED <<power, wake_signal, main, work, timer, queue, sensor, pages,
                 installed, sample_vars>>

-----------------------------------------------------------------------------
(* The environment                                                         *)

PinChanges ==
  /\ wake_signal' = ~wake_signal
  /\ UNCHANGED <<power, main, work, timer, queue, sensor_vars, sample_vars>>

\* (A slip: GPIO_INT_EDGE_TO_ACTIVE, which waits for the signal to return.)
WakeUpOnEdge ==
  /\ power = "off"
  /\ ~wake_signal
  /\ power' = "on"
  /\ Restart
  /\ wake_signal' = TRUE

\* The level-sensitive wake interrupt ends System OFF with a reset.
WakeUp ==
  /\ power = "off"
  /\ wake_signal
  /\ power' = "on"
  /\ Restart
  /\ UNCHANGED wake_signal

\* A reboot, for a device ID or a new image, or a change of the battery.
Reboot ==
  /\ power = "on"
  /\ Restart
  /\ UNCHANGED <<power, wake_signal>>

Init ==
  /\ power = "on"
  /\ wake_signal \in BOOLEAN
  /\ main = "starting"
  /\ work = [w \in Works |-> "idle"]
  /\ timer = [w \in Works |-> 0]
  /\ queue = <<>>
  /\ transfer = "none"
  /\ sensor \in Readings
  /\ pages = NoReading
  /\ installed = FALSE
  /\ missed = TRUE
  /\ sample = "none"
  /\ sample_age = 0

Next ==
  \/ MainDone
  \/ MainFails
  \/ Supervise
  \/ PoweroffOk
  \/ PoweroffFails
  \/ \E reading \in Readings : Measure(reading)
  \/ ReceiveStart
  \/ ReceivePublish
  \/ ReceiveDrop
  \/ Tick
  \/ PinChanges
  \/ WakeUp
  \/ Reboot

Spec == Init /\ [][Next]_vars

(* Timeouts expire; the workqueue runs its items, whose handlers return,   *)
(* however often the sensor interrupts; configuring the wake interrupt     *)
(* does not fail for ever; the wake interrupt resets the chip.             *)
Fairness ==
  /\ WF_vars(Tick)
  /\ WF_vars(Supervise)
  /\ SF_vars(PoweroffOk)
  /\ WF_vars(PoweroffOk \/ PoweroffFails)
  /\ WF_vars(ReceiveStart)
  /\ WF_vars(ReceivePublish \/ ReceiveDrop)
  /\ WF_vars(WakeUp)

FairSpec == Spec /\ Fairness

-----------------------------------------------------------------------------
(* Properties                                                              *)

Pending(w) == work[w] # "idle"

\* Once main() has started the supervision, exactly one of supervise and
\* poweroff is pending until the device is off: the chain that lets the device
\* sleep is never broken, by a failing interrupt either, and never doubled.
OneOfThePairPending ==
  power = "on" /\ main = "done" =>
    (Pending("supervision") <=> ~Pending("poweroff"))

\* The device switches off only after supervise saw the wake signal low, and
\* SYS_POWEROFF_DELAY or more after that, however the pin moves and however
\* long other handlers keep the workqueue.
OffOnlyAfterDelay ==
  [][power = "on" /\ power' = "off" =>
       sample = "low" /\ sample_age = SYS_POWEROFF_DELAY]_vars

\* No interrupt of the sensor is lost: when the workqueue has no transfer to
\* make and the last one did not fail, the pages show what the sensor measured
\* last, also when it measured while spim_receive was queued or running.
PagesUpToDate ==
  /\ power = "on"
  /\ ~missed
  /\ transfer = "none"
  /\ ~Pending("spim_receive")
  => pages = sensor

\* With the signal gone for good a supervised device ends in System OFF, over
\* failing interrupt configurations and whatever the sensor does.  A device
\* whose main() returned early is not supervised and stays on.
SleepsWithoutSignal ==
  <>[]~wake_signal => []<>(power = "off" \/ main # "done")

\* With the signal back for good the device is on for good, even when it came
\* back too late for a power-off that was already scheduled.
StaysOnWithSignal ==
  <>[]wake_signal => <>[](power = "on")
=============================================================================
