----------------------------- MODULE Bluetooth -----------------------------
(***************************************************************************)
(* The Bluetooth services (bluetooth.c) of one boot after another, and the *)
(* device ID, which a central sets over Bluetooth and which the name and   *)
(* the ANT+ channel show.                                                  *)
(*                                                                         *)
(* The stack calls connected() and the GATT write handler in its receive   *)
(* thread, at any time, also while disable_bt waits in one of the calls    *)
(* that shut Bluetooth down.  Everything else runs in the FIFO of the      *)
(* system workqueue: bt_ready, disconnected() (a deferred work item of the *)
(* stack), advertise, disable_bt and the reboot.  The stack has one        *)
(* connection (CONFIG_BT_MAX_CONN=1), free again after disconnected().     *)
(***************************************************************************)
EXTENDS Naturals, Sequences, SequencesExt

CONSTANTS
  BT_DISABLE_DELAY,       \* in ticks
  BT_DISABLE_RESCHEDULE,  \* in ticks
  REBOOT_DELAY,           \* REBOOT_DELAY_MS, in ticks
  Ids,                    \* device IDs
  HwId,                   \* get_hwid_16bit, the default
  NoId                    \* none stored, none in use, none being written

ASSUME DelayAssumption ==
  {BT_DISABLE_DELAY, BT_DISABLE_RESCHEDULE, REBOOT_DELAY} \subseteq Nat \ {0}

ASSUME IdAssumption == HwId \in Ids /\ NoId \notin Ids

Delayable == {"disable_bt", "reboot"}
Items == Delayable \cup {"bt_ready", "advertise", "disconnected"}

VARIABLES
  main,         \* what main() does next: "settings", "bluetooth", "ant", "done"
  bt,           \* the stack: "none", "enabling", "on", "off"; "failed" when
                \* bt_ready could not finish
  smp,          \* the SMP service is registered
  advertising,
  conn,         \* "none", "up", or "down" until disconnected() has run
  shutdown,     \* the call of shutdown_bluetooth disable_bt is in, or "none"
  canceling,    \* K_WORK_CANCELING of disable_bt_work
  work,         \* the state of the delayable work items, when not running
  timer,        \* ticks until they are queued
  queue,        \* the FIFO of the system workqueue
  stored,       \* the device ID in the settings
  writing,      \* the device ID the GATT write handler is saving
  name_id,      \* the device ID in the Bluetooth name
  ant_id,       \* the device ID of the ANT+ channel
  quiet         \* history: ticks since bt_ready or the last disconnected()

id_vars == <<stored, writing, name_id, ant_id>>
work_vars == <<canceling, work, timer, queue>>
bt_vars == <<bt, smp, advertising, conn, shutdown>>
vars == <<main, bt, smp, advertising, conn, shutdown, canceling, work, timer,
          queue, stored, writing, name_id, ant_id, quiet>>

TypeOK ==
  /\ main \in {"settings", "bluetooth", "ant", "done"}
  /\ bt \in {"none", "enabling", "on", "failed", "off"}
  /\ smp \in BOOLEAN /\ advertising \in BOOLEAN /\ canceling \in BOOLEAN
  /\ conn \in {"none", "up", "down"}
  /\ shutdown \in {"none", "adv_stop", "unregister", "disable"}
  /\ work \in [Delayable -> {"idle", "delayed", "queued"}]
  /\ timer \in [Delayable -> Nat]
  /\ queue \in Seq(Items)
  /\ {stored, writing, name_id, ant_id} \subseteq Ids \cup {NoId}
  /\ quiet \in 0 .. BT_DISABLE_DELAY

-----------------------------------------------------------------------------
(* Zephyr's work items                                                     *)

\* (A slip: k_work_reschedule, which starts the delay anew.)
ScheduleAgain(w, delay) ==
  /\ work' = [work EXCEPT ![w] = IF @ = "queued" THEN @ ELSE "delayed"]
  /\ timer' = [timer EXCEPT ![w] = delay]

\* k_work_schedule: nothing happens to an item that is pending or canceling.
Schedule(w, delay) ==
  IF work[w] = "idle" /\ ~(w = "disable_bt" /\ canceling)
  THEN /\ work' = [work EXCEPT ![w] = "delayed"]
       /\ timer' = [timer EXCEPT ![w] = delay]
  ELSE UNCHANGED <<work, timer>>

\* k_work_submit on the queue q: an item is in the queue at most once.
Submit(q, item) == IF Contains(q, item) THEN q ELSE Append(q, item)

\* The workqueue is free, and the item is the one it runs next.
Runs(item) == shutdown = "none" /\ queue # <<>> /\ Head(queue) = item

\* Time goes on until an item is due.
Ticks ==
  /\ \E w \in Delayable : work[w] = "delayed"
  /\ \A w \in Delayable : work[w] = "delayed" => timer[w] > 0

Tick ==
  /\ Ticks
  /\ timer' = [w \in Delayable |-> IF work[w] = "delayed" THEN timer[w] - 1
                                                          ELSE timer[w]]
  /\ quiet' = IF quiet < BT_DISABLE_DELAY THEN quiet + 1 ELSE quiet
  /\ UNCHANGED <<main, bt_vars, canceling, work, queue, id_vars>>

\* The timeout of a delayed item: it is queued.
Expire(w) ==
  /\ work[w] = "delayed"
  /\ timer[w] = 0
  /\ work' = [work EXCEPT ![w] = "queued"]
  /\ queue' = Append(queue, w)
  /\ UNCHANGED <<main, bt_vars, canceling, timer, id_vars, quiet>>

-----------------------------------------------------------------------------
(* main()                                                                  *)

\* start_settings_subsys: without a device ID the default is saved; a failure
\* to save it is repeated, one to load it is ignored.
Settings ==
  /\ main = "settings"
  /\ main' = "bluetooth"
  /\ stored' = IF stored = NoId THEN HwId ELSE stored
  /\ UNCHANGED <<bt_vars, work_vars, writing, name_id, ant_id, quiet>>

\* Bluetooth is started when retained.boots <= 1; bt_enable may fail.
StartBluetooth ==
  /\ main = "bluetooth"
  /\ main' = "ant"
  /\ \/ /\ bt' = "enabling"
        /\ queue' = Submit(queue, "bt_ready")
     \/ UNCHANGED <<bt, queue>>
  /\ UNCHANGED <<smp, advertising, conn, shutdown, canceling, work, timer,
                 id_vars, quiet>>

\* (A slip: the result of the load is not looked at, and a device_id that it
\* has not filled in is used.)
StartAntUnchecked ==
  /\ main = "ant"
  /\ main' = "done"
  /\ ant_id' \in {stored, "unfilled"}
  /\ UNCHANGED <<bt_vars, work_vars, stored, writing, name_id, quiet>>

\* profile_setup loads the device ID for the channel; main() goes on without
\* an ANT+ channel when it cannot.
StartAnt ==
  /\ main = "ant"
  /\ main' = "done"
  /\ ant_id' \in {stored, NoId}
  /\ UNCHANGED <<bt_vars, work_vars, stored, writing, name_id, quiet>>

-----------------------------------------------------------------------------
(* bt_ready, advertise, connected and disconnected                         *)

\* An error of the stack, or no device ID to be read: nothing is scheduled.
BtReadyFails ==
  /\ Runs("bt_ready")
  /\ bt' = "failed"
  /\ queue' = Tail(queue)
  /\ UNCHANGED <<main, smp, advertising, conn, shutdown, canceling, work,
                 timer, id_vars, quiet>>

BtReady ==
  /\ Runs("bt_ready")
  /\ bt' = "on"
  /\ name_id' = stored
  /\ queue' = Submit(Tail(queue), "advertise")
  /\ Schedule("disable_bt", BT_DISABLE_DELAY)
  /\ quiet' = 0
  /\ UNCHANGED <<main, smp, advertising, conn, shutdown, canceling, stored,
                 writing, ant_id>>

\* A failure is only logged.
Advertise ==
  /\ Runs("advertise")
  /\ queue' = Tail(queue)
  /\ \/ bt = "on" /\ conn = "none" /\ advertising' = TRUE
     \/ UNCHANGED advertising
  /\ UNCHANGED <<main, bt, smp, conn, shutdown, canceling, work, timer,
                 id_vars, quiet>>

\* (A slip: an item that has been queued is left there.)
CancelDelayed ==
  /\ work' = [work EXCEPT !["disable_bt"] = IF @ = "queued" THEN @ ELSE "idle"]
  /\ UNCHANGED queue
  /\ canceling' = (shutdown # "none")

\* The queue q without the item, which it holds at most once.
Without(q, item) ==
  IF Contains(q, item)
  THEN RemoveAt(q, CHOOSE i \in 1 .. Len(q) : q[i] = item)
  ELSE q

\* k_work_cancel_delayable: a pending item is taken back; disable_bt goes on
\* if it is running, only marked as canceling.
Cancel ==
  /\ work' = [work EXCEPT !["disable_bt"] = "idle"]
  /\ queue' = Without(queue, "disable_bt")
  /\ canceling' = (shutdown # "none")

\* A central connects: connected().
Connected ==
  /\ bt = "on"
  /\ advertising
  /\ conn = "none"
  /\ writing = NoId
  /\ conn' = "up"
  /\ advertising' = FALSE
  /\ Cancel
  /\ UNCHANGED <<main, bt, smp, shutdown, timer, id_vars, quiet>>

\* The connection ends; disconnected() is to be called.
LinkLost ==
  /\ conn = "up"
  /\ writing = NoId
  /\ conn' = "down"
  /\ queue' = Append(queue, "disconnected")
  /\ UNCHANGED <<main, bt, smp, advertising, shutdown, canceling, work, timer,
                 id_vars, quiet>>

\* (A slip: the shutdown is not scheduled again.)
DisconnectedForgets ==
  /\ Runs("disconnected")
  /\ conn' = "none"
  /\ queue' = Submit(Tail(queue), "advertise")
  /\ quiet' = 0
  /\ UNCHANGED <<main, bt, smp, advertising, shutdown, canceling, work, timer,
                 id_vars>>

\* disconnected(); the stack may resume advertising by itself, too.
Disconnected ==
  /\ Runs("disconnected")
  /\ conn' = "none"
  /\ queue' = Submit(Tail(queue), "advertise")
  /\ Schedule("disable_bt", BT_DISABLE_DELAY)
  /\ quiet' = 0
  /\ \/ bt = "on" /\ advertising' = TRUE
     \/ UNCHANGED advertising
  /\ UNCHANGED <<main, bt, smp, shutdown, canceling, id_vars>>

-----------------------------------------------------------------------------
(* disable_bt: the calls of shutdown_bluetooth one by one                  *)

DisableStart ==
  /\ Runs("disable_bt")
  /\ queue' = Tail(queue)
  /\ work' = [work EXCEPT !["disable_bt"] = "idle"]
  /\ shutdown' = "adv_stop"
  /\ UNCHANGED <<main, bt, smp, advertising, conn, canceling, timer, id_vars,
                 quiet>>

\* (A slip: a failed shutdown is only logged.)
DisableFailsLogged ==
  /\ shutdown' = "none"
  /\ canceling' = FALSE
  /\ UNCHANGED <<work, timer>>

\* A call has failed: disable_bt is scheduled again, and has finished.
DisableFails ==
  /\ shutdown' = "none"
  /\ canceling' = FALSE
  /\ Schedule("disable_bt", BT_DISABLE_RESCHEDULE)

\* bt_le_adv_stop
AdvStopOk ==
  /\ shutdown = "adv_stop"
  /\ shutdown' = "unregister"
  /\ advertising' = FALSE
  /\ UNCHANGED <<main, bt, smp, conn, work_vars, id_vars, quiet>>

AdvStopFails ==
  /\ shutdown = "adv_stop"
  /\ DisableFails
  /\ UNCHANGED <<main, bt, smp, advertising, conn, queue, id_vars, quiet>>

\* smp_bt_unregister: a service can be unregistered once.
Unregister ==
  /\ shutdown = "unregister"
  /\ smp' = FALSE
  /\ IF smp THEN /\ shutdown' = "disable"
                 /\ UNCHANGED <<canceling, work, timer>>
            ELSE DisableFails
  /\ UNCHANGED <<main, bt, advertising, conn, queue, id_vars, quiet>>

\* bt_disable: a connection ends with it.
DisableOk ==
  /\ shutdown = "disable"
  /\ bt' = "off"
  /\ advertising' = FALSE
  /\ shutdown' = "none"
  /\ canceling' = FALSE
  /\ IF conn = "up" THEN /\ conn' = "down"
                         /\ queue' = Append(queue, "disconnected")
                    ELSE UNCHANGED <<conn, queue>>
  /\ UNCHANGED <<main, smp, work, timer, id_vars, quiet>>

DisableCallFails ==
  /\ shutdown = "disable"
  /\ DisableFails
  /\ UNCHANGED <<main, bt, smp, advertising, conn, queue, id_vars, quiet>>

-----------------------------------------------------------------------------
(* The device ID and restarts                                              *)

\* cfg_srv_devid_chrx_on_write_cb begins to save the ID.
WriteId(id) ==
  /\ conn = "up"
  /\ writing = NoId
  /\ writing' = id
  /\ UNCHANGED <<main, bt_vars, work_vars, stored, name_id, ant_id, quiet>>

\* (A slip: the device uses the ID from its next boot on.)
SavedForNextBoot ==
  /\ writing # NoId
  /\ stored' = writing
  /\ writing' = NoId
  /\ UNCHANGED <<main, bt_vars, work_vars, name_id, ant_id, quiet>>

\* settings_save_one returns.
Saved ==
  /\ writing # NoId
  /\ stored' = writing
  /\ writing' = NoId
  /\ Schedule("reboot", REBOOT_DELAY)
  /\ UNCHANGED <<main, bt_vars, canceling, queue, name_id, ant_id, quiet>>

SaveFails ==
  /\ writing # NoId
  /\ writing' = NoId
  /\ UNCHANGED <<main, bt_vars, work_vars, stored, name_id, ant_id, quiet>>

Booted ==
  /\ main' = "settings"
  /\ bt' = "none"
  /\ smp' = TRUE
  /\ advertising' = FALSE
  /\ conn' = "none"
  /\ shutdown' = "none"
  /\ canceling' = FALSE
  /\ work' = [w \in Delayable |-> "idle"]
  /\ timer' = [w \in Delayable |-> 0]
  /\ queue' = <<>>
  /\ writing' = NoId
  /\ name_id' = NoId
  /\ ant_id' = NoId
  /\ quiet' = 0

\* reboot_work_wrapper
Reboot ==
  /\ Runs("reboot")
  /\ Booted
  /\ UNCHANGED stored

\* System OFF and wake-up, a change of the battery, a reset by mcumgr.  A save
\* that is cut short has been done, or has not.
Restart ==
  /\ Booted
  /\ \/ UNCHANGED stored
     \/ writing # NoId /\ stored' = writing

Init ==
  /\ main = "settings"
  /\ bt = "none"
  /\ smp = TRUE
  /\ advertising = FALSE
  /\ conn = "none"
  /\ shutdown = "none"
  /\ canceling = FALSE
  /\ work = [w \in Delayable |-> "idle"]
  /\ timer = [w \in Delayable |-> 0]
  /\ queue = <<>>
  /\ stored = NoId
  /\ writing = NoId
  /\ name_id = NoId
  /\ ant_id = NoId
  /\ quiet = 0

MainStep == Settings \/ StartBluetooth \/ StartAnt

\* A step of the system workqueue.
WorkqueueStep ==
  \/ BtReadyFails
  \/ BtReady
  \/ Advertise
  \/ Disconnected
  \/ DisableStart
  \/ AdvStopOk
  \/ AdvStopFails
  \/ Unregister
  \/ DisableOk
  \/ DisableCallFails
  \/ Reboot

Clock == Tick \/ \E w \in Delayable : Expire(w)

SaveReturns == Saved \/ SaveFails

Next ==
  \/ MainStep
  \/ WorkqueueStep
  \/ Clock
  \/ Connected
  \/ LinkLost
  \/ \E id \in Ids : WriteId(id)
  \/ SaveReturns
  \/ Restart

Spec == Init /\ [][Next]_vars

(* Time passes, the workqueue is served, and advertising can be stopped in *)
(* the end.                                                                *)
FairSpec ==
  /\ Spec
  /\ WF_vars(WorkqueueStep)
  /\ WF_vars(Clock)
  /\ WF_vars(SaveReturns)
  /\ SF_vars(AdvStopOk)

-----------------------------------------------------------------------------
(* Properties                                                              *)

\* While Bluetooth is on and there is no connection, its shutdown is planned,
\* whatever connections came, ended or went on during failed shutdowns
\* (bt_ready, connected, disconnected, disable_bt).
ShutdownPlanned ==
  bt = "on" /\ conn = "none" =>
    work["disable_bt"] # "idle" \/ shutdown # "none"

\* A shutdown never begins while a central is connected, nor before
\* BT_DISABLE_DELAY has passed since bt_ready or the last disconnection: the
\* 30 seconds a central is given (connected, disconnected, disable_bt).
WindowKept ==
  [][ DisableStart => conn # "up" /\ quiet = BT_DISABLE_DELAY ]_vars

\* An ID that is in use is the one that is stored, or the device is about to
\* reboot, so that it will be (cfg_srv_devid_chrx_on_write_cb, bt_ready and
\* profile_setup, in any order).
IdUsedOrRebooting ==
  \A id \in {name_id, ant_id} :
    id \in {stored, NoId} \/ work["reboot"] # "idle"

\* Once Bluetooth is on it does not stay on and unconnected: the shutdown gets
\* as far as the SMP service (disable_bt and its retries).
BluetoothEnds == []<>(bt # "on" \/ conn # "none" \/ ~smp)

\* After an ID has been stored the device reboots, even if the central goes on
\* writing (cfg_srv_devid_chrx_on_write_cb).
RebootFollows == work["reboot"] # "idle" ~> work["reboot"] = "idle"

\* What connected() logs, "Canceling Bluetooth disable task; staying alive":
\* Bluetooth is not turned off under a connection.
StaysAlive == [][ bt' = "off" /\ bt # "off" => conn # "up" ]_vars
=============================================================================
