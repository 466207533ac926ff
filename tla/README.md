# Verification of the SKS Airspy community firmware

TLA+ models of the firmware in `src/` (a Zephyr application for the nRF52832 of
a tire pressure sensor), TLC configurations that check them on small instances,
and TLAPS proofs of what matters most for every size.

## The system

The device measures tire pressure with an SPI pressure sensor, shows it on an
ANT+ TPMS channel at 4 Hz, sleeps in System OFF when the wheel stands still,
and for 30 seconds after its first boot offers Bluetooth for firmware updates,
logging and setting the device ID.

| Component | Source | State it keeps | Operations |
|---|---|---|---|
| Power supervision | `src/main.c` | two delayable work items | `main`, `supervise`, `poweroff`, `dfu_pending_cb` |
| Retained record | `src/retained.c`, `include/retained.h` | `retained` in no-init RAM: uptimes, boot and off counters, CRC | `retained_validate`, `retained_update` |
| ANT+ profile, sensor side | `src/ant_profiles/ant_tpms/ant_tpms.c` | `message_counter`, request controller | open, `EVENT_TX`, page 70 and page 16 received |
| ANT+ profile, display side | same file | pages received | decode, request a page |
| ANT+ application | `src/ant.c` | the pages in `tpms` | `profile_setup`, `ant_tpms_config_handler`, `ant_sensor_data_handler_cb` |
| Settings | `src/settings.c` | four keys in NVS | load, load or initialise, save |
| Bluetooth services | `src/bluetooth.c` | three work items, the stack | start, `bt_ready`, `advertise`, `connected`, `disconnected`, device ID write, `disable_bt`, reboot |
| Sensor interface | `src/spi.c`, `src/zbus_com.c` | one work item, receive buffer | interrupt, `spim_receive`, publish |
| Sensor decoder | `src/sensor.c` | none | `decode_sensor_buffer`, `battery_level_percent` |
| Page codecs | `src/ant_profiles/*/pages/*.c` | none | encode and decode pages 1, 16, 82 |
| Hardware ID | `src/common.c` | none | `get_hwid_16bit` |
| Simulator | `src/ant_profiles/ant_tpms/simulator/` | - | not built (`CMakeLists.txt` does not name it) |

### Who runs where

| Context | Runs | Can be interrupted by |
|---|---|---|
| main thread, preemptible | `main()` once | all others |
| system workqueue, one cooperative thread, FIFO | `supervise`, `poweroff`, `spim_receive` with the zbus listener, `bt_ready`, `advertise`, `disconnected`, `disable_bt`, the reboot | ISRs always; other threads only where a handler blocks (SPI transfer, calls of the Bluetooth stack) |
| receive thread of the Bluetooth stack, cooperative | `connected`, the GATT write handler | where it blocks in saving a setting |
| workqueue of mcumgr, preemptible | `dfu_pending_cb` | all cooperative threads, between any two instructions |
| ANT event context, taken as a thread of its own | `ant_tpms_sens_evt_handler`, `ant_tpms_config_handler` | where it blocks in saving a setting |
| ISR | `int_cb_handler`, timeouts | - |

The components interact through shared data without locks: `retained` (main,
mcumgr, system workqueue), the pages of `tpms` (main, ANT context, system
workqueue), the settings storage (main, ANT context, Bluetooth); through work
items; and through resets, which keep `retained` (unless the battery is
removed) and the settings and lose everything else.

### What is hard, and what correct means

* **Profile.** A `uint8_t` counter with three slots, and requests that take
  slots away. Correct: common pages come in time whatever displays request,
  requests are sent exactly as often as asked, acknowledgements go where asked.
* **Retained record.** An update in a preemptible thread that every power-off,
  reboot and reading may cut in two. Correct: a record found after System OFF
  is valid, no second is counted twice, Bluetooth is offered exactly on the
  boots meant for it.
* **Supervision.** A chain of work items that schedule each other; a break
  means an empty battery or a dead sensor. Correct: exactly one is pending,
  the device sleeps and wakes as it should.
* **Sensor interface.** Interrupts while the work item is queued or running.
  Correct: no measurement is lost unless its transfer fails.
* **Configuration.** Saves that block between the fields of one command, resets
  in between, failing loads. Correct: storage and pages agree between commands;
  alarms agree with the pressure beside them.
* **Bluetooth.** Connections that come and go while the shutdown is pending or
  running; retries; a reboot for a new device ID. Correct: always a shutdown
  planned, never early, device ID in use = device ID stored.

`PROJECT.json` lists each hazard at its line with the properties that would
notice it, or with why none does.

## Modules

| Module | Models | Proofs |
|---|---|---|
| `AntTpmsSens` (`MCAntTpmsSens`) | sensor side of `ant_tpms.c`, sending | `AntTpmsSens_proofs` |
| `PageSchedule` | abstract: which page a display may expect when; implemented by `AntTpmsSens` | |
| `AntTpmsLink` (`MCAntTpmsLink`) | both sides of `ant_tpms.c` over the air; extends `AntTpmsSens` | `AntTpmsLink_proofs` |
| `Retained` | `retained.c`, and all that uses the record in `main.c`, `bluetooth.c`, `ant.c` | `Retained_proofs` |
| `UptimeAccount` | abstract: what the operating time may be off by; implemented by `Retained` | |
| `RetainedMemory` (`MCRetained`) | the RAM sections under the record; extends `Retained` | `RetainedMemory_proofs` |
| `SystemWorkqueue` | the end of `main()`, `supervise`, `poweroff`, `spi.c`, `zbus_com.c` | `SystemWorkqueue_proofs` |
| `Config` (`MCConfig`) | `settings.c`, and in `ant.c` loading, the command handler, pressure and alarms | `Config_proofs` |
| `Bluetooth` | `bluetooth.c`, and the device ID in `settings.c` and `profile_setup` | `Bluetooth_proofs` |
| `PageValues`, `SensorFrame`, `PageCodec` | operators: the values on the pages, `sensor.c`, the page codecs | |
| `DataPath` (`MCDataPath`) | from a measurement to what a display shows; uses these operators | `DataPath_proofs` |

Names of operators and variables follow the source. A definition marked
"A slip:" is a plausible error in the definition below it; `PROJECT.json` uses
these to show that each property notices a real error. They are not part of
any specification.

### AntTpmsSens

One action per radio event, since events are handled one at a time:
`ant_message_send` is `next_page_number_get` with the encoding (`NextPage`,
`NextCounter`, `ControllerAfterLoop`) and the hand-over as a broadcast or an
acknowledged message. The payload of a frame is left out, its page number is
kept. The counter is `% CounterRange`, so the overrun past slot 82 is there. The
request controller belongs to the nRF SDK and is modelled as the code uses it:
a pending count, taken one by one, and a flag for the acknowledgement.

### Retained

`retained_update` on the system workqueue and in `main()` is one step; in
`dfu_pending_cb` it is one step per access, the two stores in either order (the
struct is not volatile). The checksum is modelled by what it was computed from:
`crc = retained` is a valid record. `NoCrc` is what RAM without supply holds; a
random match of CRC-32 is not modelled. `past`, `lost`, `torn`, `image` and
`start` are history. `UptimeAccount` is what remains of this for a user who reads the
operating time: `Counted` is what the record stands for, and a session is "on",
"updating" or, after a reset in an update, "doubtful".

### RetainedMemory

`Retained` takes it that the record survives System OFF. This module adds why:
the loop of `ram_range_retain`, one section a step, over the blocks and sections
of the RAM, for a record at any address, before `retained_validate` reads the
record. The bits may or may not survive a reset. A session is unchanged, and
every behaviour is one of `Retained`.

### SystemWorkqueue

Delayable work items are "idle", "delayed" or "queued"; `Delay` is
`k_work_schedule`, a no-op on a pending item. Handlers are atomic, but
`spim_receive` blocks in `spi_read` and is two steps, with interrupts and ticks
in between. A transfer during which the sensor measures anew yields any
reading. A tick is 500 ms, hence `SUPERVISION_CYCLE_TIME = 2` and
`SYS_POWEROFF_DELAY = 1`. The reboot action stands for every reset.

### Config

What the pages hold while commands, saves, readings and restarts interleave;
the values themselves are those of `PageValues`.
`main` steps through the loads of `profile_setup`, one action per key, with
`load_immediate_value_init_default`: a missing key is initialised in a loop, a
failed load leaves garbage (`Leftover`) that is used all the same. The handler
of page 16 commands has a step per `if` and a step per `settings_save_one`,
which may fail, and during which readings and restarts come. The pressure is
computed with the width of `int16_t`. `failed`, `reset` and `fresh` are history.

### PageValues, SensorFrame, PageCodec, DataPath

`decode_sensor_buffer` works on the 48 bits of a frame: the shift of the whole
buffer, the checksum over all but the lowest bits, the fields. Where C leaves
the conversion open (a negative `float` to `uint16_t`) it returns the set of
readings the build can produce. Pages are records, encoded payloads sequences
of bytes; bit fields are arithmetic on these. `DataPath` composes them: what the
sensor measured, with one bit disturbed or none, through decoder,
`ant_sensor_data_handler_cb` and page codecs to what a display decodes
(`Shown1`, `Shown82`), and a command through the codec and
`ant_tpms_config_handler` to page 16 (`Shown16`). Handlers are one step each.
`reading` and `wanted` are history: the undisturbed truth to compare with.

### Bluetooth

`disable_bt` is one step for each call of `shutdown_bluetooth`, since the calls
block and the receive thread of the stack runs meanwhile. The work item flags
include `K_WORK_CANCELING`: canceling a running item does not stop it, and as
long as it runs it cannot be scheduled. Assumed of Zephyr, outside this
repository: `disconnected()` is called from the system workqueue (deferred work
of the connection), the single connection object is free again after it, the SMP
service can be unregistered once, `bt_disable` ends a connection.

## What is checked

| Run | Shows | Distinct states |
|---|---|---|
| `rotation` | `OneCycle`, `WrapBound`, `RequestsHonoured`, `AcknowledgedOnRequest`, `RotationResumes` on slots 7, 8, 9 of a counter mod 16, and that the rotation implements `PageSchedule` (`ScheduleKept`) | 10,453 |
| `interleave_121` | *violated*: the cycle has 122 messages, the comments say 121 | |
| `link` | `ReadBack`: a display is shown what it has commanded; `ReadingsArrive`: and the last reading in the end | 590,704 |
| `retained` | `OffRecordValid`, `BluetoothExactlyOnFirstBoot`, `UptimeAccounted`, and `RecordRetained` for the RAM; that the record and page 82 implement `UptimeAccount` (`AccountKept`) | 259,426 |
| `retained_reboot` | *violated* `CumulativeUptime`: a reboot for a device ID loses seconds | |
| `retained_torn_sample` | *violated* `OperatingTimeNotAhead`: a reading between the two stores counts seconds twice | |
| `system_workqueue` | `OneOfThePairPending`, `PagesUpToDate`, `OffOnlyAfterDelay`; `SleepsWithoutSignal`, `StaysOnWithSignal` | 1,052 |
| `config` | `StoredAsShown`, `RoleOnBothPages`, `AlarmsMatchPressure`, `BootCompletes` | 240,413 |
| `config_reset` | *violated* `ConfigurationStored`: a reset by command is not stored | |
| `data_path` | `PressureShown`, `Page82Shown`, `InvalidUntilRead`, `ConfigurationShown`, `NeverBetterAtLowerVoltage`: what a display shows of a measurement and of its commands; `DisturbanceContained`: of a disturbed frame | 9,818 |
| `bluetooth` | `ShutdownPlanned`, `WindowKept`, `IdUsedOrRebooting`, `BluetoothEnds`, `RebootFollows` | 8,661 |
| `bluetooth_alive` | *violated* `StaysAlive`: Bluetooth is turned off under a connection that came during the shutdown | |

Each passing run has the type invariant of its module as well. The findings in
`PROJECT.json` quote the documents the violated properties come from.

### Bounds

* `rotation`: the slots are adjacent at the end of a cycle of 10 messages and the
  counter wraps some frames after the last slot, as in the code; a request count
  up to 3 covers requests as long as the three slots. Pages 16 (sent on request
  only), 82 (in the rotation) and 99 (unknown). The real slots and width are
  covered by the theorems; the run `interleave_121` uses them.
* `link`: the shortest cycle (slots 1, 2, 3 of a counter mod 5), since the
  rotation has its own run; requests for one transmission; two readings, two
  fields with two values; two displays, of which one is followed. Any frame,
  message or acknowledgement may be lost.
* `retained`: `MaxUptime` 3 seconds, `MaxBoots` 3, `MaxOffs` 2, all in guards,
  enough for a session before, in and after an update and for two power-offs of
  one battery. The RAM is that of an nRF52840 and the record has 28 bytes, at
  five addresses: inside a section, across two of one block, across two blocks,
  from the small sections to the large ones, across two large ones. The
  theorems have no such bounds.
* `system_workqueue`: two readings.
* `data_path`: measurements on both sides of each battery threshold, of the clamp
  and of the ranges of `int16_t` and `uint16_t`; a disturbance of any bit; operating
  times on both sides of the 24 bits; commands for every flag, and a reset. The
  theorems cover all values.
* `config`: pressures default, another and unset; two roles; a command for each
  way through the handler; measured values that are clamped, between the
  thresholds and above them.
* `bluetooth`: delays of 2, 1 and 1 ticks keep the order of the real ones
  (30 s, 500 ms, 250 ms); two device IDs.

### Fairness

* `AntTpmsSens`: weak, of the radio's events: the channel period is periodic.
* `AntTpmsLink`: weak, of the sensor's frames; strong, of hearing a frame with
  page 1: a radio that loses each of them is excluded. Messages in return may be
  lost for ever.
* `SystemWorkqueue`: weak, of time, of each handler and of the wake-up; strong, of
  a successful configuration of the wake interrupt: a driver that fails for ever
  is excluded, one that fails many times is not.
* `Config`: weak, of `main()`; strong, of saving a default, for the same reason.
* `Bluetooth`: weak, of time, of the workqueue and of saving; strong, of a
  successful `bt_le_adv_stop`. Nothing about `bt_disable`, which may fail for ever.

Every run checks for deadlock: something can always happen, a frame, a tick, a
reset.

## What is proved

For every value of the constants, from the assumptions named in the modules.

* `AntTpmsSens_proofs`: `Typing`, `OneCycleTheorem`, `WrapBoundTheorem`,
  `RequestsHonouredTheorem`, `AcknowledgedTheorem`, `ScheduleTheorem`. The bounds
  on `gap` say nothing of where the counter stands; `RotationInv` adds to each gap
  the `Distance` in frames to the slot of the page, and bounds the sum, by one
  cycle normally and by one wrap while the counter is past its last slot. Needs
  `SlotAssumption`: slots in order and below the wrap. The refinement maps each
  step to one of `PageSchedule` or to a stutter; `WrapBound` gives the limit.
* `AntTpmsLink_proofs`: `LinkImplementsSensor`, so that the rotation holds over the
  air as well (`LinkRotation`, `LinkSchedule`), `LinkTypeTheorem`, and
  `ReadBackTheorem`. The invariant of the last says for each
  stage of the display's command what is already as commanded: page 16 from the
  acknowledgement on; a frame with page 16 that is encoded from then on; what
  is shown once it has been heard. One frame may be older; a display that may
  send again has heard it.
* `Retained_proofs`: `TypeTheorem`, `OffRecordTheorem`, `BluetoothTheorem`,
  `UptimeTheorem`, `AccountTheorem`, `AtMostTwice`. The invariant says where the mcumgr
  thread is and what its locals hold (`Thread`), when the checksum may be out
  of date and that the boot counter is zero exactly while a new image waits
  (`Sealing`), and balances the seconds with those the thread holds in
  registers between its stores (`Accounting`). `AccountTheorem` maps each step to
  one of `UptimeAccount`: between the two stores a reading or a power-off is off by
  `smp_delta`, which is at most the session, and a reboot takes back what the
  session has not recorded. From the abstract steps alone follows `AtMostTwice`:
  what is counted and the session together are at most twice the true time.
* `RetainedMemory_proofs`: `RecordRetainedTheorem` for every address and size
  within the RAM, `MemoryTypeTheorem`, and `MemoryImplementsRetained`, which carries
  the theorems above over. The loop's invariant: the bits set are those of the
  sections that the record touches below `addr`, which after the first round is
  the start of a section.
* `SystemWorkqueue_proofs`: `TypeTheorem`, `PairTheorem`, `ReadingTheorem`,
  `OffTheorem`, `FifoTheorem`. `PairInv` adds that nothing is pending before `main()` is done or
  while the device is off; `ReadingInv` that a transfer the sensor has overtaken
  has queued another; `DelayInv` that what is left of the delay of poweroff
  and the age of the low sample add up to the delay. `FifoInv` keeps the FIFO and
  the flags in step; that a tick queues at most one item of the pair, as the
  model has it, follows from `PairInv`.
* `Config_proofs`: `TypeTheorem`, `StoredTheorem`, `RoleTheorem`, `AlarmsTheorem`,
  for every set of pressures, roles, measured values and commands. The invariant
  says for each step of the handler and of `profile_setup` which fields are
  stored already and which are about to be.
* `DataPath_proofs`: `TypeTheorem`, `PressureTheorem`, `Page82Theorem`,
  `UnreadTheorem`, `ConfigurationTheorem`, `BatteryTheorem` for every measurement,
  command and time, from round trips of the codecs (`Page16RoundTrip`,
  `Page1RoundTrip`, `Page82RoundTrip`); `DisturbanceDetected`: one wrong bit,
  other than the lowest of a byte, is always noticed; and `DisturbanceTheorem`,
  which says by how much the reading may be wrong when it is not. A frame that is
  accepted differs from what was sent at most in the lowest bit of one byte
  (`LowestInverted`), so that one field is wrong by 1 or by 256 and the others not
  at all; the pages then show what they would show of that field
  (`ReadingShown`), and the conversion does not leave its range in between
  (`FitsBetween`).
* `Bluetooth_proofs`: `TypeTheorem`, `ShutdownTheorem`, `IdTheorem`, `WindowTheorem`,
  `OnlyLateCentrals`, for every delay and set of IDs. The invariant: each item is in the queue at
  most once and for its reason (`QueueInv`); before `bt_ready` nothing happens
  (`BootInv`); a connection leaves no shutdown planned, and `K_WORK_CANCELING` no
  longer than the connection (`ConnectionInv`); what is left of the delay and
  what has passed add up to it (`WindowInv`).

All safety properties that the passing runs check are proved, invariants and
action properties, and both refinements of abstract specifications. What does
not hold is bounded by what does: `StaysAlive` fails only for a central that came
while `disable_bt` was running (`OnlyLateCentrals`), `OperatingTimeNotAhead` by no
more than a factor of two (`AtMostTwice`), `CumulativeUptime` by no more than
the sessions that ended in a reboot, unless one ended in an update
(`AccountTheorem`), `InterleaveEvery121` by one message (`OneCycleTheorem`),
`ConfigurationStored` by the fields that a reset command has set
(`StoredTheorem`).

Only model-checked are the liveness properties `RotationResumes`, `ReadingsArrive`,
`SleepsWithoutSignal`, `StaysOnWithSignal`, `BootCompletes`, `BluetoothEnds` and
`RebootFollows`: their proofs need fairness and `ENABLED`, which these provers do
not have.

## What is not modelled, and why

* The temperature and the flags of the sensor: decoded and logged only.
* A checksum that fails to notice more than one wrong bit. Of single bits,
  the lowest bits of the bytes go unnoticed; bit 8 of the frame counts 256, which
  is about 4.3 bar. `DisturbanceContained` states it; nothing in the code or its
  documents promises more.
* A display's view across other displays: a retried command that arrives after
  another display's undoes that one. `ReadBack` leaves these cases out, since
  the protocol cannot exclude them.
* The parsing in `get_hwid_16bit`, a device ID of 0 (a central may write it; it is
  stored like any other), and the two bytes of the characteristic.
* `ram_range_retain` with `enable = false`: never called.
* The simulator (not built), board files, partitions, MCUboot, logging.

Some failures are steps of the models, but no property is about their outcome,
because no document of the repository says what it should be:

* `main()` returns early, so that the device is never supervised (`MainFails`;
  `SleepsWithoutSignal` excepts it).
* A transfer fails, and the pages keep the reading before (`ReceiveDrop`;
  `PagesUpToDate` excepts it until the next transfer).
* A load fails, and garbage or the other threshold is used (`LoadField`;
  `StoredAsShown` excepts these fields).
* `bt_disable` fails after the SMP service has been unregistered: the retries
  then fail for good, at the service, and the radio stays on (`BluetoothEnds`
  stops at the service).
* `bt_ready` fails: Bluetooth stays on and no shutdown is planned
  (`ShutdownPlanned` speaks of a Bluetooth that is ready).
* `bt_le_adv_start` fails: no central can connect, and nothing tries again.
* A save fails for ever while `main()` initialises a setting: the loop does not
  end. The fairness under which `BootCompletes` holds excludes it.

Zephyr, the ANT stack, the Bluetooth stack, NVS and mcumgr are external:
modelled by how the code uses them.

## Plan

Done, the riskiest first: the rotation, the retained record, the workqueue, the
configuration, Bluetooth; then the data path, the display side, the RAM
sections; the page schedule and the account of uptime as abstract
specifications; and the proofs of all of them. What is left:

1. `Config` and `DataPath` composed: the steps of the handler with the values and
   both codecs, so that a display's commands are followed into the storage.
2. An abstract specification of the Bluetooth window, for the central: how long it
   can connect, and what an ID it has written becomes.
