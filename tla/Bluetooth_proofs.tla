-------------------------- MODULE Bluetooth_proofs --------------------------
(***************************************************************************)
(* Proofs about Bluetooth: a shutdown is always planned, it never begins   *)
(* before a central has had its time, and the device ID in use is the one  *)
(* stored, for every delay and every set of device IDs.                    *)
(***************************************************************************)
EXTENDS Bluetooth, TLAPS

\* No item twice.
Distinct(q) == \A i, j \in 1 .. Len(q) : q[i] = q[j] => i = j

\* No item is in the queue twice, and each is there for its reason.
QueueInv ==
  /\ Distinct(queue)
  /\ \A w \in Delayable : Contains(queue, w) <=> work[w] = "queued"
  /\ Contains(queue, "bt_ready") => bt = "enabling"
  /\ Contains(queue, "disconnected") => conn = "down"

\* Before main() starts the stack nothing happens, until bt_ready no central
\* comes.
BootInv ==
  /\ main \in {"settings", "bluetooth"} => bt = "none"
  /\ main = "settings" => name_id = NoId /\ ant_id = NoId
  /\ bt = "none" =>
       /\ queue = <<>>
       /\ work = [w \in Delayable |-> "idle"]
       /\ writing = NoId
  /\ bt \in {"none", "enabling"} =>
       work["disable_bt"] = "idle" /\ conn = "none" /\ shutdown = "none"

\* A connection cancels the shutdown, and until it is gone none is planned.
ConnectionInv ==
  /\ conn # "none" =>
       work["disable_bt"] = "idle" /\ (shutdown # "none" => canceling)
  /\ canceling => shutdown # "none" /\ conn # "none"

\* What is left of the delay and what has passed add up to it; once it has
\* passed, a retry keeps it so.
WindowInv ==
  /\ work["disable_bt"] = "delayed" =>
       timer["disable_bt"] + quiet >= BT_DISABLE_DELAY
  /\ work["disable_bt"] = "queued" => quiet = BT_DISABLE_DELAY
  /\ shutdown # "none" => quiet = BT_DISABLE_DELAY

IInv ==
  /\ TypeOK
  /\ QueueInv
  /\ BootInv
  /\ ConnectionInv
  /\ WindowInv
  /\ ShutdownPlanned
  /\ IdUsedOrRebooting

-----------------------------------------------------------------------------
(* The FIFO of the system workqueue.                                       *)

\* An item is taken from the front.
LEMMA TailOfQueue ==
  ASSUME NEW q \in Seq(Items), Distinct(q), q # <<>>
  PROVE  /\ Tail(q) \in Seq(Items)
         /\ Distinct(Tail(q))
         /\ \A x \in Items : Contains(Tail(q), x) <=> Contains(q, x) /\ x # Head(q)
         /\ Contains(q, Head(q))
<1>1. Len(q) \in Nat \ {0}
  OBVIOUS
<1>2. /\ Tail(q) \in Seq(Items)
      /\ Len(Tail(q)) = Len(q) - 1
      /\ \A i \in 1 .. Len(q) - 1 : Tail(q)[i] = q[i + 1]
      /\ Head(q) = q[1]
  BY <1>1
<1>3. Distinct(Tail(q))
  BY <1>1, <1>2 DEF Distinct
<1>4. ASSUME NEW x \in Items
      PROVE  Contains(Tail(q), x) <=> Contains(q, x) /\ x # Head(q)
  <2>1. ASSUME Contains(Tail(q), x) PROVE Contains(q, x) /\ x # Head(q)
    <3>1. PICK i \in 1 .. Len(q) - 1 : Tail(q)[i] = x
      BY <2>1, <1>2 DEF Contains
    <3>2. i + 1 \in 1 .. Len(q) /\ 1 \in 1 .. Len(q) /\ q[i + 1] = x
      BY <3>1, <1>1, <1>2
    <3> QED BY <3>1, <3>2, <1>2 DEF Contains, Distinct
  <2>2. ASSUME Contains(q, x), x # Head(q) PROVE Contains(Tail(q), x)
    <3>1. PICK i \in 1 .. Len(q) : q[i] = x
      BY <2>2 DEF Contains
    <3>2. i - 1 \in 1 .. Len(q) - 1 /\ Tail(q)[i - 1] = x
      BY <3>1, <2>2, <1>1, <1>2
    <3> QED BY <3>2, <1>2 DEF Contains
  <2> QED BY <2>1, <2>2
<1>5. Contains(q, Head(q))
  BY <1>1, <1>2 DEF Contains
<1> QED BY <1>2, <1>3, <1>4, <1>5

\* An item that is not there is appended.
LEMMA AppendToQueue ==
  ASSUME NEW q \in Seq(Items), Distinct(q), NEW item \in Items,
         ~Contains(q, item)
  PROVE  /\ Append(q, item) \in Seq(Items)
         /\ Distinct(Append(q, item))
         /\ \A x \in Items :
              Contains(Append(q, item), x) <=> Contains(q, x) \/ x = item
<1>1. /\ Len(q) \in Nat
      /\ Append(q, item) \in Seq(Items)
      /\ Len(Append(q, item)) = Len(q) + 1
      /\ \A i \in 1 .. Len(q) : Append(q, item)[i] = q[i]
      /\ Append(q, item)[Len(q) + 1] = item
  OBVIOUS
<1>2. \A i \in 1 .. Len(q) : q[i] # item
  BY DEF Contains
<1>3. Distinct(Append(q, item))
  BY <1>1, <1>2 DEF Distinct
<1>4. \A x \in Items :
        Contains(Append(q, item), x) <=> Contains(q, x) \/ x = item
  BY <1>1 DEF Contains
<1> QED BY <1>1, <1>3, <1>4

LEMMA SubmitToQueue ==
  ASSUME NEW q \in Seq(Items), Distinct(q), NEW item \in Items
  PROVE  /\ Submit(q, item) \in Seq(Items)
         /\ Distinct(Submit(q, item))
         /\ \A x \in Items :
              Contains(Submit(q, item), x) <=> Contains(q, x) \/ x = item
BY AppendToQueue DEF Submit

\* A pending item is taken back.
LEMMA WithoutItem ==
  ASSUME NEW q \in Seq(Items), Distinct(q), NEW item \in Items
  PROVE  /\ Without(q, item) \in Seq(Items)
         /\ Distinct(Without(q, item))
         /\ \A x \in Items :
              Contains(Without(q, item), x) <=> Contains(q, x) /\ x # item
<1>1. CASE ~Contains(q, item)
  BY <1>1 DEF Without
<1>2. CASE Contains(q, item)
  <2> DEFINE k == CHOOSE i \in 1 .. Len(q) : q[i] = item
             rest == Without(q, item)
             left == SubSeq(q, 1, k - 1)
             right == SubSeq(q, k + 1, Len(q))
  <2>1. k \in 1 .. Len(q) /\ q[k] = item
    BY <1>2 DEF Contains
  <2>2. rest = left \o right
    BY <1>2 DEF Without, RemoveAt
  <2> HIDE DEF k, rest
  <2>3. /\ Len(q) \in Nat
        /\ \A i \in 1 .. Len(q) : q[i] \in Items
    OBVIOUS
  <2>4. /\ left \in Seq(Items)
        /\ Len(left) = k - 1
        /\ \A i \in 1 .. k - 1 : left[i] = q[i]
    BY <2>1, <2>3
  <2>5. /\ right \in Seq(Items)
        /\ Len(right) = Len(q) - k
        /\ \A i \in 1 .. Len(q) - k : right[i] = q[k + i]
    BY <2>1, <2>3
  <2> HIDE DEF left, right
  <2>6. /\ rest \in Seq(Items)
        /\ Len(rest) = Len(q) - 1
        /\ \A i \in 1 .. Len(q) - 1 :
             rest[i] = IF i < k THEN q[i] ELSE q[i + 1]
    <3>1. rest \in Seq(Items) /\ Len(rest) = Len(q) - 1
      BY <2>1, <2>2, <2>3, <2>4, <2>5
    <3>2. ASSUME NEW i \in 1 .. Len(q) - 1, i < k PROVE rest[i] = q[i]
      <4>1. i \in 1 .. Len(left)
        BY <3>2, <2>1, <2>3, <2>4
      <4>2. rest[i] = left[i]
        BY <4>1, <2>2, <2>4, <2>5
      <4> QED BY <4>1, <4>2, <2>4
    <3>3. ASSUME NEW i \in 1 .. Len(q) - 1, ~(i < k)
          PROVE  rest[i] = q[i + 1]
      <4>1. i \in Len(left) + 1 .. Len(left) + Len(right)
        BY <3>3, <2>1, <2>3, <2>4, <2>5
      <4>2. rest[i] = right[i - Len(left)]
        BY <4>1, <2>2, <2>4, <2>5
      <4>3. i - Len(left) \in 1 .. Len(q) - k /\ k + (i - Len(left)) = i + 1
        BY <4>1, <2>1, <2>3, <2>4, <2>5
      <4> QED BY <4>2, <4>3, <2>5
    <3> QED BY <3>1, <3>2, <3>3
  <2>7. Distinct(rest)
    BY <2>1, <2>3, <2>6 DEF Distinct
  <2>8. ASSUME NEW x \in Items
        PROVE  Contains(rest, x) <=> Contains(q, x) /\ x # item
    <3>1. ASSUME Contains(rest, x) PROVE Contains(q, x) /\ x # item
      <4>1. PICK i \in 1 .. Len(q) - 1 : rest[i] = x
        BY <3>1, <2>6 DEF Contains
      <4>2. PICK j \in 1 .. Len(q) : q[j] = x /\ j # k
        BY <4>1, <2>1, <2>3, <2>6
      <4> QED BY <4>2, <2>1 DEF Contains, Distinct
    <3>2. ASSUME Contains(q, x), x # item PROVE Contains(rest, x)
      <4>1. PICK j \in 1 .. Len(q) : q[j] = x
        BY <3>2 DEF Contains
      <4>2. j # k
        BY <4>1, <3>2, <2>1
      <4>3. CASE j < k
        BY <4>1, <4>3, <2>1, <2>3, <2>6 DEF Contains
      <4>4. CASE j > k
        <5>1. j - 1 \in 1 .. Len(q) - 1 /\ rest[j - 1] = x
          BY <4>1, <4>4, <2>1, <2>3, <2>6
        <5> QED BY <5>1, <2>6 DEF Contains
      <4> QED BY <4>2, <4>3, <4>4, <2>1
    <3> QED BY <3>1, <3>2
  <2> QED BY <2>6, <2>7, <2>8 DEF rest
<1> QED BY <1>1, <1>2

\* The item that runs next is taken from the queue.
LEMMA RunsItem ==
  ASSUME IInv, NEW item \in Items, Runs(item)
  PROVE  /\ shutdown = "none"
         /\ Contains(queue, item)
         /\ Tail(queue) \in Seq(Items)
         /\ Distinct(Tail(queue))
         /\ \A x \in Items : Contains(Tail(queue), x) <=> Contains(queue, x) /\ x # item
         /\ bt # "none"
<1>1. queue \in Seq(Items) /\ Distinct(queue) /\ queue # <<>> /\ Head(queue) = item
  BY DEF IInv, TypeOK, QueueInv, Runs
<1>2. shutdown = "none" /\ bt # "none"
  BY <1>1 DEF IInv, BootInv, Runs
<1> QED BY <1>1, <1>2, TailOfQueue

\* Only an idle item, and not disable_bt while it is canceling, is scheduled.
LEMMA ScheduleItem ==
  ASSUME TypeOK, NEW w \in Delayable, NEW delay \in Nat, Schedule(w, delay)
  PROVE  /\ work' \in [Delayable -> {"idle", "delayed", "queued"}]
         /\ timer' \in [Delayable -> Nat]
         /\ \A v \in Delayable \ {w} : work'[v] = work[v] /\ timer'[v] = timer[v]
         /\ IF work[w] = "idle" /\ ~(w = "disable_bt" /\ canceling)
            THEN work'[w] = "delayed" /\ timer'[w] = delay
            ELSE work'[w] = work[w] /\ timer'[w] = timer[w]
BY DEF TypeOK, Schedule

-----------------------------------------------------------------------------
(* Every step keeps the invariant.                                         *)

LEMMA Delays ==
  /\ BT_DISABLE_DELAY \in Nat /\ BT_DISABLE_DELAY > 0
  /\ BT_DISABLE_RESCHEDULE \in Nat /\ REBOOT_DELAY \in Nat
BY DelayAssumption

LEMMA InitIInv == Init => IInv
<1> SUFFICES ASSUME Init PROVE IInv
  OBVIOUS
<1>1. work["disable_bt"] = "idle" /\ \A w \in Delayable : work[w] = "idle"
  BY DEF Init, Delayable
<1>2. queue \in Seq(Items) /\ Len(queue) = 0
  BY DEF Init
<1>3. TypeOK
  <2>1. {stored, writing, name_id, ant_id} \subseteq Ids \cup {NoId}
    BY DEF Init
  <2>2. work \in [Delayable -> {"idle", "delayed", "queued"}]
    BY DEF Init
  <2>3. timer \in [Delayable -> Nat]
    BY DEF Init
  <2>4. quiet \in 0 .. BT_DISABLE_DELAY
    BY Delays DEF Init
  <2> QED BY <1>2, <2>1, <2>2, <2>3, <2>4 DEF TypeOK, Init
<1>4. QueueInv
  BY <1>1, <1>2 DEF QueueInv, Distinct, Contains
<1>5. BootInv /\ ConnectionInv /\ WindowInv /\ ShutdownPlanned
  BY <1>1 DEF BootInv, ConnectionInv, WindowInv, ShutdownPlanned, Init
<1> QED BY <1>3, <1>4, <1>5 DEF IInv, IdUsedOrRebooting, Init

LEMMA BootedKeepsIInv ==
  ASSUME Booted, stored' \in Ids \cup {NoId} PROVE IInv'
<1>1. work'["disable_bt"] = "idle" /\ \A w \in Delayable : work'[w] = "idle"
  BY DEF Booted, Delayable
<1>2. queue' \in Seq(Items) /\ Len(queue') = 0
  BY DEF Booted
<1>3. TypeOK'
  <2>1. {stored', writing', name_id', ant_id'} \subseteq Ids \cup {NoId}
    BY DEF Booted
  <2>2. work' \in [Delayable -> {"idle", "delayed", "queued"}]
    BY DEF Booted
  <2>3. timer' \in [Delayable -> Nat]
    BY DEF Booted
  <2>4. quiet' \in 0 .. BT_DISABLE_DELAY
    BY Delays DEF Booted
  <2> QED BY <1>2, <2>1, <2>2, <2>3, <2>4 DEF TypeOK, Booted
<1>4. QueueInv'
  BY <1>1, <1>2 DEF QueueInv, Distinct, Contains
<1>5. (BootInv /\ ConnectionInv /\ WindowInv /\ ShutdownPlanned)'
  BY <1>1 DEF BootInv, ConnectionInv, WindowInv, ShutdownPlanned, Booted
<1> QED BY <1>3, <1>4, <1>5 DEF IInv, IdUsedOrRebooting, Booted

LEMMA MainKeepsIInv == ASSUME IInv, MainStep PROVE IInv'
<1>1. CASE Settings
  BY <1>1, IdAssumption
     DEF Settings, IInv, TypeOK, QueueInv, BootInv, ConnectionInv, WindowInv,
         ShutdownPlanned, IdUsedOrRebooting, bt_vars, work_vars
<1>2. CASE StartBluetooth
  <2>1. CASE UNCHANGED <<bt, queue>>
    BY <1>2, <2>1
       DEF StartBluetooth, IInv, TypeOK, QueueInv, BootInv, ConnectionInv,
           WindowInv, ShutdownPlanned, IdUsedOrRebooting, id_vars
  <2>2. CASE bt' = "enabling" /\ queue' = Submit(queue, "bt_ready")
    <3>1. /\ queue' \in Seq(Items)
          /\ Distinct(queue')
          /\ \A x \in Items :
               Contains(queue', x) <=> Contains(queue, x) \/ x = "bt_ready"
      BY <2>2, SubmitToQueue DEF IInv, TypeOK, QueueInv, Items
    <3>2. bt = "none"
      BY <1>2 DEF StartBluetooth, IInv, BootInv
    <3>3. TypeOK'
      BY <1>2, <2>2, <3>1 DEF StartBluetooth, IInv, TypeOK, id_vars
    <3>4. QueueInv'
      BY <1>2, <2>2, <3>1 DEF StartBluetooth, IInv, QueueInv, Items, Delayable
    <3> QED
      BY <1>2, <2>2, <3>2, <3>3, <3>4
         DEF StartBluetooth, IInv, BootInv, ConnectionInv, WindowInv,
             ShutdownPlanned, IdUsedOrRebooting, id_vars, Delayable
  <2> QED BY <1>2, <2>1, <2>2 DEF StartBluetooth
<1>3. CASE StartAnt
  BY <1>3
     DEF StartAnt, IInv, TypeOK, QueueInv, BootInv, ConnectionInv, WindowInv,
         ShutdownPlanned, IdUsedOrRebooting, bt_vars, work_vars
<1> QED BY <1>1, <1>2, <1>3 DEF MainStep
LEMMA BtReadyFailsKeepsIInv == ASSUME IInv, BtReadyFails PROVE IInv'
<1>1. /\ shutdown = "none" /\ bt = "enabling"
      /\ queue' \in Seq(Items) /\ Distinct(queue')
      /\ \A x \in Items :
           Contains(queue', x) <=> Contains(queue, x) /\ x # "bt_ready"
  BY RunsItem DEF BtReadyFails, IInv, QueueInv, Items
<1>2. TypeOK' /\ QueueInv'
  BY <1>1 DEF BtReadyFails, IInv, TypeOK, QueueInv, Items, Delayable, id_vars
<1> QED
  BY <1>1, <1>2
     DEF BtReadyFails, IInv, BootInv, ConnectionInv, WindowInv, ShutdownPlanned,
         IdUsedOrRebooting, Delayable, id_vars

LEMMA BtReadyKeepsIInv == ASSUME IInv, BtReady PROVE IInv'
<1>1. /\ shutdown = "none" /\ bt = "enabling" /\ conn = "none"
      /\ work["disable_bt"] = "idle" /\ ~canceling
      /\ Tail(queue) \in Seq(Items) /\ Distinct(Tail(queue))
      /\ \A x \in Items :
           Contains(Tail(queue), x) <=> Contains(queue, x) /\ x # "bt_ready"
  BY RunsItem DEF BtReady, IInv, QueueInv, BootInv, ConnectionInv, Items
<1>2. /\ queue' \in Seq(Items) /\ Distinct(queue')
      /\ \A x \in Items :
           Contains(queue', x) <=>
             (Contains(queue, x) /\ x # "bt_ready") \/ x = "advertise"
  BY <1>1, SubmitToQueue DEF BtReady, Items
<1>3. /\ work' \in [Delayable -> {"idle", "delayed", "queued"}]
      /\ timer' \in [Delayable -> Nat]
      /\ work'["disable_bt"] = "delayed"
      /\ timer'["disable_bt"] = BT_DISABLE_DELAY
      /\ work'["reboot"] = work["reboot"]
  BY <1>1, ScheduleItem, Delays DEF BtReady, IInv, Delayable
<1>4. quiet' = 0 /\ main' \notin {"settings", "bluetooth"}
  BY <1>1 DEF BtReady, IInv, BootInv
<1>5. TypeOK'
  BY <1>2, <1>3, <1>4, Delays DEF BtReady, IInv, TypeOK
<1>6. QueueInv'
  BY <1>1, <1>2, <1>3 DEF BtReady, IInv, QueueInv, Items, Delayable
<1>7. BootInv' /\ ConnectionInv' /\ WindowInv'
  BY <1>1, <1>3, <1>4, Delays DEF BtReady, BootInv, ConnectionInv, WindowInv
<1>8. ShutdownPlanned' /\ IdUsedOrRebooting'
  BY <1>3 DEF BtReady, IInv, ShutdownPlanned, IdUsedOrRebooting
<1> QED BY <1>5, <1>6, <1>7, <1>8 DEF IInv

LEMMA AdvertiseKeepsIInv == ASSUME IInv, Advertise PROVE IInv'
<1>1. /\ bt # "none"
      /\ queue' \in Seq(Items) /\ Distinct(queue')
      /\ \A x \in Items :
           Contains(queue', x) <=> Contains(queue, x) /\ x # "advertise"
  BY RunsItem DEF Advertise, Items
<1>2. TypeOK' /\ QueueInv'
  BY <1>1 DEF Advertise, IInv, TypeOK, QueueInv, Items, Delayable, id_vars
<1> QED
  BY <1>1, <1>2
     DEF Advertise, IInv, BootInv, ConnectionInv, WindowInv, ShutdownPlanned,
         IdUsedOrRebooting, id_vars

LEMMA DisconnectedKeepsIInv == ASSUME IInv, Disconnected PROVE IInv'
<1>1. /\ shutdown = "none" /\ conn = "down" /\ bt \notin {"none", "enabling"}
      /\ work["disable_bt"] = "idle" /\ ~canceling
      /\ Tail(queue) \in Seq(Items) /\ Distinct(Tail(queue))
      /\ \A x \in Items :
           Contains(Tail(queue), x) <=> Contains(queue, x) /\ x # "disconnected"
  BY RunsItem DEF Disconnected, IInv, QueueInv, BootInv, ConnectionInv, Items
<1>2. /\ queue' \in Seq(Items) /\ Distinct(queue')
      /\ \A x \in Items :
           Contains(queue', x) <=>
             (Contains(queue, x) /\ x # "disconnected") \/ x = "advertise"
  BY <1>1, SubmitToQueue DEF Disconnected, Items
<1>3. /\ work' \in [Delayable -> {"idle", "delayed", "queued"}]
      /\ timer' \in [Delayable -> Nat]
      /\ work'["disable_bt"] = "delayed"
      /\ timer'["disable_bt"] = BT_DISABLE_DELAY
      /\ work'["reboot"] = work["reboot"]
  BY <1>1, ScheduleItem, Delays DEF Disconnected, IInv, Delayable
<1>4. quiet' = 0 /\ conn' = "none" /\ main' \notin {"settings", "bluetooth"}
  BY <1>1 DEF Disconnected, IInv, BootInv
<1>5. TypeOK'
  <2>1. quiet' \in 0 .. BT_DISABLE_DELAY
    BY <1>4, Delays
  <2>2. advertising' \in BOOLEAN
    BY DEF Disconnected, IInv, TypeOK
  <2> QED BY <1>2, <1>3, <1>4, <2>1, <2>2 DEF Disconnected, IInv, TypeOK, id_vars
<1>6. QueueInv'
  BY <1>1, <1>2, <1>3 DEF Disconnected, IInv, QueueInv, Items, Delayable
<1>7. BootInv' /\ ConnectionInv' /\ WindowInv'
  BY <1>1, <1>3, <1>4, Delays DEF Disconnected, BootInv, ConnectionInv, WindowInv
<1>8. ShutdownPlanned' /\ IdUsedOrRebooting'
  BY <1>3 DEF Disconnected, IInv, ShutdownPlanned, IdUsedOrRebooting, id_vars
<1> QED BY <1>5, <1>6, <1>7, <1>8 DEF IInv

LEMMA DisableStartKeepsIInv == ASSUME IInv, DisableStart PROVE IInv'
<1>1. /\ shutdown = "none" /\ conn = "none" /\ ~canceling
      /\ bt \notin {"none", "enabling"}
      /\ quiet = BT_DISABLE_DELAY
      /\ queue' \in Seq(Items) /\ Distinct(queue')
      /\ \A x \in Items :
           Contains(queue', x) <=> Contains(queue, x) /\ x # "disable_bt"
  BY RunsItem
     DEF DisableStart, IInv, QueueInv, BootInv, ConnectionInv, WindowInv, Items,
         Delayable
<1>2. /\ work' \in [Delayable -> {"idle", "delayed", "queued"}]
      /\ work'["disable_bt"] = "idle"
      /\ work'["reboot"] = work["reboot"]
  BY DEF DisableStart, IInv, TypeOK, Delayable
<1>3. TypeOK' /\ QueueInv'
  BY <1>1, <1>2
     DEF DisableStart, IInv, TypeOK, QueueInv, Items, Delayable, id_vars
<1>4. BootInv' /\ ConnectionInv' /\ WindowInv'
  BY <1>1, <1>2 DEF DisableStart, IInv, BootInv, ConnectionInv, WindowInv
<1>5. ShutdownPlanned' /\ IdUsedOrRebooting'
  BY <1>2 DEF DisableStart, IInv, ShutdownPlanned, IdUsedOrRebooting, id_vars
<1> QED BY <1>3, <1>4, <1>5 DEF IInv
\* A call of the shutdown has failed.
LEMMA ShutdownFailsKeepsIInv ==
  ASSUME IInv, shutdown # "none", DisableFails, smp' \in BOOLEAN,
         UNCHANGED <<main, bt, advertising, conn, queue, id_vars, quiet>>
  PROVE  IInv'
<1>1. /\ quiet = BT_DISABLE_DELAY /\ bt \notin {"none", "enabling"}
      /\ shutdown' = "none" /\ canceling' = FALSE
  BY DEF IInv, WindowInv, BootInv, DisableFails
<1>2. /\ work' \in [Delayable -> {"idle", "delayed", "queued"}]
      /\ timer' \in [Delayable -> Nat]
      /\ work'["reboot"] = work["reboot"]
      /\ \A w \in Delayable : work'[w] = "queued" <=> work[w] = "queued"
      /\ conn = "none" => work'["disable_bt"] # "idle"
      /\ conn # "none" => work'["disable_bt"] = "idle"
  BY ScheduleItem, Delays DEF DisableFails, IInv, ConnectionInv, Delayable
<1>3. TypeOK'
  BY <1>1, <1>2 DEF IInv, TypeOK, id_vars
<1>4. QueueInv'
  BY <1>2 DEF IInv, QueueInv
<1>5. BootInv' /\ ConnectionInv'
  BY <1>1, <1>2 DEF IInv, BootInv, ConnectionInv, id_vars
<1>6. WindowInv'
  <2>1. timer'["disable_bt"] \in Nat
    BY <1>2 DEF Delayable
  <2> QED BY <1>1, <2>1, Delays DEF WindowInv
<1>7. ShutdownPlanned' /\ IdUsedOrRebooting'
  BY <1>2 DEF IInv, ShutdownPlanned, IdUsedOrRebooting, id_vars
<1> QED BY <1>3, <1>4, <1>5, <1>6, <1>7 DEF IInv

LEMMA AdvStopKeepsIInv == ASSUME IInv, AdvStopOk \/ AdvStopFails PROVE IInv'
<1>1. CASE AdvStopOk
  BY <1>1
     DEF AdvStopOk, IInv, TypeOK, QueueInv, BootInv, ConnectionInv, WindowInv,
         ShutdownPlanned, IdUsedOrRebooting, work_vars, id_vars
<1>2. CASE AdvStopFails
  BY <1>2, ShutdownFailsKeepsIInv DEF AdvStopFails, IInv, TypeOK
<1> QED BY <1>1, <1>2

LEMMA UnregisterKeepsIInv == ASSUME IInv, Unregister PROVE IInv'
<1>1. CASE smp
  BY <1>1
     DEF Unregister, IInv, TypeOK, QueueInv, BootInv, ConnectionInv, WindowInv,
         ShutdownPlanned, IdUsedOrRebooting, id_vars
<1>2. CASE ~smp
  BY <1>2, ShutdownFailsKeepsIInv DEF Unregister
<1> QED BY <1>1, <1>2

LEMMA DisableCallKeepsIInv == ASSUME IInv, DisableOk \/ DisableCallFails PROVE IInv'
<1>1. CASE DisableOk
  <2>1. /\ shutdown = "disable" /\ bt \notin {"none", "enabling"}
        /\ queue \in Seq(Items) /\ Distinct(queue)
    BY <1>1 DEF DisableOk, IInv, TypeOK, QueueInv, BootInv
  <2>2. conn = "up" => ~Contains(queue, "disconnected")
    BY DEF IInv, QueueInv
  <2>3. /\ queue' \in Seq(Items) /\ Distinct(queue')
        /\ \A x \in Items :
             Contains(queue', x) <=>
               Contains(queue, x) \/ (conn = "up" /\ x = "disconnected")
    <3>1. CASE conn = "up"
      <4>1. queue' = Append(queue, "disconnected")
        BY <1>1, <3>1 DEF DisableOk
      <4> QED BY <2>1, <2>2, <3>1, <4>1, AppendToQueue DEF Items
    <3>2. CASE conn # "up"
      BY <1>1, <2>1, <3>2 DEF DisableOk
    <3> QED BY <3>1, <3>2
  <2>4. conn' = IF conn = "up" THEN "down" ELSE conn
    BY <1>1 DEF DisableOk
  <2>5. TypeOK'
    <3>1. conn' \in {"none", "up", "down"}
      BY <2>4 DEF IInv, TypeOK
    <3> QED BY <1>1, <2>3, <3>1 DEF DisableOk, IInv, TypeOK, id_vars
  <2>6. QueueInv'
    BY <1>1, <2>1, <2>3, <2>4 DEF DisableOk, IInv, QueueInv, Items, Delayable
  <2> QED
    BY <1>1, <2>1, <2>4, <2>5, <2>6
       DEF DisableOk, IInv, BootInv, ConnectionInv, WindowInv, ShutdownPlanned,
           IdUsedOrRebooting, id_vars
<1>2. CASE DisableCallFails
  BY <1>2, ShutdownFailsKeepsIInv DEF DisableCallFails, IInv, TypeOK
<1> QED BY <1>1, <1>2

LEMMA ConnectedKeepsIInv == ASSUME IInv, Connected PROVE IInv'
<1>1. /\ bt = "on" /\ conn = "none" /\ conn' = "up"
      /\ queue \in Seq(Items) /\ Distinct(queue)
  BY DEF Connected, IInv, TypeOK, QueueInv
<1>2. /\ queue' \in Seq(Items) /\ Distinct(queue')
      /\ \A x \in Items :
           Contains(queue', x) <=> Contains(queue, x) /\ x # "disable_bt"
  <2>1. queue' = Without(queue, "disable_bt")
    BY DEF Connected, Cancel
  <2> QED BY <1>1, <2>1, WithoutItem DEF Items, Delayable
<1>3. /\ work' \in [Delayable -> {"idle", "delayed", "queued"}]
      /\ work'["disable_bt"] = "idle"
      /\ work'["reboot"] = work["reboot"]
      /\ canceling' = (shutdown # "none")
  BY DEF Connected, Cancel, IInv, TypeOK, Delayable
<1>4. TypeOK'
  BY <1>2, <1>3 DEF Connected, IInv, TypeOK, id_vars
<1>5. QueueInv'
  BY <1>1, <1>2, <1>3 DEF Connected, IInv, QueueInv, Items, Delayable
<1>6. BootInv' /\ ConnectionInv' /\ WindowInv'
  BY <1>1, <1>3
     DEF Connected, IInv, BootInv, ConnectionInv, WindowInv, id_vars
<1>7. ShutdownPlanned' /\ IdUsedOrRebooting'
  BY <1>1, <1>3 DEF Connected, IInv, ShutdownPlanned, IdUsedOrRebooting, id_vars
<1> QED BY <1>4, <1>5, <1>6, <1>7 DEF IInv

LEMMA LinkLostKeepsIInv == ASSUME IInv, LinkLost PROVE IInv'
<1>1. /\ conn = "up" /\ conn' = "down" /\ bt \notin {"none", "enabling"}
      /\ queue \in Seq(Items) /\ Distinct(queue)
      /\ ~Contains(queue, "disconnected")
  BY DEF LinkLost, IInv, TypeOK, QueueInv, BootInv
<1>2. /\ queue' \in Seq(Items) /\ Distinct(queue')
      /\ \A x \in Items :
           Contains(queue', x) <=> Contains(queue, x) \/ x = "disconnected"
  BY <1>1, AppendToQueue DEF LinkLost, Items
<1>3. TypeOK' /\ QueueInv'
  BY <1>1, <1>2 DEF LinkLost, IInv, TypeOK, QueueInv, Items, Delayable, id_vars
<1> QED
  BY <1>1, <1>3
     DEF LinkLost, IInv, BootInv, ConnectionInv, WindowInv, ShutdownPlanned,
         IdUsedOrRebooting, id_vars
\* WriteId, Saved and SaveFails: of the device ID.
LEMMA WriteKeepsIInv ==
  ASSUME IInv, SaveReturns \/ \E id \in Ids : WriteId(id) PROVE IInv'
<1>1. CASE SaveFails
  BY <1>1
     DEF SaveFails, IInv, TypeOK, QueueInv, BootInv, ConnectionInv, WindowInv,
         ShutdownPlanned, IdUsedOrRebooting, bt_vars, work_vars
<1>2. ASSUME NEW id \in Ids, WriteId(id) PROVE IInv'
  BY <1>2
     DEF WriteId, IInv, TypeOK, QueueInv, BootInv, ConnectionInv, WindowInv,
         ShutdownPlanned, IdUsedOrRebooting, bt_vars, work_vars
<1>3. CASE Saved
  <2>1. bt # "none"
    BY <1>3 DEF Saved, IInv, BootInv
  <2>2. /\ work' \in [Delayable -> {"idle", "delayed", "queued"}]
        /\ timer' \in [Delayable -> Nat]
        /\ work'["disable_bt"] = work["disable_bt"]
        /\ timer'["disable_bt"] = timer["disable_bt"]
        /\ work'["reboot"] # "idle"
        /\ \A w \in Delayable : work'[w] = "queued" <=> work[w] = "queued"
    BY <1>3, ScheduleItem, Delays DEF Saved, IInv, Delayable
  <2>3. TypeOK' /\ QueueInv'
    BY <1>3, <2>2 DEF Saved, IInv, TypeOK, QueueInv, bt_vars
  <2>4. BootInv' /\ ConnectionInv' /\ WindowInv'
    BY <1>3, <2>1, <2>2
       DEF Saved, IInv, BootInv, ConnectionInv, WindowInv, bt_vars
  <2>5. ShutdownPlanned' /\ IdUsedOrRebooting'
    BY <1>3, <2>2 DEF Saved, IInv, ShutdownPlanned, IdUsedOrRebooting, bt_vars
  <2> QED BY <2>3, <2>4, <2>5 DEF IInv
<1> QED BY <1>1, <1>2, <1>3 DEF SaveReturns

LEMMA TickKeepsIInv == ASSUME IInv, Tick PROVE IInv'
<1>1. /\ quiet \in 0 .. BT_DISABLE_DELAY
      /\ timer \in [Delayable -> Nat]
      /\ \A w \in Delayable : work[w] = "delayed" => timer[w] > 0
  BY DEF Tick, Ticks, IInv, TypeOK
<1>2. /\ quiet' \in 0 .. BT_DISABLE_DELAY
      /\ quiet' = quiet + 1 \/ (quiet = BT_DISABLE_DELAY /\ quiet' = quiet)
  BY <1>1, Delays DEF Tick
<1>3. timer' \in [Delayable -> Nat]
  BY <1>1 DEF Tick
<1>4. work["disable_bt"] = "delayed" =>
        timer'["disable_bt"] = timer["disable_bt"] - 1
  BY <1>1 DEF Tick, Delayable
<1>5. bt # "none"
  BY DEF Tick, Ticks, IInv, BootInv
<1>6. TypeOK' /\ QueueInv'
  BY <1>2, <1>3 DEF Tick, IInv, TypeOK, QueueInv, bt_vars, id_vars
<1>7. BootInv' /\ ConnectionInv'
  BY <1>5 DEF Tick, IInv, BootInv, ConnectionInv, bt_vars, id_vars
<1>8. WindowInv'
  <2>1. /\ work' = work /\ shutdown' = shutdown
        /\ timer["disable_bt"] \in Nat /\ timer'["disable_bt"] \in Nat
    BY <1>1, <1>3 DEF Tick, bt_vars, Delayable
  <2> QED BY <1>1, <1>2, <1>4, <2>1, Delays DEF IInv, WindowInv
<1>9. ShutdownPlanned' /\ IdUsedOrRebooting'
  BY DEF Tick, IInv, ShutdownPlanned, IdUsedOrRebooting, bt_vars, id_vars
<1> QED BY <1>6, <1>7, <1>8, <1>9 DEF IInv

LEMMA ExpireKeepsIInv ==
  ASSUME IInv, NEW w \in Delayable, Expire(w) PROVE IInv'
<1>1. /\ bt # "none"
      /\ queue \in Seq(Items) /\ Distinct(queue)
      /\ ~Contains(queue, w)
  BY DEF Expire, IInv, TypeOK, QueueInv, BootInv
<1>2. /\ queue' \in Seq(Items) /\ Distinct(queue')
      /\ \A x \in Items : Contains(queue', x) <=> Contains(queue, x) \/ x = w
  <2>1. queue' = Append(queue, w) /\ w \in Items
    BY DEF Expire, Items
  <2> QED BY <1>1, <2>1, AppendToQueue
<1>3. /\ work' \in [Delayable -> {"idle", "delayed", "queued"}]
      /\ work'[w] = "queued"
      /\ \A v \in Delayable \ {w} : work'[v] = work[v]
  BY DEF Expire, IInv, TypeOK
<1>4. TypeOK' /\ QueueInv'
  BY <1>2, <1>3
     DEF Expire, IInv, TypeOK, QueueInv, Items, Delayable, bt_vars, id_vars
<1>5. BootInv' /\ ConnectionInv'
  BY <1>1, <1>3
     DEF Expire, IInv, BootInv, ConnectionInv, Delayable, bt_vars, id_vars
<1>6. WindowInv'
  <2>1. /\ quiet \in 0 .. BT_DISABLE_DELAY
        /\ shutdown' = shutdown /\ timer' = timer /\ quiet' = quiet
        /\ timer[w] = 0 /\ work[w] = "delayed"
    BY DEF Expire, IInv, TypeOK, bt_vars
  <2>2. CASE w = "disable_bt"
    BY <1>3, <2>1, <2>2, Delays DEF IInv, WindowInv
  <2>3. CASE w # "disable_bt"
    BY <1>3, <2>1, <2>3 DEF IInv, WindowInv, Delayable
  <2> QED BY <2>2, <2>3
<1>7. ShutdownPlanned' /\ IdUsedOrRebooting'
  BY <1>3
     DEF Expire, IInv, ShutdownPlanned, IdUsedOrRebooting, Delayable, bt_vars,
         id_vars
<1> QED BY <1>4, <1>5, <1>6, <1>7 DEF IInv

LEMMA RestartKeepsIInv == ASSUME IInv, Reboot \/ Restart PROVE IInv'
<1>1. Booted /\ stored' \in Ids \cup {NoId}
  BY DEF Reboot, Restart, IInv, TypeOK
<1> QED BY <1>1, BootedKeepsIInv

LEMMA StutterKeepsIInv == ASSUME IInv, UNCHANGED vars PROVE IInv'
BY DEF vars, IInv, TypeOK, QueueInv, BootInv, ConnectionInv, WindowInv,
       ShutdownPlanned, IdUsedOrRebooting

LEMMA Inductive == Spec => []IInv
<1>1. IInv /\ [Next]_vars => IInv'
  <2> SUFFICES ASSUME IInv, [Next]_vars PROVE IInv'
    OBVIOUS
  <2>1. CASE WorkqueueStep
    BY <2>1, BtReadyFailsKeepsIInv, BtReadyKeepsIInv, AdvertiseKeepsIInv,
       DisconnectedKeepsIInv, DisableStartKeepsIInv, AdvStopKeepsIInv,
       UnregisterKeepsIInv, DisableCallKeepsIInv, RestartKeepsIInv
       DEF WorkqueueStep
  <2>2. CASE Clock
    BY <2>2, TickKeepsIInv, ExpireKeepsIInv DEF Clock
  <2>3. CASE Connected \/ LinkLost
    BY <2>3, ConnectedKeepsIInv, LinkLostKeepsIInv
  <2>4. CASE SaveReturns \/ \E id \in Ids : WriteId(id)
    BY <2>4, WriteKeepsIInv
  <2> QED
    BY <2>1, <2>2, <2>3, <2>4, MainKeepsIInv, RestartKeepsIInv, StutterKeepsIInv
       DEF Next
<1> QED BY <1>1, InitIInv, PTL DEF Spec

-----------------------------------------------------------------------------
(* The results.                                                            *)

\* The work items, the queue and the stack stay in their states.
THEOREM TypeTheorem == Spec => []TypeOK
BY Inductive, PTL DEF IInv

\* For all delays and all orders of connections, expiries and failed calls:
\* while Bluetooth is on and unconnected, its shutdown is planned.
THEOREM ShutdownTheorem == Spec => []ShutdownPlanned
BY Inductive, PTL DEF IInv

\* For all device IDs, saves and restarts: an ID in use is the one stored, or
\* the device is about to reboot.
THEOREM IdTheorem == Spec => []IdUsedOrRebooting
BY Inductive, PTL DEF IInv

\* For all delays a shutdown begins unconnected and not before a central has
\* had BT_DISABLE_DELAY.
THEOREM WindowTheorem == Spec => WindowKept
<1>1. ASSUME IInv, DisableStart
      PROVE  conn # "up" /\ quiet = BT_DISABLE_DELAY
  <2>1. Contains(queue, "disable_bt")
    BY <1>1, RunsItem DEF DisableStart, Items, Delayable
  <2> QED
    BY <1>1, <2>1 DEF IInv, QueueInv, ConnectionInv, WindowInv, Delayable
<1>2. IInv /\ [Next]_vars =>
        [DisableStart => conn # "up" /\ quiet = BT_DISABLE_DELAY]_vars
  BY <1>1
<1> QED BY <1>2, Inductive, PTL DEF Spec, WindowKept

\* What is left of "staying alive": bt_disable ends a connection only if
\* connected() has marked disable_bt as canceling, that is if the central came
\* while disable_bt was running, past the only test the kernel makes
\* (connected, k_work_cancel_delayable).
THEOREM OnlyLateCentrals ==
  Spec => [][ bt' = "off" /\ bt # "off" /\ conn = "up" => canceling ]_vars
<1> DEFINE Late == bt' = "off" /\ bt # "off" /\ conn = "up" => canceling
<1>1. ASSUME DisableOk, ConnectionInv PROVE Late
  BY <1>1 DEF DisableOk, ConnectionInv
<1>2. ASSUME Next, ~DisableOk PROVE bt' # "off" \/ bt' = bt
  <2>1. CASE MainStep
    BY <2>1 DEF MainStep, Settings, StartBluetooth, StartAnt, bt_vars
  <2>2. CASE WorkqueueStep
    BY <1>2, <2>2
       DEF WorkqueueStep, BtReadyFails, BtReady, Advertise, Disconnected,
           DisableStart, AdvStopOk, AdvStopFails, Unregister, DisableCallFails,
           Reboot, Booted
  <2>3. CASE Clock \/ Connected \/ LinkLost
    BY <2>3 DEF Clock, Tick, Expire, Connected, LinkLost, bt_vars
  <2>4. CASE SaveReturns \/ Restart \/ \E id \in Ids : WriteId(id)
    BY <2>4 DEF SaveReturns, Saved, SaveFails, Restart, Booted, WriteId, bt_vars
  <2> QED BY <1>2, <2>1, <2>2, <2>3, <2>4 DEF Next
<1>3. IInv /\ [Next]_vars => [Late]_vars
  BY <1>1, <1>2 DEF IInv
<1> QED BY <1>3, Inductive, PTL DEF Spec
=============================================================================
