-------------------------- MODULE Retained_proofs --------------------------
(***************************************************************************)
(* Proofs about Retained.  The properties are not inductive by themselves: *)
(* Sealing adds where the checksum is out of date and what the boot        *)
(* counter holds while a new image waits, Accounting adds what the mcumgr  *)
(* thread has in its registers between the two stores of its update.       *)
(* With these Retained implements UptimeAccount, which in turn bounds what  *)
(* page 82 can show.                                                       *)
(***************************************************************************)
EXTENDS Retained, TLAPS

\* Where the mcumgr thread is, and what its locals hold there.
Thread ==
  /\ power # "on" => smp = "idle" /\ uptime = 0
  /\ smp = "store" => smp_stores # {}
  /\ smp # "store" => smp_stores = {}
  /\ power = "on" => retained.uptime_latest <= uptime
  /\ smp = "store" => smp_now <= uptime /\ smp_delta <= smp_now
  /\ smp = "store" /\ "uptime_latest" \in smp_stores =>
       smp_now = retained.uptime_latest + smp_delta
  /\ smp = "store" /\ "uptime_latest" \notin smp_stores =>
       smp_now = retained.uptime_latest

\* The checksum is out of date only in the middle of the callback, and the
\* boot counter is zero exactly while a new image waits for its first boot.
Sealing ==
  /\ power = "on" /\ smp \in {"idle", "clear"} => Valid
  /\ power = "off" => Valid
  /\ power = "reset" /\ ~Valid => image
  /\ power = "unpowered" => crc = NoCrc /\ retained = Blank
  /\ power = "on" /\ smp \in {"read", "store", "seal"} => image
  /\ power # "unpowered" => (image <=> retained.boots = 0)

Accounting ==
  ~torn =>
    /\ power = "on" /\ Undivided =>
         retained.uptime_sum + lost = past + retained.uptime_latest
    /\ power = "on" /\ smp_stores = {"uptime_latest"} =>
         retained.uptime_sum + lost = past + smp_now
    /\ power = "on" /\ smp_stores = {"uptime_sum"} =>
         retained.uptime_sum + smp_delta + lost = past + retained.uptime_latest
    /\ power # "on" => retained.uptime_sum + lost = past

IInv == /\ TypeOK
        /\ Thread
        /\ Sealing
        /\ Accounting
        /\ BluetoothExactlyOnFirstBoot
-----------------------------------------------------------------------------
(* What retained.c computes.                                               *)

\* retained_update moves the unrecorded seconds of the session into the sum.
LEMMA AccruedFields ==
  ASSUME NEW r \in RetainedData, NEW now \in Nat, r.uptime_latest <= now
  PROVE  /\ Accrued(r, now) \in RetainedData
         /\ Accrued(r, now).uptime_sum = r.uptime_sum + (now - r.uptime_latest)
         /\ Accrued(r, now).uptime_latest = now
         /\ Accrued(r, now).boots = r.boots
         /\ Accrued(r, now).off_count = r.off_count
<1>1. r.uptime_sum + (now - r.uptime_latest) \in Nat
  BY DEF RetainedData
<1> QED BY <1>1 DEF Accrued, RetainedData

\* What a boot leaves in the record, valid or not before.
LEMMA BootRecordFields ==
  ASSUME TypeOK
  PROVE  /\ BootRecord.data \in RetainedData
         /\ BootRecord.crc = BootRecord.data
         /\ BootRecord.data.uptime_latest = 0
         /\ BootRecord.data.uptime_sum = IF Valid THEN retained.uptime_sum ELSE 0
         /\ BootRecord.data.boots = IF Valid THEN retained.boots + 1 ELSE 1
<1> DEFINE counted == [Validated EXCEPT !.boots = @ + 1]
<1>1. /\ counted \in RetainedData
      /\ counted.uptime_latest = 0
      /\ counted.uptime_sum = IF Valid THEN retained.uptime_sum ELSE 0
      /\ counted.boots = IF Valid THEN retained.boots + 1 ELSE 1
  BY DEF TypeOK, Validated, Blank, RetainedData
<1>2. BootRecord = [data |-> Accrued(counted, 0), crc |-> Accrued(counted, 0)]
  BY DEF BootRecord, retained_update
<1> HIDE DEF counted
<1>3. /\ Accrued(counted, 0) \in RetainedData
      /\ Accrued(counted, 0).uptime_sum = counted.uptime_sum
      /\ Accrued(counted, 0).uptime_latest = 0
      /\ Accrued(counted, 0).boots = counted.boots
  <2>1. counted.uptime_sum \in Nat
    BY <1>1 DEF RetainedData
  <2> QED BY <1>1, <2>1, AccruedFields
<1> QED BY <1>1, <1>2, <1>3

\* What poweroff leaves in the record.
LEMMA PoweroffRecordFields ==
  ASSUME TypeOK, retained.uptime_latest <= uptime
  PROVE  /\ PoweroffRecord.data \in RetainedData
         /\ PoweroffRecord.crc = PoweroffRecord.data
         /\ PoweroffRecord.data.uptime_sum =
              retained.uptime_sum + (uptime - retained.uptime_latest)
         /\ PoweroffRecord.data.boots = retained.boots
<1> DEFINE counted == [retained EXCEPT !.off_count = @ + 1]
<1>1. /\ counted \in RetainedData
      /\ counted.uptime_latest = retained.uptime_latest
      /\ counted.uptime_sum = retained.uptime_sum
      /\ counted.boots = retained.boots
  BY DEF TypeOK, RetainedData
<1>2. PoweroffRecord = [data |-> Accrued(counted, uptime),
                        crc |-> Accrued(counted, uptime)]
  BY DEF PoweroffRecord, retained_update
<1>3. uptime \in Nat
  BY DEF TypeOK
<1> HIDE DEF counted
<1> QED BY <1>1, <1>2, <1>3, AccruedFields

-----------------------------------------------------------------------------
(* The inductive invariant.                                                *)

LEMMA BlankFields ==
  /\ Blank \in RetainedData
  /\ Blank.boots = 0
  /\ Blank.uptime_sum = 0
  /\ Blank.uptime_latest = 0
BY DEF Blank, RetainedData

LEMMA InitIInv == Init => IInv
<1> SUFFICES ASSUME Init PROVE IInv
  OBVIOUS
<1>1. TypeOK
  BY BlankFields DEF Init, TypeOK
<1>2. Thread /\ Sealing /\ BluetoothExactlyOnFirstBoot
  BY DEF Init, Thread, Sealing, BluetoothExactlyOnFirstBoot
<1>3. Accounting
  BY BlankFields DEF Init, Accounting
<1> QED BY <1>1, <1>2, <1>3 DEF IInv

LEMMA BootKeepsIInv == ASSUME IInv, Boot PROVE IInv'
<1>1. TypeOK /\ Thread /\ Sealing /\ Accounting
  BY DEF IInv
<1>2. /\ power' = "on" /\ power \in {"unpowered", "off", "reset"}
      /\ uptime' = 0 /\ operating_time' = 0 /\ image' = FALSE
      /\ retained' = BootRecord.data /\ crc' = BootRecord.data
      /\ retained' \in RetainedData
      /\ retained'.uptime_latest = 0
      /\ retained'.uptime_sum = IF Valid THEN retained.uptime_sum ELSE 0
      /\ retained'.boots = IF Valid THEN retained.boots + 1 ELSE 1
      /\ UNCHANGED <<smp, smp_now, smp_delta, smp_stores, past, torn>>
  BY <1>1, BootRecordFields DEF Boot, smp_vars
<1>3. /\ retained.uptime_sum \in Nat /\ retained.boots \in Nat
      /\ lost \in Nat /\ past \in Nat
      /\ smp = "idle" /\ smp_stores = {}
  BY <1>1, <1>2 DEF TypeOK, Thread, RetainedData
<1>4. lost' = IF Valid THEN lost ELSE lost + retained.uptime_sum
  BY DEF Boot
<1>5. TypeOK'
  <2>1. bluetooth' \in BOOLEAN /\ start' \in {"battery", "image", "wake"}
    BY DEF Boot, FirstBoot
  <2>2. lost' \in Nat
    BY <1>3, <1>4
  <2> QED BY <1>1, <1>2, <2>1, <2>2 DEF TypeOK
<1>6. Thread'
  BY <1>2, <1>3 DEF Thread
<1>7. Sealing'
  BY <1>2, <1>3 DEF Sealing, Valid
<1>8. Accounting'
  <2>1. ~torn => retained.uptime_sum + lost = past
    BY <1>1, <1>2 DEF Accounting
  <2>2. retained'.uptime_sum + lost' = retained.uptime_sum + lost
    BY <1>2, <1>3, <1>4
  <2> QED BY <1>2, <1>3, <2>1, <2>2 DEF Accounting, Undivided
<1>9. BluetoothExactlyOnFirstBoot'
  <2>1. bluetooth' <=> (~Valid \/ retained.boots = 0)
    <3>1. bluetooth' = (retained'.boots <= 1)
      BY <1>2 DEF Boot, FirstBoot
    <3>2. retained'.boots <= 1 <=> (~Valid \/ retained.boots = 0)
      BY <1>2, <1>3
    <3> QED BY <3>1, <3>2
  <2>2. CASE power = "unpowered"
    <3>1. ~Valid
      BY <1>1, <2>2, NoCrcAssumption DEF Sealing, Valid, TypeOK
    <3>2. start' = "battery"
      BY <2>2 DEF Boot
    <3> QED BY <2>1, <3>1, <3>2 DEF BluetoothExactlyOnFirstBoot
  <2>3. CASE power # "unpowered"
    <3>1. (~Valid \/ retained.boots = 0) <=> image
      BY <1>1, <1>2, <2>3 DEF Sealing
    <3>2. start' = IF image THEN "image" ELSE "wake"
      BY <2>3 DEF Boot
    <3> QED BY <2>1, <3>1, <3>2 DEF BluetoothExactlyOnFirstBoot
  <2> QED BY <2>2, <2>3
<1> QED BY <1>5, <1>6, <1>7, <1>8, <1>9 DEF IInv

LEMMA PoweroffKeepsIInv == ASSUME IInv, Poweroff PROVE IInv'
<1>1. TypeOK /\ Thread /\ Sealing /\ Accounting
  BY DEF IInv
<1>2. /\ power = "on" /\ power' = "off" /\ uptime' = 0
      /\ past' = past + uptime
      /\ torn' = (torn \/ ~Undivided)
      /\ bluetooth' = FALSE /\ smp' = "idle"
      /\ smp_now' = 0 /\ smp_delta' = 0 /\ smp_stores' = {}
      /\ UNCHANGED <<operating_time, lost, image, start>>
  BY DEF Poweroff, SessionEnds
<1>3. /\ retained.uptime_latest <= uptime
      /\ retained.uptime_sum \in Nat /\ retained.uptime_latest \in Nat
      /\ uptime \in Nat /\ past \in Nat /\ lost \in Nat
  BY <1>1, <1>2 DEF TypeOK, Thread, RetainedData
<1>4. /\ retained' = PoweroffRecord.data /\ crc' = retained'
      /\ retained' \in RetainedData
      /\ retained'.uptime_sum =
           retained.uptime_sum + (uptime - retained.uptime_latest)
      /\ retained'.boots = retained.boots
  BY <1>1, <1>3, PoweroffRecordFields DEF Poweroff
<1>5. TypeOK'
  <2>1. past' \in Nat /\ torn' \in BOOLEAN
    BY <1>2, <1>3 DEF Undivided, TypeOK
  <2> QED BY <1>1, <1>2, <1>4, <2>1 DEF TypeOK
<1>6. Thread'
  BY <1>2 DEF Thread
<1>7. Sealing'
  BY <1>1, <1>2, <1>4 DEF Sealing, Valid
<1>8. Accounting'
  <2>1. ~torn' => ~torn /\ Undivided
    BY <1>2
  <2>2. ~torn' =>
          retained.uptime_sum + lost = past + retained.uptime_latest
    BY <1>1, <1>2, <2>1 DEF Accounting
  <2> QED BY <1>2, <1>3, <1>4, <2>2 DEF Accounting
<1>9. BluetoothExactlyOnFirstBoot'
  BY <1>2 DEF BluetoothExactlyOnFirstBoot
<1> QED BY <1>5, <1>6, <1>7, <1>8, <1>9 DEF IInv

LEMMA RebootKeepsIInv == ASSUME IInv, Reboot PROVE IInv'
<1>1. TypeOK /\ Thread /\ Sealing /\ Accounting
  BY DEF IInv
<1>2. /\ power = "on" /\ power' = "reset" /\ uptime' = 0
      /\ past' = past + uptime
      /\ lost' = lost + (uptime - retained.uptime_latest)
      /\ torn' = (torn \/ ~Undivided)
      /\ bluetooth' = FALSE /\ smp' = "idle"
      /\ smp_now' = 0 /\ smp_delta' = 0 /\ smp_stores' = {}
      /\ UNCHANGED <<retained, crc, operating_time, image, start>>
  BY DEF Reboot, SessionEnds
<1>3. /\ retained.uptime_latest <= uptime
      /\ retained.uptime_sum \in Nat /\ retained.uptime_latest \in Nat
      /\ uptime \in Nat /\ past \in Nat /\ lost \in Nat
  BY <1>1, <1>2 DEF TypeOK, Thread, RetainedData
<1>4. TypeOK'
  <2>1. past' \in Nat /\ lost' \in Nat /\ torn' \in BOOLEAN
    BY <1>2, <1>3 DEF Undivided, TypeOK
  <2> QED BY <1>1, <1>2, <2>1 DEF TypeOK
<1>5. Thread'
  BY <1>2 DEF Thread
<1>6. Sealing'
  BY <1>1, <1>2 DEF Sealing, Valid, TypeOK
<1>7. Accounting'
  <2>1. ~torn' => ~torn /\ Undivided
    BY <1>2
  <2>2. ~torn' =>
          retained.uptime_sum + lost = past + retained.uptime_latest
    BY <1>1, <1>2, <2>1 DEF Accounting
  <2> QED BY <1>2, <1>3, <2>2 DEF Accounting
<1>8. BluetoothExactlyOnFirstBoot'
  BY <1>2 DEF BluetoothExactlyOnFirstBoot
<1> QED BY <1>4, <1>5, <1>6, <1>7, <1>8 DEF IInv

LEMMA SensorDataKeepsIInv == ASSUME IInv, SensorData PROVE IInv'
<1>1. TypeOK /\ Thread
  BY DEF IInv
<1>2. operating_time' \in Nat
  BY <1>1 DEF SensorData, Sample, TypeOK, Thread, RetainedData
<1>3. UNCHANGED <<power, retained, crc, uptime, bluetooth, smp, smp_now,
                  smp_delta, smp_stores, past, lost, torn, image, start>>
  BY DEF SensorData, smp_vars, history
<1> QED BY <1>2, <1>3 DEF IInv, TypeOK, Thread, Sealing, Accounting, Undivided,
                          Valid, BluetoothExactlyOnFirstBoot

LEMMA DfuPendingKeepsIInv == ASSUME IInv, DfuPending PROVE IInv'
BY DEF IInv, TypeOK, Thread, Sealing, Accounting, Undivided, Valid,
       BluetoothExactlyOnFirstBoot, DfuPending, history

LEMMA ClearBootsKeepsIInv == ASSUME IInv, ClearBoots PROVE IInv'
<1>1. TypeOK /\ Thread /\ Sealing /\ Accounting /\ BluetoothExactlyOnFirstBoot
  BY DEF IInv
<1>2. /\ retained' \in RetainedData
      /\ retained'.boots = 0
      /\ retained'.uptime_sum = retained.uptime_sum
      /\ retained'.uptime_latest = retained.uptime_latest
  BY <1>1 DEF ClearBoots, TypeOK, RetainedData
<1>3. /\ power = "on" /\ smp = "clear" /\ smp' = "read" /\ image' = TRUE
      /\ UNCHANGED <<power, crc, uptime, bluetooth, operating_time,
                     smp_now, smp_delta, smp_stores, past, lost, torn, start>>
  BY DEF ClearBoots
<1>4. TypeOK'
  BY <1>1, <1>2, <1>3 DEF TypeOK
<1>5. Thread'
  BY <1>1, <1>2, <1>3 DEF Thread
<1>6. Sealing'
  BY <1>2, <1>3 DEF Sealing
<1>7. Accounting'
  BY <1>1, <1>2, <1>3 DEF Accounting, Undivided
<1>8. BluetoothExactlyOnFirstBoot'
  BY <1>1, <1>3 DEF BluetoothExactlyOnFirstBoot
<1> QED BY <1>4, <1>5, <1>6, <1>7, <1>8 DEF IInv

LEMMA ReadUptimeKeepsIInv == ASSUME IInv, ReadUptime PROVE IInv'
<1>1. TypeOK /\ Thread /\ Sealing /\ Accounting /\ BluetoothExactlyOnFirstBoot
  BY DEF IInv
<1>2. /\ power = "on" /\ smp = "read" /\ smp' = "store"
      /\ smp_now' = uptime
      /\ smp_delta' = uptime - retained.uptime_latest
      /\ smp_stores' = {"uptime_sum", "uptime_latest"}
      /\ UNCHANGED <<power, retained, crc, uptime, bluetooth, operating_time,
                     past, lost, torn, image, start>>
  BY DEF ReadUptime, history
<1>3. /\ retained.uptime_latest \in Nat /\ uptime \in Nat
      /\ retained.uptime_latest <= uptime /\ smp_stores = {}
  BY <1>1, <1>2 DEF TypeOK, Thread, RetainedData
<1>4. TypeOK'
  BY <1>1, <1>2, <1>3 DEF TypeOK
<1>5. Thread'
  BY <1>1, <1>2, <1>3 DEF Thread
<1>6. Sealing'
  BY <1>1, <1>2 DEF Sealing, Valid
<1>7. Accounting'
  BY <1>1, <1>2, <1>3 DEF Accounting, Undivided
<1>8. BluetoothExactlyOnFirstBoot'
  BY <1>1, <1>2 DEF BluetoothExactlyOnFirstBoot
<1> QED BY <1>4, <1>5, <1>6, <1>7, <1>8 DEF IInv

LEMMA StoreKeepsIInv ==
  ASSUME IInv, NEW field \in {"uptime_sum", "uptime_latest"}, Store(field)
  PROVE  IInv'
<1>1. TypeOK /\ Thread /\ Sealing /\ Accounting /\ BluetoothExactlyOnFirstBoot
  BY DEF IInv
<1>2. /\ power = "on" /\ smp = "store" /\ field \in smp_stores
      /\ smp_stores' = smp_stores \ {field}
      /\ smp' = IF smp_stores = {field} THEN "seal" ELSE "store"
      /\ UNCHANGED <<power, crc, uptime, bluetooth, operating_time,
                     smp_now, smp_delta, past, lost, torn, image, start>>
  BY DEF Store, history
<1>3. /\ retained.uptime_latest \in Nat /\ retained.uptime_sum \in Nat
      /\ smp_now \in Nat /\ smp_delta \in Nat /\ uptime \in Nat
      /\ past \in Nat /\ lost \in Nat
      /\ smp_stores \subseteq {"uptime_sum", "uptime_latest"}
  BY <1>1 DEF TypeOK, RetainedData
<1>4. /\ retained' \in RetainedData
      /\ retained'.boots = retained.boots
      /\ retained'.uptime_sum = IF field = "uptime_sum"
           THEN retained.uptime_sum + smp_delta ELSE retained.uptime_sum
      /\ retained'.uptime_latest = IF field = "uptime_latest"
           THEN smp_now ELSE retained.uptime_latest
  BY <1>1, <1>3 DEF Store, TypeOK, RetainedData
<1>5. TypeOK'
  BY <1>1, <1>2, <1>3, <1>4 DEF TypeOK
<1>6. Thread'
  BY <1>1, <1>2, <1>3, <1>4 DEF Thread
<1>7. Sealing'
  BY <1>1, <1>2, <1>4 DEF Sealing
<1>8. Accounting'
  <2>1. CASE field = "uptime_sum" /\ smp_stores = {"uptime_sum", "uptime_latest"}
    BY <1>1, <1>2, <1>3, <1>4, <2>1 DEF Accounting, Undivided, Thread
  <2>2. CASE field = "uptime_latest" /\ smp_stores = {"uptime_sum", "uptime_latest"}
    BY <1>1, <1>2, <1>3, <1>4, <2>2 DEF Accounting, Undivided, Thread
  <2>3. CASE field = "uptime_sum" /\ smp_stores = {"uptime_sum"}
    BY <1>1, <1>2, <1>3, <1>4, <2>3 DEF Accounting, Undivided, Thread
  <2>4. CASE field = "uptime_latest" /\ smp_stores = {"uptime_latest"}
    BY <1>1, <1>2, <1>3, <1>4, <2>4 DEF Accounting, Undivided, Thread
  <2>5. smp_stores \in {{"uptime_sum"}, {"uptime_latest"},
                        {"uptime_sum", "uptime_latest"}}
    BY <1>2, <1>3
  <2> QED BY <1>2, <2>1, <2>2, <2>3, <2>4, <2>5
<1>9. BluetoothExactlyOnFirstBoot'
  BY <1>1, <1>2 DEF BluetoothExactlyOnFirstBoot
<1> QED BY <1>5, <1>6, <1>7, <1>8, <1>9 DEF IInv

LEMMA SealKeepsIInv == ASSUME IInv, Seal PROVE IInv'
BY DEF IInv, TypeOK, Thread, Sealing, Accounting, Undivided, Valid,
       BluetoothExactlyOnFirstBoot, Seal, history

LEMMA TickKeepsIInv == ASSUME IInv, Tick PROVE IInv'
BY DEF IInv, TypeOK, Thread, Sealing, Accounting, Undivided, Valid,
       BluetoothExactlyOnFirstBoot, Tick, smp_vars, history, RetainedData

LEMMA BatteryRemovedKeepsIInv == ASSUME IInv, BatteryRemoved PROVE IInv'
<1>1. TypeOK'
  BY BlankFields DEF IInv, TypeOK, BatteryRemoved, SessionEnds
<1>2. (Thread /\ Sealing /\ BluetoothExactlyOnFirstBoot)'
  BY DEF BatteryRemoved, SessionEnds, Thread, Sealing,
         BluetoothExactlyOnFirstBoot
<1>3. Accounting'
  BY BlankFields DEF BatteryRemoved, SessionEnds, Accounting
<1> QED BY <1>1, <1>2, <1>3 DEF IInv

LEMMA StutterKeepsIInv == ASSUME IInv, UNCHANGED vars PROVE IInv'
BY DEF IInv, TypeOK, Thread, Sealing, Accounting, Undivided, Valid,
       BluetoothExactlyOnFirstBoot, vars

LEMMA Inductive == Spec => []IInv
<1>1. IInv /\ [Next]_vars => IInv'
  BY BootKeepsIInv, PoweroffKeepsIInv, RebootKeepsIInv, SensorDataKeepsIInv,
     DfuPendingKeepsIInv, ClearBootsKeepsIInv, ReadUptimeKeepsIInv,
     StoreKeepsIInv, SealKeepsIInv, TickKeepsIInv, BatteryRemovedKeepsIInv,
     StutterKeepsIInv
  DEF Next
<1> QED BY <1>1, InitIInv, PTL DEF Spec

-----------------------------------------------------------------------------
(* The results.                                                            *)

\* The record, the thread and the history stay in their types.
THEOREM TypeTheorem == Spec => []TypeOK
<1>1. IInv => TypeOK
  BY DEF IInv
<1> QED BY <1>1, Inductive, PTL

\* Whenever poweroff strikes, the next boot finds a valid record.
THEOREM OffRecordTheorem == Spec => []OffRecordValid
<1>1. IInv => OffRecordValid
  BY DEF IInv, Sealing, OffRecordValid
<1> QED BY <1>1, Inductive, PTL

\* Bluetooth is offered on the first boot and after an image, and only then.
THEOREM BluetoothTheorem == Spec => []BluetoothExactlyOnFirstBoot
<1>1. IInv => BluetoothExactlyOnFirstBoot
  BY DEF IInv
<1> QED BY <1>1, Inductive, PTL

\* No second of operation is counted twice or dropped by the updates.
THEOREM UptimeTheorem == Spec => []UptimeAccounted
<1>1. IInv => UptimeAccounted
  BY DEF IInv, Accounting, UptimeAccounted
<1> QED BY <1>1, Inductive, PTL

-----------------------------------------------------------------------------
(* The refinement of UptimeAccount.                                        *)

\* What the record stands for after the first of the two stores.
LEMMA CountedParted ==
  /\ smp_stores = {"uptime_latest"} =>
       Counted = retained.uptime_sum + (uptime - smp_now)
  /\ smp_stores = {"uptime_sum"} =>
       Counted = retained.uptime_sum + smp_delta
                   + (uptime - retained.uptime_latest)
<1>1. "uptime_latest" # "uptime_sum"
  OBVIOUS
<1>2. CASE smp_stores = {"uptime_latest"}
  <2>1. smp_stores # {"uptime_sum"} /\ ~Undivided
    BY <1>1, <1>2 DEF Undivided
  <2> QED BY <1>2, <2>1 DEF Counted
<1>3. CASE smp_stores = {"uptime_sum"}
  <2>1. smp_stores # {"uptime_latest"} /\ ~Undivided
    BY <1>1, <1>3 DEF Undivided
  <2> QED BY <1>3, <2>1 DEF Counted
<1> QED BY <1>2, <1>3

\* What the record stands for, in all the states it can be in.
LEMMA CountedIs ==
  ASSUME TypeOK, Thread
  PROVE  /\ Counted \in Nat
         /\ power # "on" => Counted = retained.uptime_sum
         /\ power = "on" /\ Undivided => Counted = Sample
         /\ power = "on" /\ ~Undivided =>
              /\ smp = "store"
              /\ \/ /\ smp_stores = {"uptime_latest"}
                    /\ Counted = retained.uptime_sum + (uptime - smp_now)
                 \/ /\ smp_stores = {"uptime_sum"}
                    /\ retained.uptime_latest = smp_now
                    /\ Counted = retained.uptime_sum + smp_delta
                                   + (uptime - retained.uptime_latest)
<1>1. /\ retained.uptime_sum \in Nat /\ retained.uptime_latest \in Nat
      /\ uptime \in Nat /\ smp_now \in Nat /\ smp_delta \in Nat
  BY DEF TypeOK, RetainedData
<1>2. CASE power # "on"
  BY <1>1, <1>2 DEF Counted, Thread
<1>3. CASE power = "on" /\ Undivided
  BY <1>1, <1>3 DEF Counted, Thread, Undivided, Sample
<1>4. CASE power = "on" /\ ~Undivided
  <2>1. smp_stores = {"uptime_latest"} \/ smp_stores = {"uptime_sum"}
    BY <1>4 DEF TypeOK, Undivided
  <2>2. smp = "store"
    BY <2>1 DEF Thread
  <2> QED BY <1>1, <1>4, <2>1, <2>2 DEF Counted, Thread
<1> QED BY <1>2, <1>3, <1>4

\* What a reading shows is at most a session from it, and exact unless the
\* stores of the callback have been parted.
LEMMA SampleNear ==
  ASSUME TypeOK, Thread, power = "on"
  PROVE  /\ Sample \in Nat
         /\ Sample <= Counted + uptime
         /\ Counted <= Sample + uptime
         /\ AccountState = "on" => Sample = Counted
         /\ AccountState \in {"on", "updating"}
<1>1. /\ retained.uptime_sum \in Nat /\ retained.uptime_latest \in Nat
      /\ uptime \in Nat /\ smp_now \in Nat /\ smp_delta \in Nat
      /\ retained.uptime_latest <= uptime
  BY DEF TypeOK, RetainedData, Thread
<1>2. Sample \in Nat
  BY <1>1 DEF Sample
<1>3. AccountState \in {"on", "updating"}
  BY DEF AccountState, TypeOK
<1>4. CASE Undivided
  BY <1>1, <1>2, <1>3, <1>4, CountedIs
<1>5. CASE ~Undivided
  <2>1. AccountState = "updating"
    BY <1>5, CountedIs DEF AccountState
  <2>2. smp_now <= uptime /\ smp_delta <= smp_now
    BY <1>5, CountedIs DEF Thread
  <2>3. smp_stores = {"uptime_latest"} =>
          smp_now = retained.uptime_latest + smp_delta
    BY <1>5, CountedIs DEF Thread
  <2> QED BY <1>1, <1>2, <1>5, <2>1, <2>2, <2>3, CountedIs DEF Sample
<1> QED BY <1>2, <1>3, <1>4, <1>5

\* The same of the next state.
LEMMA CountedNext ==
  ASSUME TypeOK', Thread'
  PROVE  /\ Counted' \in Nat
         /\ power' # "on" => Counted' = retained'.uptime_sum
         /\ power' = "on" /\ Undivided' => Counted' = Sample'
         /\ smp_stores' = {"uptime_latest"} =>
              Counted' = retained'.uptime_sum + (uptime' - smp_now')
         /\ smp_stores' = {"uptime_sum"} =>
              Counted' = retained'.uptime_sum + smp_delta'
                           + (uptime' - retained'.uptime_latest)
<1>1. (TypeOK /\ Thread =>
         /\ Counted \in Nat
         /\ power # "on" => Counted = retained.uptime_sum
         /\ power = "on" /\ Undivided => Counted = Sample)'
  BY CountedIs, PTL
<1>2. (/\ smp_stores = {"uptime_latest"} =>
            Counted = retained.uptime_sum + (uptime - smp_now)
       /\ smp_stores = {"uptime_sum"} =>
            Counted = retained.uptime_sum + smp_delta
                        + (uptime - retained.uptime_latest))'
  BY CountedParted, PTL
<1> QED BY <1>1, <1>2

LEMMA StartStep == ASSUME IInv, IInv', Boot PROVE Account!Start
<1>1. /\ power # "on" /\ power' = "on" /\ power \in {"unpowered", "off", "reset"}
      /\ uptime' = 0 /\ operating_time' = 0 /\ past' = past
      /\ smp' = smp /\ smp_stores' = smp_stores
      /\ retained'.uptime_latest = 0
      /\ retained'.uptime_sum = IF Valid THEN retained.uptime_sum ELSE 0
  BY BootRecordFields DEF Boot, smp_vars, IInv
<1>2. smp = "idle" /\ smp_stores = {} /\ uptime = 0
  BY <1>1 DEF IInv, Thread
<1>3. /\ past \in Nat /\ retained.uptime_sum \in Nat
  BY DEF IInv, TypeOK, RetainedData
<1>4. AccountState \in {"off", "doubtful"} /\ AccountState' = "on"
  BY <1>1, <1>2 DEF AccountState
<1>5. Counted = retained.uptime_sum
  BY <1>1, CountedIs DEF IInv
<1>6. Counted' = retained'.uptime_sum
  <2>1. Counted' = Sample'
    BY <1>1, <1>2, CountedNext DEF IInv, Undivided
  <2> QED BY <1>1, <1>3, <2>1 DEF Sample
<1>7. Counted' = IF AccountState = "doubtful" THEN 0 ELSE Counted
  <2>1. CASE power = "unpowered"
    BY <1>1, <1>5, <1>6, <2>1 DEF IInv, Sealing, Blank, AccountState
  <2>2. CASE power = "off"
    BY <1>1, <1>5, <1>6, <2>2 DEF IInv, Sealing, AccountState
  <2>3. CASE power = "reset"
    BY <1>1, <1>5, <1>6, <2>3 DEF AccountState
  <2> QED BY <1>1, <2>1, <2>2, <2>3
<1> QED BY <1>1, <1>2, <1>3, <1>4, <1>7 DEF Account!Start, Account!Running

LEMMA PowerOffStep == ASSUME IInv, IInv', Poweroff PROVE Account!PowerOff
<1>1. /\ power = "on" /\ power' = "off" /\ uptime' = 0
      /\ past' = past + uptime /\ operating_time' = operating_time
      /\ retained' = PoweroffRecord.data
  BY DEF Poweroff
<1>2. past \in Nat /\ uptime \in Nat
  BY DEF IInv, TypeOK
<1>3. Counted' = Sample
  BY <1>1, PoweroffRecordFields, CountedNext DEF IInv, Thread, Sample
<1>4. AccountState' = "off"
  BY <1>1 DEF AccountState
<1> QED
  BY <1>1, <1>2, <1>3, <1>4, SampleNear, CountedIs
     DEF IInv, Account!PowerOff, Account!Near

LEMMA ResetStep == ASSUME IInv, IInv', Reboot PROVE Account!Reset
<1>1. /\ power = "on" /\ power' = "reset" /\ uptime' = 0
      /\ past' = past + uptime
      /\ UNCHANGED <<retained, crc, operating_time>>
  BY DEF Reboot
<1>2. /\ past \in Nat /\ uptime \in Nat /\ retained.uptime_sum \in Nat
      /\ retained.uptime_latest \in Nat /\ smp_now \in Nat /\ smp_delta \in Nat
      /\ retained.uptime_latest <= uptime
  BY <1>1 DEF IInv, TypeOK, Thread, RetainedData
<1>3. Counted' = retained.uptime_sum
  BY <1>1, CountedNext DEF IInv
<1>4. Counted \in Nat /\ Counted' <= Counted /\ Counted <= Counted' + uptime
  <2>1. CASE Undivided
    BY <1>1, <1>2, <1>3, <2>1, CountedIs DEF IInv, Sample
  <2>2. CASE ~Undivided
    BY <1>1, <1>2, <1>3, <2>2, CountedIs DEF IInv, Thread
  <2> QED BY <2>1, <2>2
<1>5. \/ AccountState' = "off"
      \/ AccountState = "updating" /\ AccountState' = "doubtful"
  <2>1. Valid' <=> Valid
    BY <1>1 DEF Valid
  <2>2. Valid \/ smp \in {"read", "store", "seal"}
    BY <1>1 DEF IInv, TypeOK, Sealing
  <2> QED BY <1>1, <2>1, <2>2 DEF AccountState
<1> QED
  BY <1>1, <1>2, <1>4, <1>5, SampleNear DEF IInv, Account!Reset, Account!Running

LEMMA ShowStep == ASSUME IInv, SensorData PROVE Account!Show
<1>1. /\ power = "on" /\ operating_time' = Sample
      /\ UNCHANGED <<power, retained, crc, uptime, smp, smp_now, smp_delta,
                     smp_stores, past>>
  BY DEF SensorData, smp_vars, history
<1>2. Counted' = Counted /\ AccountState' = AccountState
  BY <1>1 DEF Counted, AccountState, Undivided, Valid
<1> QED BY <1>1, <1>2, SampleNear DEF IInv, Account!Show, Account!Near

LEMMA SecondStep == ASSUME IInv, IInv', Tick PROVE Account!Second
<1>1. /\ power = "on" /\ uptime' = uptime + 1
      /\ UNCHANGED <<power, retained, crc, operating_time, smp, smp_now,
                     smp_delta, smp_stores, past>>
  BY DEF Tick, smp_vars, history
<1>2. AccountState' = AccountState
  BY <1>1 DEF AccountState, Valid
<1>3. /\ retained.uptime_sum \in Nat /\ retained.uptime_latest \in Nat
      /\ uptime \in Nat /\ smp_now \in Nat /\ smp_delta \in Nat /\ past \in Nat
  BY DEF IInv, TypeOK, RetainedData
<1>4. Counted' = Counted + 1
  <2>1. CASE Undivided
    <3>1. Counted = Sample /\ Counted' = Sample'
      BY <1>1, <2>1, CountedIs, CountedNext DEF IInv, Undivided
    <3> QED BY <1>1, <1>3, <3>1 DEF Sample
  <2>2. CASE smp_stores = {"uptime_latest"}
    BY <1>1, <1>3, <2>2, CountedParted, CountedNext DEF IInv
  <2>3. CASE smp_stores = {"uptime_sum"}
    BY <1>1, <1>3, <2>3, CountedParted, CountedNext DEF IInv
  <2> QED BY <2>1, <2>2, <2>3 DEF IInv, TypeOK, Undivided
<1> QED
  BY <1>1, <1>2, <1>3, <1>4, SampleNear
     DEF IInv, Account!Second, Account!Running

LEMMA NewBatteryStep == ASSUME BatteryRemoved PROVE Account!NewBattery
<1>1. /\ power' = "unpowered" /\ uptime' = 0 /\ past' = 0
      /\ operating_time' = 0 /\ smp_stores' = {}
      /\ retained'.uptime_sum = 0
  BY BlankFields DEF BatteryRemoved, SessionEnds
<1>2. AccountState' = "off" /\ Counted' = 0
  BY <1>1 DEF AccountState, Counted
<1> QED BY <1>1, <1>2 DEF Account!NewBattery

\* A step of the callback begins or ends the update, or is not to be seen.
LEMMA CallbackStep ==
  ASSUME IInv, IInv',
         \/ DfuPending \/ ClearBoots \/ ReadUptime \/ Seal
         \/ \E field \in {"uptime_sum", "uptime_latest"} : Store(field)
  PROVE  Account!BeginUpdate \/ Account!EndUpdate \/ UNCHANGED Account!vars
<1>1. /\ power = "on" /\ power' = "on"
      /\ UNCHANGED <<uptime, operating_time, past>>
  BY DEF DfuPending, ClearBoots, ReadUptime, Seal, Store, history
<1>2. Counted' = Counted
  <2>1. /\ retained \in RetainedData
        /\ retained.uptime_sum \in Nat /\ retained.uptime_latest \in Nat
        /\ uptime \in Nat /\ smp_now \in Nat /\ smp_delta \in Nat
        /\ smp_stores \subseteq {"uptime_sum", "uptime_latest"}
    BY DEF IInv, TypeOK, RetainedData
  <2>2. CASE DfuPending \/ ClearBoots \/ ReadUptime \/ Seal
    <3>1. /\ retained'.uptime_sum = retained.uptime_sum
          /\ retained'.uptime_latest = retained.uptime_latest
      BY <2>1, <2>2 DEF DfuPending, ClearBoots, ReadUptime, Seal, RetainedData
    <3>2. smp_stores = {} /\ Undivided'
      BY <2>2 DEF DfuPending, ClearBoots, ReadUptime, Seal, Undivided, IInv,
                  Thread
    <3> QED BY <1>1, <3>1, <3>2, CountedIs, CountedNext
               DEF IInv, Sample, Undivided
  <2>3. ASSUME NEW field \in {"uptime_sum", "uptime_latest"}, Store(field)
        PROVE  Counted' = Counted
    <3>1. /\ smp = "store" /\ field \in smp_stores
          /\ smp_stores' = smp_stores \ {field}
          /\ smp_now' = smp_now /\ smp_delta' = smp_delta
          /\ retained'.uptime_sum = IF field = "uptime_sum"
               THEN retained.uptime_sum + smp_delta ELSE retained.uptime_sum
          /\ retained'.uptime_latest = IF field = "uptime_latest"
               THEN smp_now ELSE retained.uptime_latest
      BY <2>1, <2>3 DEF Store, RetainedData
    <3>2. CASE smp_stores = {"uptime_sum", "uptime_latest"}
      <4>1. smp_now = retained.uptime_latest + smp_delta
        BY <3>1, <3>2 DEF IInv, Thread
      <4>2. \/ smp_stores' = {"uptime_latest"} /\ field = "uptime_sum"
            \/ smp_stores' = {"uptime_sum"} /\ field = "uptime_latest"
        BY <3>1, <3>2
      <4>3. Counted = Sample
        BY <1>1, <3>2, CountedIs DEF IInv, Undivided
      <4> QED BY <1>1, <2>1, <3>1, <4>1, <4>2, <4>3, CountedNext
                 DEF IInv, Sample
    <3>3. CASE smp_stores = {field}
      <4>1. smp_stores' = {} /\ Undivided'
        BY <3>1, <3>3 DEF Undivided
      <4>2. Counted' = Sample'
        BY <1>1, <4>1, CountedNext DEF IInv
      <4>3. field = "uptime_sum" =>
              Counted = retained.uptime_sum + smp_delta
                          + (uptime - retained.uptime_latest)
        BY <3>3, CountedParted
      <4>4. field = "uptime_latest" =>
              Counted = retained.uptime_sum + (uptime - smp_now)
        BY <3>3, CountedParted
      <4> QED BY <1>1, <2>1, <3>1, <4>2, <4>3, <4>4 DEF Sample
    <3> QED BY <2>1, <3>1, <3>2, <3>3
  <2> QED BY <2>2, <2>3
<1>3. AccountState = AccountState' \/ Account!BeginUpdate \/ Account!EndUpdate
  <2>1. AccountState \in {"on", "updating"} /\ AccountState' \in {"on", "updating"}
    BY <1>1 DEF IInv, TypeOK, AccountState
  <2> QED
    BY <1>1, <1>2, <2>1 DEF Account!BeginUpdate, Account!EndUpdate
<1> QED BY <1>1, <1>2, <1>3 DEF Account!vars

\* Whatever happens in whatever order, to whatever length: the operating time
\* is kept as UptimeAccount promises it.
THEOREM AccountTheorem == Spec => AccountKept
<1>1. Init => Account!Init
  BY BlankFields DEF Init, Account!Init, AccountState, Counted
<1>2. ASSUME IInv, IInv', [Next]_vars PROVE [Account!Next]_Account!vars
  <2>1. CASE UNCHANGED vars
    BY <2>1 DEF vars, Account!vars, AccountState, Counted, Undivided, Valid
  <2> QED
    BY <1>2, <2>1, StartStep, PowerOffStep, ResetStep, ShowStep, SecondStep,
       NewBatteryStep, CallbackStep
       DEF Next, Account!Next
<1>3. IInv /\ IInv' /\ [Next]_vars => [Account!Next]_Account!vars
  BY <1>2
<1> QED BY <1>1, <1>3, Inductive, PTL DEF Spec, Account!Spec, AccountKept

-----------------------------------------------------------------------------
(* How far a torn update can go.                                           *)

Total == past + uptime

\* Of UptimeAccount: what is counted, and the session that may be added to it
\* once more, are at most twice the time of operation.
Twice ==
  /\ Counted + uptime <= 2 * Total
  /\ operating_time <= 2 * Total

LEMMA SumNatural == \A m, n \in Nat : m + n \in Nat
OBVIOUS

\* What the steps of UptimeAccount do to counted, session, total and shown.
NumbersNext(c, s, t, o, c1, s1, t1, o1) ==
  \/ (c1 = c \/ c1 = 0) /\ s1 = 0 /\ t1 = t /\ o1 = 0
  \/ c1 = 0 /\ s1 = 0 /\ t1 = 0 /\ o1 = 0
  \/ c1 = c + 1 /\ s1 = s + 1 /\ t1 = t + 1 /\ o1 = o
  \/ c1 = c /\ s1 = s /\ t1 = t /\ (o1 = o \/ o1 = c \/ o1 <= c + s)
  \/ (c1 = c \/ c1 <= c \/ c1 <= c + s) /\ s1 = 0 /\ t1 = t /\ o1 = o

\* It keeps them within twice the total.
LEMMA TwiceStep ==
  ASSUME NEW c \in Nat, NEW s \in Nat, NEW t \in Nat, NEW o \in Nat,
         NEW c1 \in Nat, NEW s1 \in Nat, NEW t1 \in Nat, NEW o1 \in Nat,
         c + s <= 2 * t, o <= 2 * t, NumbersNext(c, s, t, o, c1, s1, t1, o1)
  PROVE  c1 + s1 <= 2 * t1 /\ o1 <= 2 * t1
BY DEF NumbersNext

\* A session's time counts twice at most, and the next session starts from
\* what has been counted: page 82 never shows more than twice the operating
\* time, whatever updates are torn (retained_update in dfu_pending_cb,
\* ant_sensor_data_handler_cb; OperatingTimeNotAhead asks for less and fails).
THEOREM AtMostTwice == Spec => [](operating_time <= 2 * (past + uptime))
<1>1. Init => Twice
  BY BlankFields DEF Init, Twice, Total, Counted
<1>2. ASSUME IInv, IInv', Twice, [Account!Next]_Account!vars PROVE Twice'
  <2>1. /\ Counted \in Nat /\ uptime \in Nat /\ Total \in Nat
        /\ operating_time \in Nat
    BY <1>2, CountedIs DEF IInv, TypeOK, Total
  <2>2. /\ Counted' \in Nat /\ uptime' \in Nat /\ Total' \in Nat
        /\ operating_time' \in Nat
    <3>1. TypeOK' /\ Thread'
      BY <1>2 DEF IInv
    <3>2. past' \in Nat /\ uptime' \in Nat /\ operating_time' \in Nat
      BY <3>1 DEF TypeOK
    <3>3. Counted' \in Nat
      BY <3>1, CountedNext
    <3>4. Total' \in Nat
      BY <3>2, SumNatural DEF Total
    <3> QED BY <3>2, <3>3, <3>4
  <2>3. Counted + uptime <= 2 * Total /\ operating_time <= 2 * Total
    BY <1>2 DEF Twice
  <2>4. NumbersNext(Counted, uptime, Total, operating_time,
                    Counted', uptime', Total', operating_time')
    <3>1. CASE Account!Start \/ Account!NewBattery
      BY <3>1 DEF Account!Start, Account!NewBattery, Total,
                    NumbersNext
    <3>2. CASE Account!Second
      BY <3>2 DEF Account!Second, Total, NumbersNext
    <3>3. CASE Account!Show
      BY <3>3 DEF Account!Show, Account!Near, Total, NumbersNext
    <3>4. CASE Account!PowerOff \/ Account!Reset
      BY <3>4 DEF Account!PowerOff, Account!Reset, Account!Near, Total,
                    NumbersNext
    <3>5. CASE \/ Account!BeginUpdate \/ Account!EndUpdate
               \/ UNCHANGED Account!vars
      BY <3>5
         DEF Account!BeginUpdate, Account!EndUpdate, Account!vars, Total,
             NumbersNext
    <3> QED BY <1>2, <3>1, <3>2, <3>3, <3>4, <3>5 DEF Account!Next
  <2>5. Counted' + uptime' <= 2 * Total' /\ operating_time' <= 2 * Total'
    BY <2>1, <2>2, <2>3, <2>4, TwiceStep
  <2> QED BY <2>5 DEF Twice
<1>3. IInv /\ IInv' /\ Twice /\ [Account!Next]_Account!vars => Twice'
  BY <1>2
<1>4. Twice => operating_time <= 2 * (past + uptime)
  BY DEF Twice, Total
<1> QED
  BY <1>1, <1>3, <1>4, Inductive, AccountTheorem, PTL
     DEF Spec, AccountKept, Account!Spec
=============================================================================
