----------------------- MODULE SystemWorkqueue_proofs -----------------------
(***************************************************************************)
(* Proofs about SystemWorkqueue: the chain of supervise and poweroff never *)
(* breaks or doubles, and no sensor interrupt is lost, for every delay and *)
(* every set of readings.                                                  *)
(***************************************************************************)
EXTENDS SystemWorkqueue, TLAPS

\* Before main() is done nothing of the pair is pending, after it exactly one
\* item is, and a device that is off has nothing pending.
PairInv ==
  /\ power = "on" /\ main = "done" =>
       (Pending("supervision") <=> ~Pending("poweroff"))
  /\ power = "off" \/ main # "done" =>
       ~Pending("supervision") /\ ~Pending("poweroff")

\* A measurement that the transfer in progress may miss has queued another
\* transfer, and only an interrupt that main() installed starts transfers.
ReadingInv ==
  /\ transfer \in {"none", "clean", "mixed"}
  /\ transfer = "mixed" => Pending("spim_receive")
  /\ transfer # "none" \/ Pending("spim_receive") \/ ~missed => installed
  /\ installed => main = "done"
  /\ ~missed /\ transfer = "none" /\ ~Pending("spim_receive") => pages = sensor

\* What the two need of the types.
WorkType == work \in [Works -> {"idle", "delayed", "queued"}]

IInv == WorkType /\ PairInv /\ ReadingInv

-----------------------------------------------------------------------------
(* What an action does to the flags of the work items.                     *)

\* A handler that hands over leaves exactly the item it names pending, if it
\* was not pending itself.
LEMMA HandOver ==
  ASSUME WorkType, NEW w \in Works, NEW next \in Works, NEW delay,
         work[next] = "idle" \/ next = w,
         Delay(Taken(w), next, delay)
  PROVE  /\ WorkType'
         /\ work'[next] = "delayed"
         /\ w # next => work'[w] = "idle"
         /\ \A v \in Works \ {w, next} : work'[v] = work[v]
<1>1. Taken(w) \in [Works -> {"idle", "delayed", "queued"}]
  BY DEF WorkType, Taken
<1>2. Taken(w)[next] = "idle"
  BY DEF WorkType, Taken
<1>3. work' = [Taken(w) EXCEPT ![next] = "delayed"]
  BY <1>2 DEF Delay
<1> QED BY <1>1, <1>3 DEF WorkType, Taken

\* After a reset no item is pending.
LEMMA RestartIdle ==
  ASSUME Restart
  PROVE  /\ WorkType' /\ ReadingInv'
         /\ main' = "starting"
         /\ \A w \in Works : ~Pending(w)'
BY DEF Restart, WorkType, ReadingInv, Pending, Works

\* An expired delay leaves every item as pending as it was.
LEMMA TickPending ==
  ASSUME WorkType, Tick
  PROVE  WorkType' /\ \A w \in Works : Pending(w)' <=> Pending(w)
BY DEF Tick, WorkType, Pending, Expires

-----------------------------------------------------------------------------
(* The inductive invariant.                                                *)

LEMMA InitIInv == Init => IInv
BY DEF Init, IInv, WorkType, PairInv, ReadingInv, Pending, Works

LEMMA NextIInv == IInv /\ [Next]_vars => IInv'
<1> SUFFICES ASSUME IInv, [Next]_vars PROVE IInv'
  OBVIOUS
<1>0. WorkType /\ PairInv /\ ReadingInv
  BY DEF IInv
<1>w. /\ "supervision" \in Works /\ "poweroff" \in Works
      /\ "spim_receive" \in Works
  BY DEF Works
<1>1. CASE MainDone
  <2>1. /\ ~Pending("supervision") /\ ~Pending("poweroff")
        /\ transfer = "none" /\ ~Pending("spim_receive") /\ missed
    BY <1>0, <1>1 DEF MainDone, PairInv, ReadingInv
  <2>2. work' = [work EXCEPT !["supervision"] = "delayed"]
    BY <1>1, <2>1 DEF MainDone, Delay, Pending
  <2>3. /\ WorkType'
        /\ Pending("supervision")' /\ ~Pending("poweroff")'
        /\ ~Pending("spim_receive")'
    BY <1>0, <1>w, <2>1, <2>2 DEF WorkType, Pending
  <2>4. power' = "on" /\ main' = "done" /\ transfer' = "none" /\ missed'
    BY <1>1, <2>1 DEF MainDone
  <2>5. PairInv'
    BY <2>3, <2>4 DEF PairInv
  <2>6. ReadingInv'
    BY <2>3, <2>4 DEF ReadingInv
  <2> QED BY <2>3, <2>5, <2>6 DEF IInv
<1>2. CASE MainFails
  <2>1. ~installed
    BY <1>0, <1>2 DEF MainFails, ReadingInv
  <2> QED BY <1>0, <1>2, <2>1 DEF MainFails, IInv, WorkType, PairInv,
                                  ReadingInv, Pending, sensor_vars
<1>3. ASSUME NEW w \in {"supervision", "poweroff"},
             NEW next \in {"supervision", "poweroff"}, NEW delay,
             Runs(w), Delay(Taken(w), next, delay),
             UNCHANGED <<power, main, sensor_vars>>
      PROVE  IInv'
  <2>1. /\ power = "on" /\ Pending(w)
        /\ w \in Works /\ next \in Works
    BY <1>3, <1>w DEF Runs, Pending
  <2>2. main = "done"
    BY <1>0, <1>3, <2>1 DEF PairInv
  <2>3. work[next] = "idle" \/ next = w
    BY <1>0, <1>3, <2>1, <2>2 DEF PairInv, Pending
  <2>4. /\ WorkType' /\ Pending(next)'
        /\ w # next => ~Pending(w)'
        /\ \A v \in Works \ {w, next} : Pending(v)' <=> Pending(v)
    BY <1>0, <1>3, <2>1, <2>3, HandOver DEF Pending
  <2>5. PairInv'
    <3>1. CASE w # next
      BY <1>3, <2>1, <2>2, <2>4, <3>1 DEF PairInv
    <3>2. CASE w = next /\ w = "supervision"
      <4>1. Pending("poweroff")' <=> Pending("poweroff")
        BY <2>4, <1>w, <3>2
      <4> QED BY <1>0, <1>3, <2>1, <2>2, <2>4, <3>2, <4>1 DEF PairInv
    <3>3. CASE w = next /\ w = "poweroff"
      <4>1. Pending("supervision")' <=> Pending("supervision")
        BY <2>4, <1>w, <3>3
      <4> QED BY <1>0, <1>3, <2>1, <2>2, <2>4, <3>3, <4>1 DEF PairInv
    <3> QED BY <1>3, <3>1, <3>2, <3>3
  <2>6. Pending("spim_receive")' <=> Pending("spim_receive")
    BY <1>3, <1>w, <2>4
  <2>7. ReadingInv'
    BY <1>0, <1>3, <2>6 DEF ReadingInv, sensor_vars
  <2> QED BY <2>4, <2>5, <2>7 DEF IInv
<1>4. CASE Supervise
  BY <1>3, <1>4 DEF Supervise
<1>5. CASE PoweroffFails
  BY <1>3, <1>5 DEF PoweroffFails
<1>6. ASSUME Restart PROVE IInv'
  BY <1>6, <1>w, RestartIdle DEF IInv, PairInv
<1>7. CASE PoweroffOk \/ WakeUp \/ Reboot
  BY <1>6, <1>7 DEF PoweroffOk, WakeUp, Reboot
<1>8. ASSUME WorkType', UNCHANGED <<power, main>>,
             Pending("supervision")' <=> Pending("supervision"),
             Pending("poweroff")' <=> Pending("poweroff")
      PROVE  PairInv'
  BY <1>0, <1>8 DEF PairInv
<1>9. ASSUME NEW reading \in Readings, Measure(reading) PROVE IInv'
  <2>1. /\ WorkType'
        /\ Pending("supervision")' <=> Pending("supervision")
        /\ Pending("poweroff")' <=> Pending("poweroff")
        /\ Pending("spim_receive")' <=> (installed \/ Pending("spim_receive"))
    <3>1. CASE IntSchedules
      <4>1. work' = [work EXCEPT !["spim_receive"] = "queued"]
        BY <1>9, <3>1 DEF Measure
      <4> QED BY <1>0, <1>w, <3>1, <4>1 DEF IntSchedules, WorkType, Pending
    <3>2. CASE ~IntSchedules
      <4>1. UNCHANGED work
        BY <1>9, <3>2 DEF Measure
      <4> QED BY <1>0, <1>w, <3>2, <4>1 DEF IntSchedules, WorkType, Pending
    <3> QED BY <3>1, <3>2
  <2>2. /\ transfer' = IF transfer = "none" THEN "none" ELSE "mixed"
        /\ UNCHANGED <<power, main, installed, missed>>
    BY <1>9 DEF Measure
  <2>3. ReadingInv'
    BY <1>0, <2>1, <2>2 DEF ReadingInv
  <2> QED BY <1>8, <2>1, <2>2, <2>3 DEF IInv
<1>10. CASE ReceiveStart
  <2>1. /\ WorkType' /\ ~Pending("spim_receive")'
        /\ Pending("spim_receive")
        /\ Pending("supervision")' <=> Pending("supervision")
        /\ Pending("poweroff")' <=> Pending("poweroff")
    BY <1>0, <1>10, <1>w DEF ReceiveStart, Runs, Taken, WorkType, Pending
  <2>2. /\ transfer' = "clean"
        /\ UNCHANGED <<power, main, sensor, pages, installed, missed>>
    BY <1>10 DEF ReceiveStart
  <2>3. ReadingInv'
    BY <1>0, <2>1, <2>2 DEF ReadingInv
  <2> QED BY <1>8, <2>1, <2>2, <2>3 DEF IInv
<1>11. CASE ReceivePublish \/ ReceiveDrop
  <2>1. UNCHANGED <<power, main, work, sensor, installed>>
    BY <1>11 DEF ReceivePublish, ReceiveDrop
  <2>2. /\ WorkType'
        /\ \A w \in Works : Pending(w)' <=> Pending(w)
    BY <1>0, <2>1 DEF WorkType, Pending
  <2>3. ReadingInv'
    <3>1. CASE ReceivePublish
      <4>1. /\ transfer' = "none" /\ ~missed' /\ transfer # "none"
            /\ transfer = "clean" => pages' = sensor
        BY <3>1 DEF ReceivePublish
      <4> QED BY <1>0, <1>w, <2>1, <2>2, <4>1 DEF ReadingInv
    <3>2. CASE ReceiveDrop
      BY <1>0, <1>w, <2>1, <2>2, <3>2 DEF ReceiveDrop, ReadingInv
    <3> QED BY <1>11, <3>1, <3>2
  <2> QED BY <1>8, <1>w, <2>1, <2>2, <2>3 DEF IInv
<1>12. CASE Tick
  <2>1. WorkType' /\ \A w \in Works : Pending(w)' <=> Pending(w)
    BY <1>0, <1>12, TickPending
  <2>2. UNCHANGED <<power, main, sensor_vars>>
    BY <1>12 DEF Tick
  <2>3. ReadingInv'
    BY <1>0, <1>w, <2>1, <2>2 DEF ReadingInv, sensor_vars
  <2> QED BY <1>8, <1>w, <2>1, <2>2, <2>3 DEF IInv
<1>13. ASSUME UNCHANGED <<power, main, work, sensor_vars>> PROVE IInv'
  BY <1>0, <1>13 DEF IInv, WorkType, PairInv, ReadingInv, Pending, sensor_vars
<1>14. CASE PinChanges \/ UNCHANGED vars
  BY <1>13, <1>14 DEF PinChanges, vars, sensor_vars
<1> QED
  BY <1>1, <1>2, <1>4, <1>5, <1>7, <1>9, <1>10, <1>11, <1>12, <1>14 DEF Next

LEMMA Inductive == Spec => []IInv
BY InitIInv, NextIInv, PTL DEF Spec

-----------------------------------------------------------------------------
(* Types, and the delay before the device switches off.                    *)

\* A delay that is running is not over, and poweroff is pending only for a low
\* sample: what is left of its delay and the sample's age add up to it.
DelayInv ==
  /\ \A w \in Works : work[w] = "delayed" => timer[w] > 0
  /\ Pending("poweroff") => sample = "low"
  /\ work["poweroff"] = "delayed" =>
       timer["poweroff"] + sample_age >= SYS_POWEROFF_DELAY
  /\ work["poweroff"] = "queued" => sample_age = SYS_POWEROFF_DELAY

TimedInv == TypeOK /\ DelayInv

LEMMA Delays ==
  /\ SUPERVISION_CYCLE_TIME \in Nat /\ SUPERVISION_CYCLE_TIME > 0
  /\ SYS_POWEROFF_DELAY \in Nat /\ SYS_POWEROFF_DELAY > 0
BY DelayAssumption

LEMMA InitTimedInv == Init => TimedInv
<1> SUFFICES ASSUME Init PROVE TimedInv
  OBVIOUS
<1>1. /\ work \in [Works -> {"idle", "delayed", "queued"}]
      /\ timer \in [Works -> Nat]
      /\ queue \in Seq(Works)
      /\ \A w \in Works : work[w] = "idle"
  BY DEF Init
<1>2. sample_age \in 0 .. SYS_POWEROFF_DELAY
  BY Delays DEF Init
<1>3. TypeOK
  BY <1>1, <1>2 DEF Init, TypeOK
<1> QED BY <1>1, <1>3 DEF TimedInv, DelayInv, Pending, Works

LEMMA RestartTimedInv ==
  ASSUME TypeOK, Restart, power' \in {"on", "off"}, UNCHANGED wake_signal
  PROVE  TimedInv'
<1>1. /\ work' \in [Works -> {"idle", "delayed", "queued"}]
      /\ timer' \in [Works -> Nat]
      /\ queue' \in Seq(Works)
      /\ \A w \in Works : work'[w] = "idle"
  BY DEF Restart
<1>2. sample_age' \in 0 .. SYS_POWEROFF_DELAY
  BY Delays DEF Restart
<1>3. TypeOK'
  BY <1>1, <1>2 DEF Restart, TypeOK
<1> QED BY <1>1, <1>3 DEF TimedInv, DelayInv, Pending, Works

\* A handler of the pair hands over: the item it names is delayed, the other
\* one is idle.
LEMMA HandOverTyped ==
  ASSUME IInv, TypeOK,
         NEW w \in {"supervision", "poweroff"},
         NEW next \in {"supervision", "poweroff"},
         NEW delay \in Nat,
         Runs(w), Delay(Taken(w), next, delay)
  PROVE  /\ Tail(queue) \in Seq(Works)
         /\ work' \in [Works -> {"idle", "delayed", "queued"}]
         /\ timer' \in [Works -> Nat]
         /\ work'[next] = "delayed" /\ timer'[next] = delay
         /\ \A v \in {"supervision", "poweroff"} \ {next} : work'[v] = "idle"
         /\ work'["spim_receive"] = work["spim_receive"]
         /\ timer'["spim_receive"] = timer["spim_receive"]
<1>1. /\ w \in Works /\ next \in Works /\ "spim_receive" \in Works
      /\ work[w] = "queued"
      /\ queue \in Seq(Works) /\ queue # <<>>
      /\ timer \in [Works -> Nat]
      /\ WorkType
  BY DEF TypeOK, Runs, Works, IInv
<1>2. \A v \in {"supervision", "poweroff"} \ {w} : work[v] = "idle"
  BY <1>1 DEF IInv, PairInv, Pending, Runs
<1>3. /\ WorkType'
      /\ work'[next] = "delayed"
      /\ w # next => work'[w] = "idle"
      /\ \A v \in Works \ {w, next} : work'[v] = work[v]
  BY <1>1, <1>2, HandOver
<1>4. timer' = [timer EXCEPT ![next] = delay]
  <2>1. Taken(w)[next] = "idle"
    BY <1>1, <1>2 DEF Taken, WorkType
  <2> QED BY <2>1 DEF Delay
<1>5. Tail(queue) \in Seq(Works)
  BY <1>1
<1>6. /\ timer' \in [Works -> Nat] /\ timer'[next] = delay
      /\ timer'["spim_receive"] = timer["spim_receive"]
  BY <1>1, <1>4
<1> QED BY <1>1, <1>2, <1>3, <1>5, <1>6 DEF WorkType, Works

LEMMA TickTimedInv == ASSUME TimedInv, Tick PROVE TimedInv'
<1>1. /\ sample_age \in 0 .. SYS_POWEROFF_DELAY
      /\ timer \in [Works -> Nat]
      /\ work \in [Works -> {"idle", "delayed", "queued"}]
      /\ queue \in Seq(Works)
      /\ \A w \in Works : work[w] = "delayed" => timer[w] > 0
      /\ "supervision" \in Works /\ "poweroff" \in Works
  BY DEF TimedInv, TypeOK, DelayInv, Works
<1>2. /\ sample_age' \in 0 .. SYS_POWEROFF_DELAY
      /\ \/ sample_age' = sample_age + 1
         \/ sample_age' = sample_age /\ sample_age = SYS_POWEROFF_DELAY
  BY <1>1, Delays DEF Tick
<1>3. timer' \in [Works -> Nat]
  BY <1>1 DEF Tick
<1>4. work' \in [Works -> {"idle", "delayed", "queued"}]
  BY <1>1 DEF Tick
<1>5. queue' \in Seq(Works)
  BY <1>1 DEF Tick
<1>6. TypeOK'
  BY <1>2, <1>3, <1>4, <1>5 DEF Tick, TimedInv, TypeOK, sensor_vars
<1>7. \A w \in Works :
        /\ work'[w] = "delayed" => work[w] = "delayed" /\ timer[w] # 1
        /\ work'[w] = "queued" =>
             work[w] = "queued" \/ (work[w] = "delayed" /\ timer[w] = 1)
        /\ work[w] = "delayed" => timer'[w] = timer[w] - 1
        /\ work'[w] # "idle" => work[w] # "idle"
        /\ timer[w] \in Nat /\ timer'[w] \in Nat
  BY <1>1, <1>3 DEF Tick, Expires
<1>8. \A w \in Works : work'[w] = "delayed" => timer'[w] > 0
  BY <1>1, <1>7
<1>9. Pending("poweroff")' => sample' = "low"
  BY <1>1, <1>7 DEF Tick, TimedInv, DelayInv, Pending
<1>10. work'["poweroff"] = "delayed" =>
         timer'["poweroff"] + sample_age' >= SYS_POWEROFF_DELAY
  BY <1>1, <1>2, <1>7, Delays DEF TimedInv, DelayInv
<1>11. work'["poweroff"] = "queued" => sample_age' = SYS_POWEROFF_DELAY
  BY <1>1, <1>2, <1>7, Delays DEF TimedInv, DelayInv
<1> QED BY <1>6, <1>8, <1>9, <1>10, <1>11 DEF TimedInv, DelayInv

\* The items of the sensor leave the pair alone.
LEMMA SensorTimedInv ==
  ASSUME IInv, TimedInv,
         \/ \E reading \in Readings : Measure(reading)
         \/ ReceiveStart
         \/ ReceivePublish
         \/ ReceiveDrop
  PROVE  TimedInv'
<1>1. UNCHANGED <<power, wake_signal, main, timer, sample_vars>>
  BY DEF Measure, ReceiveStart, ReceivePublish, ReceiveDrop
<1>2. /\ work' \in [Works -> {"idle", "delayed", "queued"}]
      /\ work'["spim_receive"] # "delayed"
           \/ work'["spim_receive"] = work["spim_receive"]
      /\ \A w \in Works \ {"spim_receive"} : work'[w] = work[w]
  <2>1. \/ work' = [work EXCEPT !["spim_receive"] = "queued"]
        \/ work' = [work EXCEPT !["spim_receive"] = "idle"]
        \/ work' = work
    BY DEF Measure, ReceiveStart, ReceivePublish, ReceiveDrop, Taken
  <2>2. /\ work \in [Works -> {"idle", "delayed", "queued"}]
        /\ "spim_receive" \in Works
    BY DEF TimedInv, TypeOK, Works
  <2> QED BY <2>1, <2>2
<1>3. queue' \in Seq(Works)
  <2>1. \/ queue' = Append(queue, "spim_receive")
        \/ queue # <<>> /\ queue' = Tail(queue)
        \/ queue' = queue
    BY DEF Measure, ReceiveStart, ReceivePublish, ReceiveDrop, Runs
  <2>2. queue \in Seq(Works) /\ "spim_receive" \in Works
    BY DEF TimedInv, TypeOK, Works
  <2> QED BY <2>1, <2>2
<1>4. /\ transfer' \in {"none", "clean", "mixed"}
      /\ sensor' \in Readings
      /\ pages' \in Readings \cup {NoReading}
      /\ installed' \in BOOLEAN
      /\ missed' \in BOOLEAN
  <2>1. CASE \E reading \in Readings : Measure(reading)
    BY <2>1 DEF Measure, TimedInv, TypeOK
  <2>2. CASE ReceiveStart
    BY <2>2 DEF ReceiveStart, TimedInv, TypeOK
  <2>3. CASE ReceivePublish
    <3>1. pages' \in Readings
      BY <2>3 DEF ReceivePublish, TimedInv, TypeOK
    <3> QED BY <2>3, <3>1 DEF ReceivePublish, TimedInv, TypeOK
  <2>4. CASE ReceiveDrop
    BY <2>4 DEF ReceiveDrop, TimedInv, TypeOK
  <2> QED BY <2>1, <2>2, <2>3, <2>4
<1>5. TypeOK'
  BY <1>1, <1>2, <1>3, <1>4 DEF TimedInv, TypeOK, sample_vars
<1>6. DelayInv'
  BY <1>1, <1>2 DEF TimedInv, DelayInv, Pending, Works, sample_vars
<1> QED BY <1>5, <1>6 DEF TimedInv

LEMMA NextTimedInv == IInv /\ TimedInv /\ [Next]_vars => TimedInv'
<1> SUFFICES ASSUME IInv, TimedInv, [Next]_vars PROVE TimedInv'
  OBVIOUS
<1>0. TypeOK /\ DelayInv
  BY DEF TimedInv
<1>1. CASE MainDone
  <2>1. work["supervision"] = "idle" /\ work["poweroff"] = "idle"
    BY <1>1 DEF MainDone, IInv, PairInv, Pending
  <2>2. /\ work' = [work EXCEPT !["supervision"] = "delayed"]
        /\ timer' = [timer EXCEPT !["supervision"] = SUPERVISION_CYCLE_TIME]
    BY <1>1, <2>1 DEF MainDone, Delay
  <2>3. /\ work' \in [Works -> {"idle", "delayed", "queued"}]
        /\ timer' \in [Works -> Nat]
        /\ work'["poweroff"] = "idle"
        /\ timer'["supervision"] = SUPERVISION_CYCLE_TIME
        /\ work'["spim_receive"] = work["spim_receive"]
        /\ timer'["spim_receive"] = timer["spim_receive"]
    BY <1>0, <2>1, <2>2, Delays DEF TypeOK, Works
  <2>4. TypeOK'
    <3>1. installed' \in BOOLEAN
      BY <1>1 DEF MainDone, SpimInit
    <3> QED BY <1>0, <1>1, <2>3, <3>1 DEF MainDone, TypeOK, sample_vars
  <2>5. DelayInv'
    BY <1>0, <2>3, Delays DEF DelayInv, Pending, Works
  <2> QED BY <2>4, <2>5 DEF TimedInv
<1>2. CASE Supervise
  <2>1. CASE ReadsLow
    <3>1. /\ Delay(Taken("supervision"), "poweroff", SYS_POWEROFF_DELAY)
          /\ Runs("supervision")
          /\ sample' = "low" /\ sample_age' = 0
      BY <1>2, <2>1 DEF Supervise, ReadsLow
    <3>2. /\ Tail(queue) \in Seq(Works)
          /\ work' \in [Works -> {"idle", "delayed", "queued"}]
          /\ timer' \in [Works -> Nat]
          /\ work'["poweroff"] = "delayed"
          /\ timer'["poweroff"] = SYS_POWEROFF_DELAY
          /\ work'["supervision"] = "idle"
          /\ work'["spim_receive"] = work["spim_receive"]
          /\ timer'["spim_receive"] = timer["spim_receive"]
      BY <1>0, <3>1, HandOverTyped, Delays
    <3>3. TypeOK'
      <4>1. sample_age' \in 0 .. SYS_POWEROFF_DELAY
        BY <3>1, Delays
      <4> QED BY <1>0, <1>2, <3>1, <3>2, <4>1 DEF Supervise, TypeOK, sensor_vars
    <3>4. DelayInv'
      BY <1>0, <3>1, <3>2, Delays DEF DelayInv, Pending, Works
    <3> QED BY <3>3, <3>4 DEF TimedInv
  <2>2. CASE ~ReadsLow
    <3>1. /\ Delay(Taken("supervision"), "supervision", SUPERVISION_CYCLE_TIME)
          /\ Runs("supervision")
          /\ sample' = "high" /\ sample_age' = 0
      BY <1>2, <2>2 DEF Supervise, ReadsLow
    <3>2. /\ Tail(queue) \in Seq(Works)
          /\ work' \in [Works -> {"idle", "delayed", "queued"}]
          /\ timer' \in [Works -> Nat]
          /\ work'["poweroff"] = "idle"
          /\ timer'["supervision"] = SUPERVISION_CYCLE_TIME
          /\ work'["spim_receive"] = work["spim_receive"]
          /\ timer'["spim_receive"] = timer["spim_receive"]
      BY <1>0, <3>1, HandOverTyped, Delays
    <3>3. TypeOK'
      <4>1. sample_age' \in 0 .. SYS_POWEROFF_DELAY
        BY <3>1, Delays
      <4> QED BY <1>0, <1>2, <3>1, <3>2, <4>1 DEF Supervise, TypeOK, sensor_vars
    <3>4. DelayInv'
      BY <1>0, <3>1, <3>2, Delays DEF DelayInv, Pending, Works
    <3> QED BY <3>3, <3>4 DEF TimedInv
  <2> QED BY <2>1, <2>2
<1>3. CASE PoweroffFails
  <2>1. /\ Delay(Taken("poweroff"), "supervision", SUPERVISION_CYCLE_TIME)
        /\ Runs("poweroff")
    BY <1>3 DEF PoweroffFails
  <2>2. /\ Tail(queue) \in Seq(Works)
        /\ work' \in [Works -> {"idle", "delayed", "queued"}]
        /\ timer' \in [Works -> Nat]
        /\ work'["poweroff"] = "idle"
        /\ timer'["supervision"] = SUPERVISION_CYCLE_TIME
        /\ work'["spim_receive"] = work["spim_receive"]
        /\ timer'["spim_receive"] = timer["spim_receive"]
    BY <1>0, <2>1, HandOverTyped, Delays
  <2>3. TypeOK'
    BY <1>0, <1>3, <2>2 DEF PoweroffFails, TypeOK, sensor_vars, sample_vars
  <2>4. DelayInv'
    BY <1>0, <2>2, Delays DEF DelayInv, Pending, Works
  <2> QED BY <2>3, <2>4 DEF TimedInv
<1>4. CASE PoweroffOk \/ WakeUp \/ Reboot
  BY <1>0, <1>4, RestartTimedInv DEF PoweroffOk, WakeUp, Reboot, TypeOK
<1>5. CASE MainFails \/ PinChanges \/ UNCHANGED vars
  <2>1. /\ UNCHANGED <<power, work, timer, queue, sensor_vars, sample_vars>>
        /\ main' \in {"starting", "done", "failed"}
        /\ wake_signal' \in BOOLEAN
    BY <1>0, <1>5
       DEF MainFails, PinChanges, vars, TypeOK, sensor_vars, sample_vars
  <2> QED BY <1>0, <2>1
          DEF TimedInv, TypeOK, DelayInv, Pending, sensor_vars, sample_vars
<1>6. CASE \/ \E reading \in Readings : Measure(reading)
           \/ ReceiveStart
           \/ ReceivePublish
           \/ ReceiveDrop
  BY <1>6, SensorTimedInv
<1>7. CASE Tick
  BY <1>7, TickTimedInv
<1> QED
  BY <1>1, <1>2, <1>3, <1>4, <1>5, <1>6, <1>7 DEF Next

LEMMA TimedInductive == Spec => []TimedInv
BY InitTimedInv, NextTimedInv, Inductive, PTL DEF Spec

-----------------------------------------------------------------------------
(* The FIFO and the flags.                                                 *)

In(q, w) == \E i \in 1 .. Len(q) : q[i] = w

Distinct(q) == \A i, j \in 1 .. Len(q) : q[i] = q[j] => i = j

\* The FIFO holds the items whose flag says so, each of them once; an
\* interrupt queues spim_receive at once.
FifoInv ==
  /\ work["spim_receive"] # "delayed"
  /\ Distinct(queue)
  /\ \A w \in Works : In(queue, w) <=> work[w] = "queued"

\* The first item is taken.
LEMMA TailOfQueue ==
  ASSUME NEW q \in Seq(Works), Distinct(q), q # <<>>
  PROVE  /\ Distinct(Tail(q))
         /\ \A w \in Works : In(Tail(q), w) <=> In(q, w) /\ w # Head(q)
<1>1. /\ Len(q) \in Nat \ {0}
      /\ Len(Tail(q)) = Len(q) - 1
      /\ \A i \in 1 .. Len(q) - 1 : Tail(q)[i] = q[i + 1]
      /\ Head(q) = q[1]
  OBVIOUS
<1>2. Distinct(Tail(q))
  BY <1>1 DEF Distinct
<1>3. ASSUME NEW w \in Works, In(Tail(q), w) PROVE In(q, w) /\ w # Head(q)
  <2>1. PICK i \in 1 .. Len(q) - 1 : Tail(q)[i] = w
    BY <1>1, <1>3 DEF In
  <2>2. i + 1 \in 1 .. Len(q) /\ 1 \in 1 .. Len(q) /\ q[i + 1] = w
    BY <1>1, <2>1
  <2> QED BY <1>1, <2>1, <2>2 DEF In, Distinct
<1>4. ASSUME NEW w \in Works, In(q, w), w # Head(q) PROVE In(Tail(q), w)
  <2>1. PICK i \in 1 .. Len(q) : q[i] = w
    BY <1>4 DEF In
  <2>2. i - 1 \in 1 .. Len(q) - 1 /\ Tail(q)[i - 1] = w
    BY <1>1, <1>4, <2>1
  <2> QED BY <1>1, <2>2 DEF In
<1> QED BY <1>2, <1>3, <1>4

\* An item that is not there is added.
LEMMA AppendToQueue ==
  ASSUME NEW q \in Seq(Works), Distinct(q), NEW w \in Works, ~In(q, w)
  PROVE  /\ Distinct(Append(q, w))
         /\ \A v \in Works : In(Append(q, w), v) <=> In(q, v) \/ v = w
<1>1. /\ Len(q) \in Nat
      /\ Len(Append(q, w)) = Len(q) + 1
      /\ \A i \in 1 .. Len(q) : Append(q, w)[i] = q[i]
      /\ Append(q, w)[Len(q) + 1] = w
  OBVIOUS
<1>2. \A i \in 1 .. Len(q) : q[i] # w
  BY DEF In
<1> QED BY <1>1, <1>2 DEF In, Distinct

\* What the actions do to the FIFO keeps it in step with the flags.
LEMMA FifoUnchanged ==
  ASSUME FifoInv, queue' = queue, work'["spim_receive"] # "delayed",
         \A w \in Works : work'[w] = "queued" <=> work[w] = "queued"
  PROVE  FifoInv'
BY DEF FifoInv

LEMMA FifoTaken ==
  ASSUME FifoInv, TypeOK, NEW w \in Works, Runs(w), queue' = Tail(queue),
         work'["spim_receive"] # "delayed", work'[w] # "queued",
         \A v \in Works \ {w} : work'[v] = "queued" <=> work[v] = "queued"
  PROVE  FifoInv'
<1>1. queue \in Seq(Works) /\ queue # <<>> /\ Head(queue) = w
  BY DEF TypeOK, Runs
<1>2. /\ Distinct(queue')
      /\ \A v \in Works : In(queue', v) <=> In(queue, v) /\ v # w
  BY <1>1, TailOfQueue DEF FifoInv
<1> QED BY <1>2 DEF FifoInv

LEMMA FifoAdded ==
  ASSUME FifoInv, TypeOK, NEW w \in Works, work[w] # "queued",
         queue' = Append(queue, w),
         work'["spim_receive"] # "delayed", work'[w] = "queued",
         \A v \in Works \ {w} : work'[v] = "queued" <=> work[v] = "queued"
  PROVE  FifoInv'
<1>1. queue \in Seq(Works) /\ ~In(queue, w)
  BY DEF TypeOK, FifoInv
<1>2. /\ Distinct(queue')
      /\ \A v \in Works : In(queue', v) <=> In(queue, v) \/ v = w
  BY <1>1, AppendToQueue DEF FifoInv
<1> QED BY <1>2 DEF FifoInv

\* After a reset the FIFO is empty.
LEMMA FifoEmpty ==
  ASSUME queue = <<>>, work = [w \in Works |-> "idle"]
  PROVE  FifoInv
BY DEF FifoInv, In, Distinct, Works

LEMMA FifoEmptied ==
  ASSUME queue' = <<>>, work' = [w \in Works |-> "idle"]
  PROVE  FifoInv'
BY DEF FifoInv, In, Distinct, Works

\* Of the pair at most one item can become due, so that a tick queues every
\* item that is.
LEMMA TickFifo == ASSUME IInv, TypeOK, FifoInv, Tick PROVE FifoInv'
<1>1. /\ Works = {"supervision", "poweroff", "spim_receive"}
      /\ work \in [Works -> {"idle", "delayed", "queued"}]
      /\ work["spim_receive"] # "delayed"
  BY DEF Works, TypeOK, FifoInv
<1>2. \A w \in Works : work'[w] = IF Expires(w) THEN "queued" ELSE work[w]
  BY DEF Tick
<1>3. ~Expires("spim_receive")
  BY <1>1 DEF Expires
<1>4. ~(Expires("supervision") /\ Expires("poweroff"))
  BY DEF IInv, PairInv, Pending, Expires, Tick
<1>5. CASE Expires("supervision")
  BY <1>1, <1>2, <1>3, <1>4, <1>5, FifoAdded DEF Tick, Expires
<1>6. CASE Expires("poweroff")
  BY <1>1, <1>2, <1>3, <1>4, <1>6, FifoAdded DEF Tick, Expires
<1>7. CASE ~Expires("supervision") /\ ~Expires("poweroff")
  BY <1>1, <1>2, <1>3, <1>7, FifoUnchanged DEF Tick
<1> QED BY <1>5, <1>6, <1>7

LEMMA NextFifoInv ==
  ASSUME IInv, TypeOK, FifoInv, [Next]_vars PROVE FifoInv'
<1>0. /\ Works = {"supervision", "poweroff", "spim_receive"}
      /\ work \in [Works -> {"idle", "delayed", "queued"}]
      /\ work["spim_receive"] # "delayed"
  BY DEF Works, TypeOK, FifoInv
<1>1. CASE MainDone
  <2>1. work["supervision"] = "idle"
    BY <1>1 DEF MainDone, IInv, PairInv, Pending
  <2>2. work' = [work EXCEPT !["supervision"] = "delayed"] /\ queue' = queue
    BY <1>1, <2>1 DEF MainDone, Delay
  <2> QED BY <1>0, <2>1, <2>2, FifoUnchanged
<1>2. ASSUME NEW w \in {"supervision", "poweroff"},
             NEW next \in {"supervision", "poweroff"}, NEW delay \in Nat,
             Runs(w), Delay(Taken(w), next, delay), queue' = Tail(queue)
      PROVE  FifoInv'
  <2>1. /\ work'[next] = "delayed"
        /\ \A v \in {"supervision", "poweroff"} \ {next} : work'[v] = "idle"
        /\ work'["spim_receive"] = work["spim_receive"]
    BY <1>2, HandOverTyped
  <2>2. \A v \in {"supervision", "poweroff"} \ {w} : work[v] = "idle"
    BY <1>0, <1>2 DEF IInv, PairInv, Pending, Runs
  <2> QED BY <1>0, <1>2, <2>1, <2>2, FifoTaken
<1>3. CASE Supervise
  BY <1>2, <1>3, Delays DEF Supervise
<1>4. CASE PoweroffFails
  BY <1>2, <1>4, Delays DEF PoweroffFails
<1>5. CASE PoweroffOk \/ WakeUp \/ Reboot
  BY <1>5, FifoEmptied DEF PoweroffOk, WakeUp, Reboot, Restart
<1>6. ASSUME NEW reading \in Readings, Measure(reading) PROVE FifoInv'
  <2>1. CASE IntSchedules
    <3>1. /\ work["spim_receive"] = "idle"
          /\ work' = [work EXCEPT !["spim_receive"] = "queued"]
          /\ queue' = Append(queue, "spim_receive")
      BY <1>6, <2>1 DEF Measure, IntSchedules
    <3> QED BY <1>0, <3>1, FifoAdded
  <2>2. CASE ~IntSchedules
    BY <1>0, <1>6, <2>2, FifoUnchanged DEF Measure
  <2> QED BY <2>1, <2>2
<1>7. CASE ReceiveStart
  <2>1. /\ Runs("spim_receive") /\ queue' = Tail(queue)
        /\ work' = [work EXCEPT !["spim_receive"] = "idle"]
    BY <1>7 DEF ReceiveStart, Taken
  <2> QED BY <1>0, <2>1, FifoTaken
<1>8. CASE \/ MainFails \/ ReceivePublish \/ ReceiveDrop \/ PinChanges
           \/ UNCHANGED vars
  <2>1. UNCHANGED <<work, queue>>
    BY <1>8 DEF MainFails, ReceivePublish, ReceiveDrop, PinChanges, vars
  <2> QED BY <1>0, <2>1, FifoUnchanged
<1>9. CASE Tick
  BY <1>9, TickFifo
<1> QED
  BY <1>1, <1>3, <1>4, <1>5, <1>6, <1>7, <1>8, <1>9 DEF Next

LEMMA FifoInductive == Spec => []FifoInv
<1>1. Init => FifoInv
  BY FifoEmpty DEF Init
<1>2. IInv /\ TimedInv /\ FifoInv /\ [Next]_vars => FifoInv'
  BY NextFifoInv DEF TimedInv
<1> QED BY <1>1, <1>2, Inductive, TimedInductive, PTL DEF Spec

-----------------------------------------------------------------------------
(* The results.                                                            *)

\* The chain of supervise and poweroff never breaks and never doubles.
THEOREM PairTheorem == Spec => []OneOfThePairPending
<1>1. IInv => OneOfThePairPending
  BY DEF IInv, PairInv, OneOfThePairPending
<1> QED BY <1>1, Inductive, PTL

\* No interrupt of the sensor is lost.
THEOREM ReadingTheorem == Spec => []PagesUpToDate
<1>1. IInv => PagesUpToDate
  BY DEF IInv, ReadingInv, PagesUpToDate
<1> QED BY <1>1, Inductive, PTL

\* The work items, the queue and the transfer stay in their states.
THEOREM TypeTheorem == Spec => []TypeOK
BY TimedInductive, PTL DEF TimedInv

\* For all delays the device switches off only for a low sample that is
\* SYS_POWEROFF_DELAY old.
THEOREM OffTheorem == Spec => OffOnlyAfterDelay
<1>1. ASSUME TimedInv, PoweroffOk
      PROVE  sample = "low" /\ sample_age = SYS_POWEROFF_DELAY
  BY <1>1 DEF PoweroffOk, Runs, TimedInv, DelayInv, Pending
<1>2. ASSUME Next, power = "on", power' = "off" PROVE PoweroffOk
  BY <1>2 DEF Next, MainDone, MainFails, Supervise, PoweroffFails, Measure,
              ReceiveStart, ReceivePublish, ReceiveDrop, Tick, PinChanges,
              WakeUp, Reboot
<1>3. TimedInv /\ [Next]_vars =>
        [power = "on" /\ power' = "off" =>
           sample = "low" /\ sample_age = SYS_POWEROFF_DELAY]_vars
  BY <1>1, <1>2
<1> QED BY <1>3, TimedInductive, PTL DEF Spec, OffOnlyAfterDelay

\* No scheduled handler is forgotten and none runs twice for one scheduling:
\* an item is in the FIFO exactly while its flag says so, and the head of the
\* FIFO is always an item the workqueue can run.  Of the three items at most
\* two wait, because supervise and poweroff alternate (k_work_schedule in
\* main.c and spi.c).
THEOREM FifoTheorem ==
  Spec => [](/\ Len(queue) <= 2
             /\ \A w \in Works :
                  work[w] = "queued" <=> \E i \in 1 .. Len(queue) : queue[i] = w
             /\ power = "on" /\ transfer = "none" /\ queue # <<>> =>
                  Runs(Head(queue)))
<1>1. ASSUME IInv, TypeOK, FifoInv
      PROVE  /\ Len(queue) <= 2
             /\ \A w \in Works :
                  work[w] = "queued" <=> \E i \in 1 .. Len(queue) : queue[i] = w
             /\ power = "on" /\ transfer = "none" /\ queue # <<>> =>
                  Runs(Head(queue))
  <2>1. /\ queue \in Seq(Works) /\ Len(queue) \in Nat
        /\ \A i \in 1 .. Len(queue) : queue[i] \in Works
    BY <1>1 DEF TypeOK
  <2>2. \A i \in 1 .. Len(queue) : work[queue[i]] = "queued"
    BY <1>1, <2>1 DEF FifoInv, In
  <2>3. ASSUME Len(queue) > 2 PROVE FALSE
    <3>1. /\ {queue[1], queue[2], queue[3]} \subseteq Works
          /\ queue[1] # queue[2] /\ queue[1] # queue[3] /\ queue[2] # queue[3]
      BY <1>1, <2>1, <2>3 DEF FifoInv, Distinct
    <3>2. /\ work["supervision"] = "queued" /\ work["poweroff"] = "queued"
      BY <2>1, <2>2, <2>3, <3>1 DEF Works
    <3> QED BY <1>1, <3>2 DEF IInv, PairInv, Pending, TypeOK
  <2>4. queue # <<>> => Head(queue) = queue[1] /\ 1 \in 1 .. Len(queue)
    BY <2>1
  <2> QED BY <1>1, <2>1, <2>2, <2>3, <2>4 DEF FifoInv, In, Runs
<1> QED BY <1>1, Inductive, TimedInductive, FifoInductive, PTL DEF TimedInv
=============================================================================
