------------------------- MODULE AntTpmsSens_proofs -------------------------
(***************************************************************************)
(* Proofs about AntTpmsSens: for every choice of slots, counter width and  *)
(* requests the rotation repeats the common pages in time, and requests    *)
(* are honoured.                                                           *)
(*                                                                         *)
(* The bounds on gap are not inductive: they say nothing of where the      *)
(* counter stands.  RotationInv adds how many frames without a request it  *)
(* takes from here until a page is due.                                    *)
(***************************************************************************)
EXTENDS AntTpmsSens, TLAPS

Slot(p) == IF p = 80 THEN COMMON_PAGE_80_INTERVAL
           ELSE IF p = 81 THEN COMMON_PAGE_81_INTERVAL
           ELSE COMMON_PAGE_82_INTERVAL

\* The slot of p has passed in the cycle that is running.
Passed(p) == Slot(p) < message_counter /\ message_counter <= COMMON_PAGE_82_INTERVAL

\* Frames that serve no request before the frame that carries p.
Distance(p) ==
  IF message_counter <= Slot(p) THEN Slot(p) - message_counter
  ELSE IF message_counter <= COMMON_PAGE_82_INTERVAL
       THEN COMMON_PAGE_82_INTERVAL + 1 - message_counter + Slot(p)
       ELSE CounterRange - message_counter + Slot(p)

\* A page that has had its slot in this cycle owes nothing to an overrun.
Bound(p) == IF overrun /\ ~Passed(p) THEN CounterRange - 1
                                     ELSE COMMON_PAGE_82_INTERVAL

RotationInv ==
  /\ ~overrun => message_counter <= COMMON_PAGE_82_INTERVAL
  /\ \A p \in BackgroundPages : gap[p] + Distance(p) <= Bound(p)

IInv == TypeOK /\ RotationInv

-----------------------------------------------------------------------------
(* The invariants hold initially and are kept by every step.               *)

\* What the loop of next_page_number_get leaves is a request.
LEMMA ControllerTyped ==
  ASSUME request \in Request
  PROVE  ControllerAfterLoop \in Request
<1>1. request.transmit_count \in Nat
  BY DEF Request
<1>2. ASSUME Pending PROVE Taken \in Request
  <2>1. request.transmit_count - 1 \in Nat
    BY <1>1, <1>2 DEF Pending
  <2>2. (IF request.ack THEN "ACK_NEEDED" ELSE request.state)
          \in {"IDLE", "ACK_NEEDED"}
    BY DEF Request
  <2> QED BY <2>1, <2>2 DEF Taken, Request
<1> QED BY <1>2 DEF ControllerAfterLoop, ResetController, Request

\* The counter stays in its uint8_t range, the controller in its states.
THEOREM Typing == Spec => []TypeOK
<1> USE SlotAssumption, RequestAssumption
<1>1. Init => TypeOK
  <2> SUFFICES ASSUME Init PROVE TypeOK
    OBVIOUS
  <2>1. 0 \in 0 .. CounterRange - 1
    OBVIOUS
  <2> QED BY <2>1 DEF Init, TypeOK, Request, Frame, TpmsPages, BackgroundPages
<1>2. TypeOK /\ [Next]_vars => TypeOK'
  <2> SUFFICES ASSUME TypeOK, [Next]_vars PROVE TypeOK'
    OBVIOUS
  <2>1. ASSUME ant_message_send, RecordFrame, channel' \in {"closed", "open"}
        PROVE  TypeOK'
    <3>1. message_counter' \in 0 .. CounterRange - 1
      BY <2>1 DEF ant_message_send, NextCounter, TypeOK
    <3>2. request' \in Request
      <4>1. ControllerAfterLoop \in Request
        BY ControllerTyped DEF TypeOK
      <4> QED BY <2>1, <4>1 DEF ant_message_send, Request
    <3>3. tx' \in Frame
      BY <2>1 DEF ant_message_send, NextPage, ServesRequest, RotationPage,
                  TxKind, TypeOK, Frame, TpmsPages, BackgroundPages
    <3>4. gap' \in [BackgroundPages -> Nat] /\ overrun' \in BOOLEAN
      BY <2>1, SlotAssumption DEF RecordFrame, TypeOK
    <3>5. asked' \in Nat /\ served' \in Nat
      BY <2>1 DEF RecordFrame, TypeOK
    <3> QED BY <2>1, <3>1, <3>2, <3>3, <3>4, <3>5 DEF TypeOK
  <2>2. CASE SensOpen
    BY <2>1, <2>2 DEF SensOpen
  <2>3. CASE EventTx
    BY <2>1, <2>3 DEF EventTx, TypeOK
  <2>4. ASSUME NEW page \in RequestedPages, NEW count \in 0 .. MaxTransmitCount,
               NEW ack \in BOOLEAN, EventRxRequest(page, count, ack)
        PROVE  TypeOK'
    <3>1. page \in Nat /\ count \in Nat
      OBVIOUS
    <3>2. request' \in Request
      BY <2>4, <3>1 DEF EventRxRequest, TypeOK, Request
    <3> QED BY <2>4, <3>1, <3>2 DEF EventRxRequest, TypeOK
  <2>5. CASE UNCHANGED vars
    BY <2>5 DEF vars, TypeOK
  <2> QED BY <2>2, <2>3, <2>4, <2>5 DEF Next
<1> QED BY <1>1, <1>2, PTL DEF Spec

\* A frame, and with it the whole state, keeps RotationInv.
LEMMA FrameKeepsRotation ==
  ASSUME TypeOK, RotationInv, ant_message_send, RecordFrame
  PROVE  RotationInv'
<1> USE SlotAssumption
<1>1. /\ message_counter \in Nat /\ message_counter < CounterRange
      /\ overrun \in BOOLEAN
      /\ \A p \in BackgroundPages : gap[p] \in Nat
  BY DEF TypeOK
<1>2. /\ ServesRequest \in BOOLEAN
      /\ RotationPage \in {1, 80, 81, 82}
      /\ RotationPage = 80 <=> message_counter = COMMON_PAGE_80_INTERVAL
      /\ RotationPage = 81 <=> message_counter = COMMON_PAGE_81_INTERVAL
      /\ RotationPage = 82 <=> message_counter = COMMON_PAGE_82_INTERVAL
  BY <1>1 DEF ServesRequest, Pending, RotationPage
<1>3. message_counter' = IF ~ServesRequest /\ message_counter = COMMON_PAGE_82_INTERVAL
                         THEN 0
                         ELSE IF message_counter + 1 = CounterRange
                              THEN 0 ELSE message_counter + 1
  BY <1>1, <1>2 DEF ant_message_send, NextCounter
<1>4. overrun' = \/ ServesRequest /\ message_counter = COMMON_PAGE_82_INTERVAL
                 \/ overrun /\ ~(~ServesRequest /\ message_counter = COMMON_PAGE_82_INTERVAL)
  BY <1>2 DEF RecordFrame, NextPage
<1>5. ASSUME NEW p \in BackgroundPages
      PROVE  gap'[p] = IF ServesRequest \/ message_counter = Slot(p)
                       THEN 0
                       ELSE IF gap[p] < CounterRange THEN gap[p] + 1
                            ELSE gap[p]
  BY <1>2 DEF RecordFrame, NextPage, Slot, BackgroundPages
<1>6. (~overrun => message_counter <= COMMON_PAGE_82_INTERVAL)'
  BY <1>1, <1>3, <1>4 DEF RotationInv
<1>7. ASSUME NEW p \in BackgroundPages
      PROVE  (gap[p] + Distance(p) <= Bound(p))'
  <2>1. Slot(p) \in Nat /\ Slot(p) <= COMMON_PAGE_82_INTERVAL
    BY DEF Slot, BackgroundPages
  <2>2. Slot(p)' = Slot(p)
    BY DEF Slot
  <2>3. gap[p] \in Nat /\ gap[p] + Distance(p) <= Bound(p)
    BY <1>1 DEF RotationInv
  <2>4. ~overrun => message_counter <= COMMON_PAGE_82_INTERVAL
    BY DEF RotationInv
  <2>5. CASE ServesRequest
    BY <1>1, <1>3, <1>4, <1>5, <2>1, <2>2, <2>4, <2>5
       DEF Distance, Bound, Passed
  <2>6. CASE ~ServesRequest
    BY <1>1, <1>3, <1>4, <1>5, <2>1, <2>2, <2>3, <2>4, <2>6
       DEF Distance, Bound, Passed
  <2> QED BY <1>2, <2>5, <2>6
<1> QED BY <1>6, <1>7 DEF RotationInv

LEMMA Rotation == Spec => []RotationInv
<1> USE SlotAssumption
<1>1. Init => RotationInv
  BY DEF Init, RotationInv, Distance, Bound, Passed, Slot, BackgroundPages
<1>2. TypeOK /\ RotationInv /\ [Next]_vars => RotationInv'
  <2> SUFFICES ASSUME TypeOK, RotationInv, [Next]_vars PROVE RotationInv'
    OBVIOUS
  <2>1. CASE SensOpen
    BY <2>1, FrameKeepsRotation DEF SensOpen
  <2>2. CASE EventTx
    BY <2>2, FrameKeepsRotation DEF EventTx
  <2>3. ASSUME UNCHANGED <<message_counter, gap, overrun>>
        PROVE  RotationInv'
    BY <2>3 DEF RotationInv, Distance, Bound, Passed, Slot
  <2>4. ASSUME NEW page \in RequestedPages, NEW count \in 0 .. MaxTransmitCount,
               NEW ack \in BOOLEAN, EventRxRequest(page, count, ack)
        PROVE  RotationInv'
    BY <2>3, <2>4 DEF EventRxRequest
  <2>5. CASE UNCHANGED vars
    BY <2>3, <2>5 DEF vars
  <2> QED BY <2>1, <2>2, <2>4, <2>5 DEF Next
<1> QED BY <1>1, <1>2, Typing, PTL DEF Spec

-----------------------------------------------------------------------------
(* The results.                                                            *)

\* Without a request in slot 82 the common pages come back within one cycle.
THEOREM OneCycleTheorem == Spec => []OneCycle
<1>1. TypeOK /\ RotationInv => OneCycle
  BY SlotAssumption
     DEF TypeOK, RotationInv, OneCycle, Distance, Bound, Slot, BackgroundPages
<1> QED BY <1>1, Typing, Rotation, PTL

\* Whatever displays request, CounterRange frames without a request contain
\* every common page.
THEOREM WrapBoundTheorem == Spec => []WrapBound
<1>1. TypeOK /\ RotationInv => WrapBound
  BY SlotAssumption
     DEF TypeOK, RotationInv, WrapBound, Distance, Bound, Slot, BackgroundPages
<1> QED BY <1>1, Typing, Rotation, PTL

\* A known request is sent exactly as often as asked, an unknown one never.
THEOREM RequestsHonouredTheorem == Spec => []RequestsHonoured
<1>1. Init => RequestsHonoured
  BY DEF Init, RequestsHonoured, TpmsPages, BackgroundPages
<1>2. TypeOK /\ RequestsHonoured /\ [Next]_vars => RequestsHonoured'
  <2> SUFFICES ASSUME TypeOK, RequestsHonoured, [Next]_vars
               PROVE  RequestsHonoured'
    OBVIOUS
  <2>1. ASSUME ant_message_send, RecordFrame PROVE RequestsHonoured'
    <3>1. request \in Request /\ served \in Nat /\ asked \in Nat
      BY DEF TypeOK
    <3>2. CASE ~Pending
      BY <2>1, <3>1, <3>2
         DEF ant_message_send, RecordFrame, ControllerAfterLoop, ServesRequest,
             RequestsHonoured, Request
    <3>3. CASE Pending /\ request.page \in TpmsPages
      BY <2>1, <3>1, <3>3
         DEF ant_message_send, RecordFrame, ControllerAfterLoop, ServesRequest,
             Pending, Taken, RequestsHonoured, Request
    <3>4. CASE Pending /\ request.page \notin TpmsPages
      BY <2>1, <3>1, <3>4
         DEF ant_message_send, RecordFrame, ControllerAfterLoop, ServesRequest,
             ResetController, Taken, RequestsHonoured, Request
    <3> QED BY <3>2, <3>3, <3>4
  <2>2. CASE SensOpen
    BY <2>1, <2>2 DEF SensOpen
  <2>3. CASE EventTx
    BY <2>1, <2>3 DEF EventTx
  <2>4. ASSUME NEW page \in RequestedPages, NEW count \in 0 .. MaxTransmitCount,
               NEW ack \in BOOLEAN, EventRxRequest(page, count, ack)
        PROVE  RequestsHonoured'
    BY <2>4, RequestAssumption
       DEF EventRxRequest, RequestsHonoured, TypeOK, Request
  <2>5. CASE UNCHANGED vars
    BY <2>5 DEF vars, RequestsHonoured
  <2> QED BY <2>2, <2>3, <2>4, <2>5 DEF Next
<1> QED BY <1>1, <1>2, Typing, PTL DEF Spec
-----------------------------------------------------------------------------
(* The sensor implements PageSchedule.                                     *)

\* Between events the controller has no acknowledgement left to send.
ControllerIdle == request.state = "IDLE"

LEMMA Idle == Spec => []ControllerIdle
<1>1. Init => ControllerIdle
  BY DEF Init, ControllerIdle
<1>2. TypeOK /\ ControllerIdle /\ [Next]_vars => ControllerIdle'
  <2> SUFFICES ASSUME TypeOK, ControllerIdle, [Next]_vars
               PROVE  ControllerIdle'
    OBVIOUS
  <2>1. ASSUME ant_message_send PROVE ControllerIdle'
    <3>1. ControllerAfterLoop \in Request
      BY ControllerTyped DEF TypeOK
    <3> QED BY <2>1, <3>1 DEF ant_message_send, ControllerIdle, Request
  <2>2. CASE SensOpen
    BY <2>1, <2>2 DEF SensOpen
  <2>3. CASE EventTx
    BY <2>1, <2>3 DEF EventTx
  <2>4. ASSUME NEW page \in RequestedPages, NEW count \in 0 .. MaxTransmitCount,
               NEW acknowledge \in BOOLEAN,
               EventRxRequest(page, count, acknowledge)
        PROVE  ControllerIdle'
    BY <2>4 DEF EventRxRequest, ControllerIdle, TypeOK, Request
  <2>5. CASE UNCHANGED vars
    BY <2>5 DEF vars, ControllerIdle
  <2> QED BY <2>2, <2>3, <2>4, <2>5 DEF Next
<1> QED BY <1>1, <1>2, Typing, PTL DEF Spec

\* A frame is acknowledged exactly if it serves a request that asked for it.
THEOREM AcknowledgedTheorem == Spec => AcknowledgedOnRequest
<1> DEFINE Step == message_counter' # message_counter =>
             (tx'.kind = "acknowledged" <=> ServesRequest /\ request.ack)
<1>1. TypeOK /\ ControllerIdle /\ [Next]_vars => [Step]_vars
  <2> SUFFICES ASSUME TypeOK, ControllerIdle, Next
               PROVE  Step
    BY DEF vars
  <2>1. ASSUME ant_message_send PROVE Step
    <3>1. /\ request \in Request /\ request.state = "IDLE"
          /\ request.ack \in BOOLEAN
      BY DEF TypeOK, ControllerIdle, Request
    <3>2. tx'.kind = TxKind
      BY <2>1 DEF ant_message_send
    <3>3. CASE ServesRequest
      BY <3>1, <3>2, <3>3
         DEF TxKind, ServesRequest, ControllerAfterLoop, Taken, Request
    <3>4. CASE ~ServesRequest
      <4>1. ControllerAfterLoop.state = "IDLE"
        BY <3>1, <3>4
           DEF ServesRequest, ControllerAfterLoop, ResetController, Taken,
               Request
      <4> QED BY <3>2, <3>4, <4>1 DEF TxKind
    <3> QED BY <3>3, <3>4
  <2>2. CASE SensOpen \/ EventTx
    BY <2>1, <2>2 DEF SensOpen, EventTx
  <2>3. ASSUME NEW page \in RequestedPages, NEW count \in 0 .. MaxTransmitCount,
               NEW acknowledge \in BOOLEAN,
               EventRxRequest(page, count, acknowledge)
        PROVE  Step
    BY <2>3 DEF EventRxRequest
  <2> QED BY <2>2, <2>3 DEF Next
<1> QED BY <1>1, Typing, Idle, PTL DEF Spec, AcknowledgedOnRequest

\* A frame is one that the schedule may send next.
LEMMA FrameScheduled ==
  ASSUME TypeOK, ControllerIdle, WrapBound', ant_message_send, RecordFrame
  PROVE  Schedule!Send
<1>1. /\ request \in Request /\ request.transmit_count \in Nat
      /\ request.ack \in BOOLEAN /\ request.state = "IDLE"
  BY DEF TypeOK, Request, ControllerIdle
<1>2. CASE ServesRequest
  <2>1. /\ request.page \in TpmsPages /\ request.transmit_count > 0
        /\ ControllerAfterLoop = Taken
    BY <1>2 DEF ServesRequest, Pending, ControllerAfterLoop
  <2>2. /\ Taken.page = request.page /\ Taken.ack = request.ack
        /\ Taken.transmit_count = request.transmit_count - 1
        /\ Taken.state = IF request.ack THEN "ACK_NEEDED" ELSE "IDLE"
    BY <1>1 DEF Taken, Request
  <2>3. /\ request'.page = request.page /\ request'.ack = request.ack
        /\ request'.transmit_count = request.transmit_count - 1
    BY <2>1, <2>2 DEF ant_message_send
  <2>4. tx' = [page |-> request.page,
               kind |-> IF request.ack THEN "acknowledged" ELSE "broadcast"]
    BY <1>1, <1>2, <2>1, <2>2 DEF ant_message_send, NextPage, TxKind
  <2>5. gap' = [p \in BackgroundPages |-> 0]
    BY <1>2 DEF RecordFrame
  <2> QED BY <2>1, <2>3, <2>4, <2>5 DEF Schedule!Send, Schedule!Serve
<1>3. CASE ~ServesRequest
  <2> DEFINE owed == IF request.page \in TpmsPages
                     THEN request.transmit_count ELSE 0
  <2>1. owed = 0
    BY <1>1, <1>3 DEF ServesRequest, Pending
  <2>2. /\ request'.page = request.page /\ request'.ack = request.ack
        /\ owed' = 0 /\ ControllerAfterLoop.state = "IDLE"
    <3>1. CASE ~Pending
      BY <1>1, <2>1, <3>1 DEF ControllerAfterLoop, ant_message_send, Request
    <3>2. CASE Pending
      <4>1. /\ request.page \notin TpmsPages
            /\ ControllerAfterLoop = ResetController(Taken)
        BY <1>3, <3>2 DEF ServesRequest, ControllerAfterLoop
      <4>2. /\ ResetController(Taken).page = request.page
            /\ ResetController(Taken).ack = request.ack
            /\ ResetController(Taken).transmit_count = 0
            /\ ResetController(Taken).state = "IDLE"
        BY <1>1 DEF ResetController, Taken, Request
      <4>3. request' = [ResetController(Taken) EXCEPT !.state = "IDLE"]
        BY <4>1 DEF ant_message_send
      <4> QED BY <1>1, <4>1, <4>2, <4>3 DEF ResetController, Taken, Request
    <3> QED BY <3>1, <3>2
  <2>3. tx' = [page |-> RotationPage, kind |-> "broadcast"]
    BY <1>3, <2>2 DEF ant_message_send, NextPage, TxKind
  <2>4. RotationPage \in BackgroundPages \cup {1}
    BY DEF RotationPage, BackgroundPages
  <2>5. gap' = [p \in BackgroundPages |->
                  IF p = RotationPage THEN 0 ELSE gap[p] + 1]
    <3>1. gap' = [p \in BackgroundPages |->
                    IF RotationPage = p THEN 0
                    ELSE IF gap[p] < CounterRange THEN gap[p] + 1 ELSE gap[p]]
      BY <1>3 DEF RecordFrame, NextPage
    <3>2. \A p \in BackgroundPages :
            gap[p] \in Nat /\ gap'[p] < CounterRange
      BY DEF TypeOK, WrapBound
    <3>3. \A p \in BackgroundPages :
            RotationPage # p => gap[p] < CounterRange
      BY <3>1, <3>2
    <3> QED BY <3>1, <3>3
  <2>6. \A p \in BackgroundPages : gap'[p] < CounterRange
    BY DEF WrapBound
  <2>7. Schedule!Rotate(RotationPage)
    BY <2>1, <2>2, <2>3, <2>5, <2>6 DEF Schedule!Rotate
  <2> QED BY <2>4, <2>7 DEF Schedule!Send
<1> QED BY <1>2, <1>3

\* For every choice of slots and requests: each frame, its page and its kind
\* is one that PageSchedule may send next.
THEOREM ScheduleTheorem == Spec => ScheduleKept
<1>1. Init => Schedule!Init
  BY DEF Init, Schedule!Init
<1>2. TypeOK /\ ControllerIdle /\ WrapBound' /\ [Next]_vars
        => [Schedule!Next]_Schedule!vars
  <2> SUFFICES ASSUME TypeOK, ControllerIdle, WrapBound', [Next]_vars
               PROVE  [Schedule!Next]_Schedule!vars
    OBVIOUS
  <2>1. CASE SensOpen
    BY <2>1, FrameScheduled DEF SensOpen, Schedule!Next
  <2>2. CASE EventTx
    BY <2>2, FrameScheduled DEF EventTx, Schedule!Next
  <2>3. ASSUME NEW page \in RequestedPages, NEW count \in 0 .. MaxTransmitCount,
               NEW acknowledge \in BOOLEAN,
               EventRxRequest(page, count, acknowledge)
        PROVE  Schedule!Next
    <3>1. /\ request'.page = page /\ request'.transmit_count = count
          /\ request'.ack = acknowledge /\ UNCHANGED <<tx, gap>>
      BY <2>3 DEF EventRxRequest, TypeOK, Request
    <3>2. Schedule!Request(page, count, acknowledge)
      BY <3>1 DEF Schedule!Request
    <3> QED BY <3>2 DEF Schedule!Next
  <2>4. CASE UNCHANGED vars
    BY <2>4 DEF vars, Schedule!vars
  <2> QED BY <2>1, <2>2, <2>3, <2>4 DEF Next
<1> QED BY <1>1, <1>2, Typing, Idle, WrapBoundTheorem, PTL
        DEF Spec, ScheduleKept, Schedule!Spec
=============================================================================
