---------------------------- MODULE AntTpmsSens ----------------------------
(***************************************************************************)
(* The transmit side of the ANT+ TPMS sensor profile (ant_tpms.c).         *)
(*                                                                         *)
(* Every channel period the radio raises EVENT_TX and the profile chooses  *)
(* the page of the next frame: a page a display has requested (page 70),   *)
(* else page 1, with the common pages 80, 81 and 82 in fixed slots of a    *)
(* uint8_t message counter.  Display requests arrive between frames and    *)
(* are kept by the request controller of the Nordic ANT profiles, a        *)
(* library outside this repository; it is modelled from how                *)
(* next_page_number_get and ant_message_send use it.                       *)
(*                                                                         *)
(* All handlers run in the ANT event context, one event at a time, so an   *)
(* event is one action.                                                    *)
(***************************************************************************)
EXTENDS Naturals

CONSTANTS
  COMMON_PAGE_80_INTERVAL,   \* slots of the common pages in the cycle;
  COMMON_PAGE_81_INTERVAL,   \* 119, 120 and 121 in the code
  COMMON_PAGE_82_INTERVAL,
  CounterRange,              \* values of message_counter: 2^8
  RequestedPages,            \* page numbers displays ask for, known or not
  MaxTransmitCount           \* largest transmit count in a request (7 bits)

\* The slots are in order and below the point where the counter wraps.
ASSUME SlotAssumption ==
  /\ COMMON_PAGE_80_INTERVAL \in Nat
  /\ COMMON_PAGE_81_INTERVAL \in Nat
  /\ COMMON_PAGE_82_INTERVAL \in Nat
  /\ CounterRange \in Nat
  /\ COMMON_PAGE_80_INTERVAL < COMMON_PAGE_81_INTERVAL
  /\ COMMON_PAGE_81_INTERVAL < COMMON_PAGE_82_INTERVAL
  /\ COMMON_PAGE_82_INTERVAL + 1 < CounterRange

ASSUME RequestAssumption ==
  /\ RequestedPages \subseteq Nat
  /\ MaxTransmitCount \in Nat

BackgroundPages == {80, 81, 82}
TpmsPages == {1, 16} \cup BackgroundPages

VARIABLES
  message_counter,  \* p_sens_cb->message_counter
  channel,          \* "closed" until ant_tpms_sens_open has filled the buffer
  request,          \* the request controller: last page 70 and its state
  tx,               \* the frame handed to the radio last
  \* History variables, read by the properties only:
  gap,      \* frames since the page was sent or a request was served, counted
            \* up to CounterRange
  overrun,  \* a request took slot 82, and page 82 has not been sent since
  asked,    \* transmissions the last request asked for
  served    \* frames sent for it so far

vars == <<message_counter, channel, request, tx, gap, overrun, asked, served>>

Request == [page : Nat, transmit_count : Nat, ack : BOOLEAN,
            state : {"IDLE", "ACK_NEEDED"}]

Frame == [page : TpmsPages, kind : {"none", "broadcast", "acknowledged"}]

TypeOK ==
  /\ message_counter \in 0 .. CounterRange - 1
  /\ channel \in {"closed", "open"}
  /\ request \in Request
  /\ tx \in Frame
  /\ gap \in [BackgroundPages -> Nat]
  /\ overrun \in BOOLEAN
  /\ asked \in Nat
  /\ served \in Nat

-----------------------------------------------------------------------------
(* The request controller, as the profile uses it.                         *)

\* ant_request_controller_pending_get returns true.
Pending == request.transmit_count > 0

\* ... and then counts one transmission off, and notes that the display
\* wants it acknowledged.
Taken == [request EXCEPT !.transmit_count = @ - 1,
                         !.state = IF request.ack THEN "ACK_NEEDED" ELSE @]

\* (A slip: the reset forgets the state.)
ResetCountOnly(r) == [r EXCEPT !.transmit_count = 0]

\* The controller as next_page_number_get resets it on an unknown page; the
\* transmission taken off the request does not survive the reset.
ResetController(r) == [r EXCEPT !.transmit_count = 0, !.state = "IDLE"]

\* The controller when the while loop of next_page_number_get is left.
ControllerAfterLoop ==
  IF ~Pending THEN request
  ELSE IF request.page \in TpmsPages THEN Taken
  ELSE ResetController(Taken)

-----------------------------------------------------------------------------
(* next_page_number_get                                                    *)

\* (A slip: page 16, which the rotation never sends, is not returned.)
ServesRequestNot16 == Pending /\ request.page \in TpmsPages \ {16}

\* The early return out of the loop: the frame carries the requested page.
ServesRequest == Pending /\ request.page \in TpmsPages

\* The page of the slot that is due.
RotationPage ==
  CASE message_counter = COMMON_PAGE_80_INTERVAL -> 80
    [] message_counter = COMMON_PAGE_81_INTERVAL -> 81
    [] message_counter = COMMON_PAGE_82_INTERVAL -> 82
    [] OTHER -> 1

NextPage == IF ServesRequest THEN request.page ELSE RotationPage

\* (A slip: the counter is wider than its slots and never wraps.)
NextCounterUnwrapped ==
  IF ~ServesRequest /\ RotationPage = 82 THEN 0 ELSE message_counter + 1

\* (A slip: the reset of the counter is lost.)
NextCounterNoReset == (message_counter + 1) % CounterRange

\* (A slip: the counter is reset one case too early, with page 81.)
NextCounterResetEarly ==
  IF ~ServesRequest /\ RotationPage = 81
  THEN 0
  ELSE (message_counter + 1) % CounterRange

\* (A slip: the counter stops at its last slot.)
NextCounterSaturated ==
  IF message_counter = COMMON_PAGE_82_INTERVAL
  THEN message_counter
  ELSE (message_counter + 1) % CounterRange

\* The counter is incremented before the loop, and is reset only in the case
\* of slot 82, which the early return of a served request skips.
NextCounter ==
  IF ~ServesRequest /\ RotationPage = 82
  THEN 0
  ELSE (message_counter + 1) % CounterRange

-----------------------------------------------------------------------------
(* ant_message_send: encode the next page, then hand the frame over,       *)
(* acknowledged or broadcast; ack_needed clears the controller's state.    *)

TxKind == IF ControllerAfterLoop.state = "ACK_NEEDED" THEN "acknowledged"
                                                      ELSE "broadcast"

ant_message_send ==
  /\ message_counter' = NextCounter
  /\ request' = [ControllerAfterLoop EXCEPT !.state = "IDLE"]
  /\ tx' = [page |-> NextPage, kind |-> TxKind]

\* The history of a frame.
RecordFrame ==
  /\ gap' = [p \in BackgroundPages |->
               IF ServesRequest \/ NextPage = p THEN 0
               ELSE IF gap[p] < CounterRange THEN gap[p] + 1 ELSE gap[p]]
  /\ overrun' = \/ ServesRequest /\ message_counter = COMMON_PAGE_82_INTERVAL
                \/ overrun /\ ~(~ServesRequest /\ NextPage = 82)
  /\ served' = IF ServesRequest THEN served + 1 ELSE served
  /\ UNCHANGED asked

\* ant_tpms_sens_open: the first frame is queued, then the channel opens.
SensOpen ==
  /\ channel = "closed"
  /\ ant_message_send
  /\ RecordFrame
  /\ channel' = "open"

\* EVENT_TX: a frame has gone out, the next one is queued.
EventTx ==
  /\ channel = "open"
  /\ ant_message_send
  /\ RecordFrame
  /\ UNCHANGED channel

\* EVENT_RX of an acknowledged page 70: sens_message_decode ignores the page,
\* the request controller takes it, replacing the request it still has.
EventRxRequest(page, count, ack) ==
  /\ channel = "open"
  /\ request' = [request EXCEPT !.page = page, !.transmit_count = count,
                                !.ack = ack]
  /\ asked' = count
  /\ served' = 0
  /\ UNCHANGED <<message_counter, channel, tx, gap, overrun>>

\* ant_tpms_sens_init: counter zero and an empty request controller.
Init ==
  /\ message_counter = 0
  /\ channel = "closed"
  /\ request = [page |-> 0, transmit_count |-> 0, ack |-> FALSE,
                state |-> "IDLE"]
  /\ tx = [page |-> 1, kind |-> "none"]
  /\ gap = [p \in BackgroundPages |-> 0]
  /\ overrun = FALSE
  /\ asked = 0
  /\ served = 0

Next ==
  \/ SensOpen
  \/ EventTx
  \/ \E page \in RequestedPages, count \in 0 .. MaxTransmitCount,
        ack \in BOOLEAN : EventRxRequest(page, count, ack)

Spec == Init /\ [][Next]_vars

\* The radio raises EVENT_TX every channel period whatever displays do.
FairSpec == Spec /\ WF_vars(SensOpen) /\ WF_vars(EventTx)
-----------------------------------------------------------------------------
(* Properties                                                              *)

\* While no request has taken slot 82, each of the common pages 80, 81 and
\* 82 is repeated within one cycle of COMMON_PAGE_82_INTERVAL + 1 frames,
\* counting from the last request served (next_page_number_get).
OneCycle ==
  ~overrun => \A p \in BackgroundPages : gap[p] <= COMMON_PAGE_82_INTERVAL

\* A request served in slot 82 makes next_page_number_get skip the reset of
\* the counter, which then runs on until its uint8_t wraps.  Even so, any
\* CounterRange consecutive frames that serve no request contain each of the
\* common pages: no order of requests can starve the rotation for longer.
WrapBound ==
  \A p \in BackgroundPages : gap[p] < CounterRange

\* Until another request replaces it, a request for a page of the profile is
\* sent as often as it asked for, no frame fewer and no frame more; one for
\* an unknown page is dropped without costing a single frame.
RequestsHonoured ==
  IF request.page \in TpmsPages
  THEN served + request.transmit_count = asked
  ELSE served = 0

\* ant_message_send sends an acknowledged message exactly for the frames of a
\* request that asked for it: the acknowledgement a dropped request wanted
\* is never carried over to a frame of the rotation.
AcknowledgedOnRequest ==
  [][message_counter' # message_counter =>
       (tx'.kind = "acknowledged" <=> ServesRequest /\ request.ack)]_vars

\* Once displays stop asking, every common page is sent again and again.
RotationResumes ==
  \A p \in BackgroundPages : []<>Pending \/ []<>(tx.page = p)

\* The pages a display is sent, and when, as PageSchedule promises it: none is
\* put off by the counter's wrap for more than CounterRange frames.
Schedule == INSTANCE PageSchedule WITH
  MainPage <- 1,
  KnownPages <- TpmsPages,
  Limit <- CounterRange,
  frame <- tx,
  wait <- gap,
  wanted <- request.page,
  ack <- request.ack,
  owed <- IF request.page \in TpmsPages THEN request.transmit_count ELSE 0

\* Whatever displays request, the sensor keeps the promise of PageSchedule:
\* every frame, its page and its kind, is one the abstract schedule may send
\* next (next_page_number_get, ant_message_send).
ScheduleKept == Schedule!Spec

\* What the comments at the slots say (ant_tpms.c:28-30, "Minimum:
\* Interleave every 121 messages"): of any 121 messages one carries the page.
\* The cycle of slots 0 .. 121 has 122 messages.
InterleaveEvery121 ==
  \A p \in BackgroundPages : gap[p] < 121
=============================================================================
