---------------------------- MODULE AntTpmsLink ----------------------------
(***************************************************************************)
(* A sensor and a display over the air: both halves of ant_tpms.c.         *)
(*                                                                         *)
(* The sensor is AntTpmsSens, with what its pages 1 and 16 hold.  A frame  *)
(* is encoded when the one before it has gone out, and stays in the        *)
(* radio's buffer until it goes out itself; a display hears it or not.     *)
(* Having heard a frame, a display may send one acknowledged message in    *)
(* return: a request for a page (page 70) or a configuration command       *)
(* (page 16).  The message or its acknowledgement may be lost; then the    *)
(* display sends it again.  The firmware contains the display's half, but  *)
(* does not call it.                                                       *)
(***************************************************************************)
EXTENDS AntTpmsSens

CONSTANTS
  Readings,     \* contents of page 1
  Fields,       \* fields of page 16 that commands set
  Values,       \* their values
  Commands,     \* what commands set: functions from some fields to values
  Nothing       \* no page, no message, no command

Configurations == [Fields -> Values]

ASSUME LinkAssumption ==
  /\ Commands \subseteq UNION {[S -> Values] : S \in SUBSET Fields}
  /\ 16 \in RequestedPages
  /\ 1 <= MaxTransmitCount

VARIABLES
  page_1, page_16,    \* of the sensor's profile
  payload,            \* contents of the frame tx, as it has been encoded
  shown_1, shown_16,  \* page_1 and page_16 of the display's profile
  heard,              \* the display has heard the frame tx
  window,             \* it may send a message in return
  uplink,             \* the message the display is sending
  \* History variable, read by the properties only:
  settled             \* the display's last command that was acknowledged, and
                      \* what the display has done since to see the result

disp_vars == <<shown_1, shown_16, window, uplink, settled>>
link_vars == <<page_1, page_16, payload, heard, disp_vars>>
all_vars == <<vars, link_vars>>

RequestMessage == [page : {70}, requested : RequestedPages]
CommandMessage == [page : {16}, command : Commands]

LinkTypeOK ==
  /\ TypeOK
  /\ page_1 \in Readings
  /\ page_16 \in Configurations
  /\ payload \in Readings \cup Configurations \cup {Nothing}
  /\ shown_1 \in Readings \cup {Nothing}
  /\ shown_16 \in Configurations \cup {Nothing}
  /\ heard \in BOOLEAN
  /\ window \in BOOLEAN
  /\ uplink \in RequestMessage \cup CommandMessage \cup {Nothing}
  /\ settled \in [stage : {"none", "commanded", "requested", "answered"},
                  command : Commands \cup {Nothing}]

Unsettled == [stage |-> "none", command |-> Nothing]

-----------------------------------------------------------------------------
(* The sensor                                                              *)

\* (A slip: the case of page 1 falls through to that of page 16.)
EncodedFallingThrough(page) ==
  IF page \in {1, 16} THEN page_16 ELSE Nothing

\* sens_message_encode: the contents of the page that is sent next.
Encoded(page) ==
  CASE page = 1 -> page_1
    [] page = 16 -> page_16
    [] OTHER -> Nothing

\* (A slip: of several fields in a command only one is set.)
AppliedFirst(command) ==
  [f \in Fields |-> IF /\ f \in DOMAIN command
                       /\ f = CHOOSE first \in DOMAIN command : TRUE
                    THEN command[f] ELSE page_16[f]]

\* The config handler that sens_message_decode calls; Config has its steps.
Applied(command) ==
  [f \in Fields |-> IF f \in DOMAIN command THEN command[f] ELSE page_16[f]]

\* ant_tpms_sens_open, and EVENT_TX: the frame has gone out, the next one is
\* encoded.
SendFirst ==
  /\ SensOpen
  /\ payload' = Encoded(tx'.page)
  /\ heard' = FALSE
  /\ UNCHANGED <<page_1, page_16, disp_vars>>

SendNext ==
  /\ EventTx
  /\ payload' = Encoded(tx'.page)
  /\ heard' = FALSE
  /\ UNCHANGED <<page_1, page_16, disp_vars>>

\* The sensor data handler changes page 1.
Measure(reading) ==
  /\ page_1' = reading
  /\ UNCHANGED vars
  /\ UNCHANGED <<page_16, payload, heard, disp_vars>>

\* EVENT_RX of a message: a page 70 goes to the request controller, a page 16
\* through sens_message_decode to the configuration.
Deliver(message) ==
  /\ channel = "open"
  /\ \/ /\ message.page = 70
        /\ \E count \in 1 .. MaxTransmitCount, ack \in BOOLEAN :
             EventRxRequest(message.requested, count, ack)
        /\ UNCHANGED page_16
     \/ /\ message.page = 16
        /\ page_16' = Applied(message.command)
        /\ UNCHANGED vars
  /\ UNCHANGED <<page_1, payload, heard>>

-----------------------------------------------------------------------------
(* The display                                                             *)

\* The display hears the frame that goes out, broadcast or acknowledged
\* (ant_tpms_disp_evt_handler, disp_message_decode).  A frame for which this
\* action is not taken is lost.
Hear ==
  /\ channel = "open"
  /\ ~heard
  /\ heard' = TRUE
  /\ window' = TRUE
  /\ shown_1' = IF tx.page = 1 THEN payload ELSE shown_1
  /\ shown_16' = IF tx.page = 16 THEN payload ELSE shown_16
  /\ settled' = IF settled.stage = "requested" /\ tx.page = 16
                THEN [settled EXCEPT !.stage = "answered"] ELSE settled
  /\ UNCHANGED <<vars, page_1, page_16, payload, uplink>>

\* ant_tpms_request_data_page, or a command of the display's application:
\* the next message to send.
Submit(message) ==
  /\ uplink = Nothing
  /\ uplink' = message
  /\ UNCHANGED <<vars, page_1, page_16, payload, heard, shown_1, shown_16,
                 window, settled>>

\* What an acknowledgement tells the display.
SettledBy(message) ==
  CASE message.page = 16 ->
         [stage |-> "commanded", command |-> message.command]
    [] message = [page |-> 70, requested |-> 16] /\ settled.stage = "commanded" ->
         [settled EXCEPT !.stage = "requested"]
    [] OTHER -> settled

\* The message arrives and is acknowledged.
Exchange ==
  /\ window /\ uplink # Nothing
  /\ Deliver(uplink)
  /\ window' = FALSE
  /\ uplink' = Nothing
  /\ settled' = SettledBy(uplink)
  /\ UNCHANGED <<shown_1, shown_16>>

\* The message arrives, but not the acknowledgement: it will be sent again.
LoseAcknowledgement ==
  /\ window /\ uplink # Nothing
  /\ Deliver(uplink)
  /\ window' = FALSE
  /\ settled' = IF uplink.page = 16 THEN Unsettled ELSE settled
  /\ UNCHANGED <<shown_1, shown_16, uplink>>

\* The message does not arrive.
LoseMessage ==
  /\ window /\ uplink # Nothing
  /\ window' = FALSE
  /\ UNCHANGED <<vars, page_1, page_16, payload, heard, shown_1, shown_16,
                 uplink, settled>>

\* Another display sends a message.
OtherDisplay(message) ==
  /\ Deliver(message)
  /\ settled' = IF message.page = 16 THEN Unsettled ELSE settled
  /\ UNCHANGED <<shown_1, shown_16, window, uplink>>

-----------------------------------------------------------------------------

\* ant_tpms_sens_init and ant_tpms_disp_init.
LinkInit ==
  /\ Init
  /\ page_1 \in Readings
  /\ page_16 \in Configurations
  /\ payload = Nothing
  /\ heard = FALSE
  /\ shown_1 = Nothing
  /\ shown_16 = Nothing
  /\ window = FALSE
  /\ uplink = Nothing
  /\ settled = Unsettled

LinkNext ==
  \/ SendFirst \/ SendNext
  \/ \E reading \in Readings : Measure(reading)
  \/ Hear
  \/ Exchange \/ LoseAcknowledgement \/ LoseMessage
  \/ \E message \in RequestMessage \cup CommandMessage :
       Submit(message) \/ OtherDisplay(message)

LinkSpec == LinkInit /\ [][LinkNext]_all_vars

\* The sensor sends every channel period; the channel does not lose every
\* frame with page 1.
LinkFairSpec ==
  /\ LinkSpec
  /\ WF_all_vars(SendFirst) /\ WF_all_vars(SendNext)
  /\ SF_all_vars(Hear /\ tx.page = 1)

-----------------------------------------------------------------------------
(* Properties                                                              *)

\* A display reads its settings back: it commands, then requests page 16,
\* both acknowledged, and the page 16 it hears after that shows what it has
\* commanded (unless a later command, its own or another display's, has
\* changed the settings).  The frame that waits in the radio may have been
\* encoded before the command, requests of others may be pending, and
\* messages arrive twice (sens_message_decode, sens_message_encode).
ReadBack ==
  settled.stage = "answered" =>
    \A f \in DOMAIN settled.command : shown_16[f] = settled.command[f]

\* A display requests a page.
Requests ==
  \E page \in RequestedPages, count \in 1 .. MaxTransmitCount, ack \in BOOLEAN :
    EventRxRequest(page, count, ack)

\* Once displays stop requesting pages, a page 1 that no longer changes is
\* what a display shows in the end: requests are used up, the rotation goes
\* on to page 1, and no older frame comes after (next_page_number_get).
ReadingsArrive ==
  \A reading \in Readings :
    <>[](page_1 = reading) => []<><<Requests>>_vars \/ <>[](shown_1 = reading)
=============================================================================
