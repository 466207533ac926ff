------------------------- MODULE AntTpmsLink_proofs -------------------------
(***************************************************************************)
(* Proofs about the sensor and a display over the air: the sensor behaves  *)
(* as AntTpmsSens says, so that what is proved there holds here; and a     *)
(* display reads its settings back.                                        *)
(***************************************************************************)
EXTENDS AntTpmsLink, AntTpmsSens_proofs

Messages == RequestMessage \cup CommandMessage

UplinkOK == uplink \in Messages \cup {Nothing}

LEMMA MessagePages ==
  /\ \A m \in RequestMessage : m.page = 70 /\ m.requested \in RequestedPages
  /\ \A m \in CommandMessage : m.page = 16 /\ m.command \in Commands
BY DEF RequestMessage, CommandMessage

LEMMA UplinkTyped == LinkSpec => []UplinkOK
<1>1. LinkInit => UplinkOK
  BY DEF LinkInit, UplinkOK
<1>2. UplinkOK /\ [LinkNext]_all_vars => UplinkOK'
  BY DEF UplinkOK, Messages, LinkNext, all_vars, link_vars, disp_vars, SendFirst,
         SendNext, Measure, Hear, Exchange, LoseAcknowledgement, LoseMessage,
         Submit, OtherDisplay
<1> QED BY <1>1, <1>2, PTL DEF LinkSpec

\* A message that arrives is a request to the sensor, or leaves the radio's
\* side of it as it is.
LEMMA DeliverStep ==
  ASSUME NEW message \in Messages, Deliver(message)
  PROVE  [Next]_vars
<1>1. CASE message \in RequestMessage
  <2>1. message.page = 70 /\ message.requested \in RequestedPages
    BY <1>1, MessagePages
  <2>2. PICK count \in 1 .. MaxTransmitCount, ack \in BOOLEAN :
          EventRxRequest(message.requested, count, ack)
    BY <2>1 DEF Deliver
  <2>3. count \in 0 .. MaxTransmitCount
    BY RequestAssumption
  <2> QED BY <2>1, <2>2, <2>3 DEF Next
<1>2. CASE message \in CommandMessage
  <2>1. message.page = 16
    BY <1>2, MessagePages
  <2> QED BY <2>1 DEF Deliver
<1> QED BY <1>1, <1>2 DEF Messages

\* Every step of the link is a step of the sensor, or leaves it as it is.
LEMMA SensorStep == UplinkOK /\ [LinkNext]_all_vars => [Next]_vars
<1> SUFFICES ASSUME UplinkOK, [LinkNext]_all_vars PROVE [Next]_vars
  OBVIOUS
<1>1. CASE UNCHANGED all_vars
  BY <1>1 DEF all_vars
<1>2. CASE SendFirst
  BY <1>2 DEF SendFirst, Next
<1>3. CASE SendNext
  BY <1>3 DEF SendNext, Next
<1>4. ASSUME NEW reading \in Readings, Measure(reading)
      PROVE  [Next]_vars
  BY <1>4 DEF Measure
<1>5. CASE Hear
  BY <1>5 DEF Hear
<1>6. CASE Exchange \/ LoseAcknowledgement
  <2>1. uplink \in Messages /\ Deliver(uplink)
    BY <1>6 DEF Exchange, LoseAcknowledgement, UplinkOK
  <2> QED BY <2>1, DeliverStep
<1>7. CASE LoseMessage
  BY <1>7 DEF LoseMessage
<1>8. ASSUME NEW message \in Messages, Submit(message) \/ OtherDisplay(message)
      PROVE  [Next]_vars
  <2>1. CASE Submit(message)
    BY <2>1 DEF Submit
  <2>2. CASE OtherDisplay(message)
    BY <2>2, DeliverStep DEF OtherDisplay
  <2> QED BY <1>8, <2>1, <2>2
<1> QED BY <1>1, <1>2, <1>3, <1>4, <1>5, <1>6, <1>7, <1>8 DEF LinkNext, Messages

\* Whatever displays send and whatever is lost, the sensor behaves as
\* AntTpmsSens says.
THEOREM LinkImplementsSensor == LinkSpec => Spec
<1>1. LinkInit => Init
  BY DEF LinkInit
<1> QED BY <1>1, SensorStep, UplinkTyped, PTL DEF LinkSpec, Spec

\* So the rotation of the common pages holds over the air as well
\* (next_page_number_get).
THEOREM LinkRotation == LinkSpec => [](OneCycle /\ WrapBound /\ RequestsHonoured)
BY LinkImplementsSensor, OneCycleTheorem, WrapBoundTheorem,
   RequestsHonouredTheorem, PTL

\* And whatever displays do to each other's requests, the frames over the air
\* are those PageSchedule promises (next_page_number_get, ant_message_send).
THEOREM LinkSchedule == LinkSpec => ScheduleKept
BY LinkImplementsSensor, ScheduleTheorem, PTL

-----------------------------------------------------------------------------
(* Types                                                                   *)

Stages == {"none", "commanded", "requested", "answered"}

\* The frame in the radio holds the contents of its page.
PayloadTyped ==
  /\ payload \in Readings \cup Configurations \cup {Nothing}
  /\ tx.page = 1 => payload \in Readings \cup {Nothing}
  /\ tx.page = 16 => payload \in Configurations \cup {Nothing}

SettledTyped ==
  settled \in [stage : Stages, command : Commands \cup {Nothing}]

LinkTypeInv ==
  /\ page_1 \in Readings /\ page_16 \in Configurations
  /\ PayloadTyped
  /\ shown_1 \in Readings \cup {Nothing}
  /\ shown_16 \in Configurations \cup {Nothing}
  /\ heard \in BOOLEAN /\ window \in BOOLEAN
  /\ SettledTyped

\* A command leaves a value in every field.
LEMMA AppliedTyped ==
  ASSUME NEW command \in Commands, page_16 \in Configurations
  PROVE  Applied(command) \in Configurations
<1>1. PICK S \in SUBSET Fields : command \in [S -> Values]
  BY LinkAssumption
<1>2. \A f \in Fields : (IF f \in DOMAIN command THEN command[f] ELSE page_16[f])
                          \in Values
  BY <1>1 DEF Configurations
<1> QED BY <1>2 DEF Applied, Configurations

\* What a message that arrives leaves of the sensor's side of the link.
LEMMA DeliverTyped ==
  ASSUME NEW message \in Messages, Deliver(message), LinkTypeInv
  PROVE  /\ page_16' \in Configurations
         /\ page_1' = page_1 /\ payload' = payload /\ heard' = heard /\ tx' = tx
<1>1. CASE message \in RequestMessage
  <2>1. message.page = 70
    BY <1>1, MessagePages
  <2>2. PICK count \in 1 .. MaxTransmitCount, ack \in BOOLEAN :
          EventRxRequest(message.requested, count, ack)
    BY <2>1 DEF Deliver
  <2>3. tx' = tx
    BY <2>2 DEF EventRxRequest
  <2> QED BY <2>1, <2>3 DEF Deliver, LinkTypeInv
<1>2. CASE message \in CommandMessage
  <2>1. message.page = 16 /\ message.command \in Commands
    BY <1>2, MessagePages
  <2>2. /\ page_16' = Applied(message.command)
        /\ page_1' = page_1 /\ payload' = payload /\ heard' = heard /\ tx' = tx
    BY <2>1 DEF Deliver, vars
  <2> QED BY <2>1, <2>2, AppliedTyped DEF LinkTypeInv
<1> QED BY <1>1, <1>2 DEF Messages

\* What an acknowledgement tells the display has the type of a settlement.
LEMMA SettledByTyped ==
  ASSUME NEW message \in Messages, SettledTyped
  PROVE  SettledBy(message) \in [stage : Stages, command : Commands \cup {Nothing}]
<1>1. CASE message \in RequestMessage
  BY <1>1, MessagePages DEF SettledBy, SettledTyped, Stages
<1>2. CASE message \in CommandMessage
  <2>1. message.command \in Commands
        /\ SettledBy(message) = [stage |-> "commanded", command |-> message.command]
    BY <1>2, MessagePages DEF SettledBy
  <2> QED BY <2>1 DEF Stages
<1> QED BY <1>1, <1>2 DEF Messages

LEMMA LinkTyped == LinkSpec => []LinkTypeInv
<1>1. LinkInit => LinkTypeInv
  <2>1. LinkInit => PayloadTyped
    BY DEF LinkInit, PayloadTyped
  <2>2. LinkInit => SettledTyped
    BY DEF LinkInit, SettledTyped, Unsettled, Stages
  <2> QED BY <2>1, <2>2 DEF LinkInit, LinkTypeInv
<1>2. UplinkOK /\ LinkTypeInv /\ [LinkNext]_all_vars => LinkTypeInv'
  <2> SUFFICES ASSUME UplinkOK, LinkTypeInv, [LinkNext]_all_vars
               PROVE  LinkTypeInv'
    OBVIOUS
  <2>1. CASE UNCHANGED all_vars
    BY <2>1 DEF all_vars, vars, link_vars, disp_vars, LinkTypeInv, PayloadTyped,
                SettledTyped
  <2>2. CASE SendFirst \/ SendNext
    <3>1. /\ payload' = Encoded(tx'.page) /\ heard' = FALSE
          /\ UNCHANGED <<page_1, page_16, disp_vars>>
      BY <2>2 DEF SendFirst, SendNext
    <3>2. PayloadTyped'
      BY <3>1 DEF PayloadTyped, Encoded, LinkTypeInv
    <3> QED BY <3>1, <3>2 DEF LinkTypeInv, disp_vars, SettledTyped
  <2>3. ASSUME NEW reading \in Readings, Measure(reading)
        PROVE  LinkTypeInv'
    BY <2>3 DEF Measure, vars, disp_vars, LinkTypeInv, PayloadTyped, SettledTyped
  <2>4. CASE Hear
    <3>1. SettledTyped'
      BY <2>4 DEF Hear, LinkTypeInv, SettledTyped, Stages
    <3>2. PayloadTyped'
      BY <2>4 DEF Hear, LinkTypeInv, PayloadTyped, vars
    <3> QED BY <2>4, <3>1, <3>2 DEF Hear, LinkTypeInv, PayloadTyped
  <2>5. CASE LoseMessage
    BY <2>5 DEF LoseMessage, vars, LinkTypeInv, PayloadTyped, SettledTyped
  <2>6. ASSUME NEW message \in Messages, Submit(message)
        PROVE  LinkTypeInv'
    BY <2>6 DEF Submit, vars, LinkTypeInv, PayloadTyped, SettledTyped
  <2>7. ASSUME NEW message \in Messages, Deliver(message), SettledTyped',
               UNCHANGED <<shown_1, shown_16>>, window' \in BOOLEAN
        PROVE  LinkTypeInv'
    BY <2>7, DeliverTyped DEF LinkTypeInv, PayloadTyped
  <2>8. CASE Exchange
    <3>1. SettledTyped'
      BY <2>8, SettledByTyped DEF Exchange, UplinkOK, LinkTypeInv, SettledTyped
    <3> QED BY <2>7, <2>8, <3>1 DEF Exchange, UplinkOK
  <2>9. Unsettled \in [stage : Stages, command : Commands \cup {Nothing}]
    BY DEF Unsettled, Stages
  <2>10. CASE LoseAcknowledgement
    <3>1. SettledTyped'
      BY <2>9, <2>10 DEF LoseAcknowledgement, LinkTypeInv, SettledTyped
    <3> QED BY <2>7, <2>10, <3>1 DEF LoseAcknowledgement, UplinkOK
  <2>11. ASSUME NEW message \in Messages, OtherDisplay(message)
         PROVE  LinkTypeInv'
    <3>1. SettledTyped' /\ window' \in BOOLEAN
      BY <2>9, <2>11 DEF OtherDisplay, LinkTypeInv, SettledTyped
    <3> QED BY <2>7, <2>11, <3>1 DEF OtherDisplay
  <2> QED BY <2>1, <2>2, <2>3, <2>4, <2>5, <2>6, <2>8, <2>10, <2>11
          DEF LinkNext, Messages
<1> QED BY <1>1, <1>2, UplinkTyped, PTL DEF LinkSpec

\* A display never takes the contents of one page for those of another, and
\* what is on the air keeps its type, for every set of settings, readings and
\* displays (disp_message_decode).
THEOREM LinkTypeTheorem == LinkSpec => []LinkTypeOK
<1>1. TypeOK /\ UplinkOK /\ LinkTypeInv => LinkTypeOK
  BY DEF UplinkOK, Messages, LinkTypeInv, PayloadTyped, SettledTyped, Stages,
         LinkTypeOK
<1> QED BY <1>1, LinkImplementsSensor, Typing, UplinkTyped, LinkTyped, PTL

-----------------------------------------------------------------------------
(* Reading back                                                            *)

\* A configuration has the fields that a command sets.
Agrees(configuration, command) ==
  \A f \in DOMAIN command : configuration[f] = command[f]

\* The frame in the radio, if it is a page 16, has been encoded since the
\* command, or the display has heard it already.
OnceHeard ==
  heard \/ (tx.page = 16 => Agrees(payload, settled.command))

\* Until a display sends again it has heard one more frame; then only frames
\* that have been encoded since the command can come.
ReadBackInv ==
  /\ settled.stage \in {"none", "commanded", "requested", "answered"}
  /\ settled.stage # "none" =>
       settled.command \in Commands /\ Agrees(page_16, settled.command)
  /\ settled.stage = "commanded" /\ window => OnceHeard
  /\ settled.stage \in {"requested", "answered"} => OnceHeard
  /\ settled.stage = "answered" => Agrees(shown_16, settled.command)

LEMMA AppliedAgrees ==
  ASSUME NEW command \in Commands
  PROVE  Agrees(Applied(command), command)
<1>1. DOMAIN command \subseteq Fields
  BY LinkAssumption
<1> QED BY <1>1 DEF Agrees, Applied

\* A frame with page 16 is encoded from page 16.
LEMMA EncodedAgrees ==
  ASSUME NEW command, Agrees(page_16, command)
  PROVE  tx'.page = 16 => Agrees(Encoded(tx'.page), command)
BY DEF Encoded

LEMMA ReadBackInvariant == LinkSpec => []ReadBackInv
<1>1. LinkInit => ReadBackInv
  BY DEF LinkInit, Unsettled, ReadBackInv
<1>2. UplinkOK /\ ReadBackInv /\ [LinkNext]_all_vars => ReadBackInv'
  <2> SUFFICES ASSUME UplinkOK, ReadBackInv, [LinkNext]_all_vars
               PROVE  ReadBackInv'
    OBVIOUS
  <2> USE DEF ReadBackInv
  <2>1. CASE UNCHANGED all_vars
    BY <2>1 DEF all_vars, vars, link_vars, disp_vars, OnceHeard, Agrees
  <2>2. CASE SendFirst \/ SendNext
    <3>1. /\ payload' = Encoded(tx'.page) /\ settled' = settled
          /\ page_16' = page_16 /\ shown_16' = shown_16
      BY <2>2 DEF SendFirst, SendNext, disp_vars
    <3>2. settled.stage # "none" => OnceHeard'
      BY <3>1, EncodedAgrees DEF OnceHeard, Agrees
    <3> QED BY <3>1, <3>2 DEF Agrees
  <2>3. ASSUME NEW reading \in Readings, Measure(reading)
        PROVE  ReadBackInv'
    BY <2>3 DEF Measure, vars, disp_vars, OnceHeard, Agrees
  <2>4. CASE Hear
    <3>1. /\ heard' = TRUE /\ page_16' = page_16 /\ payload' = payload
          /\ settled'.command = settled.command
          /\ shown_16' = IF tx.page = 16 THEN payload ELSE shown_16
          /\ ~heard
      BY <2>4 DEF Hear
    <3>2. \/ settled' = settled
          \/ /\ settled.stage = "requested" /\ tx.page = 16
             /\ settled'.stage = "answered"
      BY <2>4 DEF Hear
    <3>3. OnceHeard'
      BY <3>1 DEF OnceHeard
    <3>4. settled'.stage = "answered" => Agrees(shown_16, settled.command)'
      BY <3>1, <3>2 DEF OnceHeard, Agrees
    <3> QED BY <3>1, <3>2, <3>3, <3>4 DEF Agrees
  <2>5. CASE LoseMessage
    BY <2>5 DEF LoseMessage, vars, OnceHeard, Agrees
  <2>6. ASSUME NEW message \in Messages, Submit(message)
        PROVE  ReadBackInv'
    BY <2>6 DEF Submit, vars, OnceHeard, Agrees
  <2>7. ASSUME NEW message \in RequestMessage, Deliver(message)
        PROVE  /\ page_16' = page_16 /\ payload' = payload /\ heard' = heard
               /\ tx' = tx
    <3>1. message.page = 70
      BY <2>7, MessagePages
    <3>2. PICK count \in 1 .. MaxTransmitCount, ack \in BOOLEAN :
            EventRxRequest(message.requested, count, ack)
      BY <2>7, <3>1 DEF Deliver
    <3>3. tx' = tx
      BY <3>2 DEF EventRxRequest
    <3> QED BY <2>7, <3>1, <3>3 DEF Deliver
  <2>8. ASSUME NEW message \in CommandMessage, Deliver(message)
        PROVE  page_16' = Applied(message.command)
    BY <2>8, MessagePages DEF Deliver
  <2>9. CASE Exchange
    <3>1. /\ uplink \in Messages /\ Deliver(uplink) /\ window
          /\ window' = FALSE /\ settled' = SettledBy(uplink)
          /\ shown_16' = shown_16
      BY <2>9 DEF Exchange, UplinkOK
    <3>2. CASE uplink \in RequestMessage
      <4>1. \/ settled' = settled
            \/ /\ settled.stage = "commanded" /\ settled'.stage = "requested"
               /\ settled'.command = settled.command
        BY <3>1, <3>2, MessagePages DEF SettledBy
      <4>2. OnceHeard => settled'.command = settled.command /\ OnceHeard'
        BY <2>7, <3>1, <3>2, <4>1 DEF OnceHeard, Agrees
      <4> QED BY <2>7, <3>1, <3>2, <4>1, <4>2 DEF Agrees
    <3>3. CASE uplink \in CommandMessage
      <4>1. /\ uplink.command \in Commands
            /\ settled' = [stage |-> "commanded", command |-> uplink.command]
        BY <3>1, <3>3, MessagePages DEF SettledBy
      <4>2. Agrees(page_16, settled.command)'
        BY <2>8, <3>1, <3>3, <4>1, AppliedAgrees DEF Agrees
      <4> QED BY <3>1, <4>1, <4>2
    <3> QED BY <3>1, <3>2, <3>3 DEF Messages
  <2>10. ASSUME NEW message \in Messages, Deliver(message), shown_16' = shown_16,
                window' => window,
                settled' = IF message.page = 16 THEN Unsettled ELSE settled
         PROVE  ReadBackInv'
    <3>1. CASE message \in RequestMessage
      BY <2>7, <2>10, <3>1, MessagePages DEF OnceHeard, Agrees
    <3>2. CASE message \in CommandMessage
      BY <2>10, <3>2, MessagePages DEF Unsettled
    <3> QED BY <3>1, <3>2 DEF Messages
  <2>11. CASE LoseAcknowledgement
    BY <2>10, <2>11 DEF LoseAcknowledgement, UplinkOK
  <2>12. ASSUME NEW message \in Messages, OtherDisplay(message)
         PROVE  ReadBackInv'
    BY <2>10, <2>12 DEF OtherDisplay
  <2> QED BY <2>1, <2>2, <2>3, <2>4, <2>5, <2>6, <2>9, <2>11, <2>12
          DEF LinkNext, Messages
<1> QED BY <1>1, <1>2, UplinkTyped, PTL DEF LinkSpec

\* A display that commands and then requests page 16 is shown what it has
\* commanded, for every set of settings and displays.
THEOREM ReadBackTheorem == LinkSpec => []ReadBack
<1>1. ReadBackInv => ReadBack
  BY DEF ReadBackInv, ReadBack, Agrees
<1> QED BY <1>1, ReadBackInvariant, PTL
=============================================================================
