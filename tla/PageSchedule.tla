---------------------------- MODULE PageSchedule ----------------------------
(***************************************************************************)
(* What the transmissions of an ANT+ sensor promise to displays, without   *)
(* the counter, the slots and the request controller of AntTpmsSens, which *)
(* implements this specification.                                          *)
(*                                                                         *)
(* Frames come one by one.  While the last request is owed frames, the     *)
(* next one carries its page, acknowledged if the display asked for that.  *)
(* Otherwise it is a broadcast with the main page or a background page,    *)
(* and no background page is put off for Limit frames.                     *)
(***************************************************************************)
EXTENDS Naturals

CONSTANTS
  MainPage,
  BackgroundPages,
  KnownPages,     \* pages that are sent on request
  RequestedPages, \* pages displays ask for, known or not,
  MaxTransmitCount, \* and how often at most
  Limit           \* frames without a request within which all pages come

VARIABLES
  frame,    \* the frame sent last
  wait,     \* frames since a background page or a requested page was sent
  wanted,   \* the page of the last request, and
  ack,      \* whether it is to be acknowledged
  owed      \* frames the request has still to get

vars == <<frame, wait, wanted, ack, owed>>

Init ==
  /\ frame = [page |-> MainPage, kind |-> "none"]
  /\ wait = [p \in BackgroundPages |-> 0]
  /\ wanted \in Nat
  /\ ack \in BOOLEAN
  /\ owed = 0

\* A display asks for a page, and no longer for the one it asked for before.
Request(page, count, acknowledged) ==
  /\ wanted' = page
  /\ ack' = acknowledged
  /\ owed' = IF page \in KnownPages THEN count ELSE 0
  /\ UNCHANGED <<frame, wait>>

\* A frame with the requested page.
Serve ==
  /\ owed > 0
  /\ owed' = owed - 1
  /\ frame' = [page |-> wanted,
               kind |-> IF ack THEN "acknowledged" ELSE "broadcast"]
  /\ wait' = [p \in BackgroundPages |-> 0]
  /\ UNCHANGED <<wanted, ack>>

\* A frame of the rotation.
Rotate(page) ==
  /\ owed = 0
  /\ frame' = [page |-> page, kind |-> "broadcast"]
  /\ wait' = [p \in BackgroundPages |-> IF p = page THEN 0 ELSE wait[p] + 1]
  /\ \A p \in BackgroundPages : wait'[p] < Limit
  /\ UNCHANGED <<wanted, ack, owed>>

Send == Serve \/ \E page \in BackgroundPages \cup {MainPage} : Rotate(page)

Next ==
  \/ Send
  \/ \E page \in RequestedPages, count \in 0 .. MaxTransmitCount,
        acknowledged \in BOOLEAN : Request(page, count, acknowledged)

Spec == Init /\ [][Next]_vars
=============================================================================
