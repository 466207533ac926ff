---------------------------- MODULE UptimeAccount ----------------------------
(***************************************************************************)
(* What the device promises of its cumulative operating time, without the  *)
(* record, its checksum and the threads of Retained, which implements this *)
(* specification.                                                          *)
(*                                                                         *)
(* Every second of a session is counted, also over System OFF.  A reset    *)
(* may take back seconds of its own session, none of the sessions before.  *)
(* Only while an update of the firmware is being prepared a reading, or    *)
(* the power-off, may be wrong, by no more than the session; and only a    *)
(* reset in that time may cost the whole account.                          *)
(***************************************************************************)
EXTENDS Naturals

VARIABLES
  state,    \* "off", "on", "updating", or "doubtful" after a reset in an update
  session,  \* seconds since the start
  total,    \* seconds of operation on this battery
  counted,  \* those the device knows of
  shown     \* those it has reported last

vars == <<state, session, total, counted, shown>>

Running == state \in {"on", "updating"}

\* n is x, give or take the session.
Near(n, x) == x <= n + session /\ n <= x + session

Init ==
  /\ state = "off"
  /\ session = 0
  /\ total = 0
  /\ counted = 0
  /\ shown = 0

Start ==
  /\ ~Running
  /\ state' = "on"
  /\ session' = 0
  /\ counted' = IF state = "doubtful" THEN 0 ELSE counted
  /\ shown' = 0
  /\ UNCHANGED total

Second ==
  /\ Running
  /\ session' = session + 1
  /\ total' = total + 1
  /\ counted' = counted + 1
  /\ UNCHANGED <<state, shown>>

Show ==
  /\ \/ state = "on" /\ shown' = counted
     \/ state = "updating" /\ Near(shown', counted)
  /\ UNCHANGED <<state, session, total, counted>>

BeginUpdate ==
  /\ state = "on"
  /\ state' = "updating"
  /\ UNCHANGED <<session, total, counted, shown>>

EndUpdate ==
  /\ state = "updating"
  /\ state' = "on"
  /\ UNCHANGED <<session, total, counted, shown>>

PowerOff ==
  /\ \/ state = "on" /\ counted' = counted
     \/ state = "updating" /\ Near(counted', counted)
  /\ state' = "off"
  /\ session' = 0
  /\ UNCHANGED <<total, shown>>

Reset ==
  /\ Running
  /\ \/ state' = "off"
     \/ state = "updating" /\ state' = "doubtful"
  /\ counted' <= counted
  /\ counted <= counted' + session
  /\ session' = 0
  /\ UNCHANGED <<total, shown>>

NewBattery ==
  /\ state' = "off"
  /\ session' = 0
  /\ total' = 0
  /\ counted' = 0
  /\ shown' = 0

Next ==
  \/ Start
  \/ Second
  \/ Show
  \/ BeginUpdate
  \/ EndUpdate
  \/ PowerOff
  \/ Reset
  \/ NewBattery

Spec == Init /\ [][Next]_vars
=============================================================================
