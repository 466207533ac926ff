------------------------------ MODULE MCConfig ------------------------------
(* Few values for the fields of page 16, and a command for every way through *)
(* the handler: the reset, a page request, one flag, several, all of them.   *)
EXTENDS Config

CONSTANTS none, front

MCPressures == {1013, 2000, Unset}
MCMeasured == {60, 1500, 2500}

MCPage(role, ambient, low, high) ==
  [role |-> role, ambient_pressure |-> ambient,
   alarm_low_pressure |-> low, alarm_high_pressure |-> high]

MCCommand(flags, page) == [flags |-> flags, page |-> page]

MCCommands ==
  {MCCommand({}, MCPage(none, Unset, Unset, Unset)),
   MCCommand({"SET_ROLE"}, MCPage(front, Unset, Unset, Unset)),
   MCCommand({"SET_ALARM_LOW"}, MCPage(none, Unset, 1013, Unset)),
   MCCommand({"SET_ALARM_HIGH"}, MCPage(none, Unset, Unset, 2000)),
   MCCommand(Flags, MCPage(front, 2000, 2000, 2000))}
=============================================================================
