--------------------------- MODULE MCAntTpmsLink ---------------------------
(* Two readings, two fields of two values, commands for one and for both,  *)
(* the shortest cycle that has all slots.                                  *)
EXTENDS AntTpmsLink

MCRequestedPages == {16}
MCFields == {"role", "ambient"}
MCValues == {0, 1}
MCCommands == {[role |-> 1], [role |-> 0, ambient |-> 1]}
=============================================================================
