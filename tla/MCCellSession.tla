--------------------------- MODULE MCCellSession ----------------------------
(* Small instances of CellSession for TLC. *)
EXTENDS CellSession

\* A heartbeat is a header and nothing else, a login the largest message.
MCMsgLen == [Login |-> 4, Logout |-> 3, Heart_C2S |-> 2, Other |-> 3,
             LoginR |-> 4, Heart_S2C |-> 2]
=============================================================================
