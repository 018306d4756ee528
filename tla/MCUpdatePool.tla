--------------------------- MODULE MCUpdatePool ---------------------------
(* Values for the constants of UpdatePool that a .cfg cannot write.         *)
EXTENDS UpdatePool, TLC

CONSTANTS a1, a2, n1, group

\* two updates of the group, one with no chat
TwoAndNone == a1 :> group @@ a2 :> group @@ n1 :> NoChat
=============================================================================
