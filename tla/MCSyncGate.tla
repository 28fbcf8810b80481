------------------------------ MODULE MCSyncGate ------------------------------
(***************************************************************************)
(* Values of SyncGate's constants for TLC: two users share the tick.       *)
(***************************************************************************)
EXTENDS SyncGate

CONSTANTS ana, ben
Pair == {ana, ben}
=============================================================================
