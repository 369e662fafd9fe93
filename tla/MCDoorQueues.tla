----------------------------- MODULE MCDoorQueues -----------------------------
(***************************************************************************)
(* DoorQueues with three commands, so that one can be dropped while one is *)
(* queued and one applied, and three states of the data of the door.       *)
(***************************************************************************)
EXTENDS DoorQueues
=============================================================================
