---------------------------- MODULE MCDoorHistory ----------------------------
(***************************************************************************)
(* A door of 16 positions read at both ends and in the middle, on a clock  *)
(* of 16 ticks that wraps in the middle of every delay.                    *)
(***************************************************************************)
EXTENDS DoorHistory

MCAdc == {2, 7, 13}
MCCommands == {0, 100}
MCSteps == {1, 2}
MCBootTimes == {1, 6}
=============================================================================
