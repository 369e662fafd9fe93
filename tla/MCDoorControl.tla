---------------------------- MODULE MCDoorControl ----------------------------
(***************************************************************************)
(* DoorControl over a door whose range is 120 wide, so that one percent of *)
(* it lies between two positions, read just below the range, in the middle *)
(* or at the top.  Every jump between two readings overflows the narrow    *)
(* mean_position_delta, one turn of the loop may or may not sample, and    *)
(* the range may be calibrated at any moment.                              *)
(***************************************************************************)
EXTENDS DoorControl

MCAdc == {9, 70}
MCAdcEnds == {9, 130}
MCCommands == {0, 50}
MCCommandsEnds == {0, 100}
MCSteps == {1, 2}
MCStepOne == {1}
MCBootTimes == {1}
=============================================================================
