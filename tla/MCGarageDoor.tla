---------------------------- MODULE MCGarageDoor ----------------------------
EXTENDS GarageDoor

MCAdc == 0 .. 60
MCStarts == {0, 30, 60}
MCCommands == {0, 50, 100}
MCSteps == {2}
MCBootTimes == {1}
=============================================================================
