-------------------------- MODULE MCGarageApproach --------------------------
EXTENDS GarageApproach

MCAdc == 0 .. 60
MCStarts == {0, 30, 60}
MCStartsFew == {0, 60}
MCCommands == {0, 50, 100}
MCCommandsFew == {0, 50}
MCSteps == {2}
MCBootTimes == {1}
=============================================================================
