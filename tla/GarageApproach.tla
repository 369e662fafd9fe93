---------------------------- MODULE GarageApproach ----------------------------
(***************************************************************************)
(* Why a verdict of SUCCESS is true: the way of an undisturbed door to its *)
(* target, for a user who waits for it.  The module states what the door   *)
(* and the delays must be for that, and the invariant of the approach.     *)
(***************************************************************************)
EXTENDS GarageDoor

CONSTANT MAX_GAP    \* the longest time between two samples of a moving door

\* The farthest the door moves from one sample to the next.
REACH == SPEED * MAX_GAP

\* The target of a command.
Target(p) == LinearMap(p, 0, 100, POSITION_MIN, POSITION_MAX)

\* A command is a percentage, as door_control_set_position documents.
ASSUME PercentAssumption == COMMANDS \subseteq 0 .. 100

\* The range given to door_control_initialize is that of the door, and the
\* door does not reach an end before it is stopped at a target inside.
ASSUME CalibratedAssumption ==
    /\ Near(BOTTOM, POSITION_MIN)
    /\ Near(TOP, POSITION_MAX)
    /\ \A p \in COMMANDS :
           Target(p) > POSITION_MIN /\ Target(p) < POSITION_MAX
               => BOTTOM + 2 * REACH < Target(p) /\ Target(p) < TOP - 2 * REACH

\* A sample of the fastest door fits the fields and the thresholds.
ASSUME SlowAssumption ==
    /\ REACH <= 2 * DELTA_THRESHOLD
    /\ 2 * REACH < DOOR_THRESHOLD
    /\ 2 * REACH < DELTA_MOD
    /\ 2 * REACH < UINT16_MOD

\* A count of START outlasts the pulse of the relay, and the clock both.
ASSUME PaceAssumption ==
    /\ MAX_GAP \in Nat
    /\ \A d \in STEPS : d <= MAX_GAP
    /\ STABLIZE_COUNT_MAX > 1
    /\ RELAY_DELAY < STABLIZE_COUNT_MAX * (DOOR_SAMPLE_RATE + 1)
    /\ DOOR_SAMPLE_RATE < TIME_MOD
    /\ RELAY_DELAY + MAX_GAP < TIME_MOD
    /\ MAX_GAP + MAX_GAP < TIME_MOD

\* A moving door does not creep: it covers more than one position in a sample.
ASSUME NoCreepAssumption == SPEED * (DOOR_SAMPLE_RATE + 1) > 1

-----------------------------------------------------------------------------
\* The ticks, at the instant at, since a deadline was computed as delay ticks ahead.
Ago(at, stamp, delay) ==
    LET t == at - stamp + delay
    IN  IF t < 0 THEN t + TIME_MOD ELSE IF t >= TIME_MOD THEN t - TIME_MOD ELSE t

SinceSample == Ago(now, time_stamp, DOOR_SAMPLE_RATE)
SincePress  == Ago(now, relay_time, RELAY_DELAY)

\* Nobody has pressed the button on the wall, and the user waits for the door
\* to rest between commands.
Undisturbed == PATIENT /\ disturbances = 0

(***************************************************************************)
(* The deadlines do not get lost at the wrap of the clock: every turn of   *)
(* the loop that finds the door moving ends within MAX_GAP of the last     *)
(* sample, and the relay is let go when its time is over.  The run stall   *)
(* shows that the code does not guarantee it, whence a hypothesis.         *)
(***************************************************************************)
InTime ==
    /\ door_motion # 0 => \A d \in STEPS : SinceSample + d <= MAX_GAP
    /\ relay_output = 1 => SincePress <= RELAY_DELAY

\* The end in the direction of the last movement, and a door on its way there
\* or arrived (the others were stopped by a press, or never started).
End   == IF last_motion = 1 THEN TOP ELSE BOTTOM
Going == door_motion = last_motion \/ door_position = End

\* How far the door has moved since the last sample.
Moved == IF last_motion = 1 THEN door_position - current_position
                            ELSE current_position - door_position

\* What no sample has seen yet is one movement, in one direction.
OneMovement ==
    /\ door_motion \in {0, last_motion}
    /\ current_position \in BOTTOM .. TOP
    /\ Moved \in 0 .. REACH
    /\ door_motion # 0 => Moved <= SPEED * SinceSample
    /\ ~Going => Moved = 0
    /\ mean_position_delta <= REACH /\ -REACH <= mean_position_delta

\* A mean beyond the threshold tells the direction of the movement.
MeanIsTrue ==
    /\ Going /\ last_motion = 1 => mean_position_delta <= DELTA_THRESHOLD
    /\ Going /\ last_motion = -1 => -DELTA_THRESHOLD <= mean_position_delta
    /\ ~Going => ~IsMoving

\* The control is no further than the user: a command found it idle, and a
\* count starts from its ends.
InStep ==
    /\ position_min = POSITION_MIN /\ position_max = POSITION_MAX
    /\ desired_state # current_state => current_state = "DOOR_IDLE"
    /\ current_state \in {"DOOR_IDLE", "ACTIVE"} => stablize_count \in {0, STABLIZE_COUNT_MAX}

\* A control that has a command to obey, or a verdict to give, has a target.
HasTarget ==
    \/ Idle /\ result = "NONE"
    \/ \E p \in COMMANDS : desired_position = Target(p)

\* A door that is sent to an end is on this side of it, or on its way there.
ThisSide ==
    /\ desired_position = POSITION_MAX =>
           last_motion = 1 \/ current_position < desired_position
    /\ desired_position = POSITION_MIN =>
           last_motion = -1 \/ current_position > desired_position

WhileStarting ==
    current_state = "START" =>
        /\ result = "NONE"
        /\ MeanIsTrue \/ stablize_count \in {0, STABLIZE_COUNT_MAX}
        /\ ThisSide

WhileMonitored ==
    current_state = "MONITOR" =>
        /\ result = "NONE"
        /\ Going
        /\ last_motion = 1 => /\ mean_position_delta <= 0
                              /\ current_position < desired_position + REACH
        /\ last_motion = -1 => /\ mean_position_delta >= 0
                               /\ current_position > desired_position - REACH
        /\ desired_position = POSITION_MAX => last_motion = 1
        /\ desired_position = POSITION_MIN => last_motion = -1

\* The samples START has counted, and the time they took, as long as the relay
\* is closed.
Counted ==
    IF current_state = "MONITOR" THEN STABLIZE_COUNT_MAX
    ELSE IF current_state = "START" /\ stablize_count \in 1 .. STABLIZE_COUNT_MAX
    THEN STABLIZE_COUNT_MAX - stablize_count
    ELSE 0
PulseBeforeCount ==
    relay_output = 1 /\ current_state \in {"START", "MONITOR"} =>
        SincePress >= SinceSample + Counted * (DOOR_SAMPLE_RATE + 1)

\* The door stands where it was sent to.
Arrived ==
    /\ door_motion = 0
    /\ door_position = current_position
    /\ Near(door_position, desired_position)

AfterSuccess ==
    /\ current_state = "STOP" => result = "SUCCESS"
    /\ result = "SUCCESS" =>
           \/ Arrived
           \/ /\ current_state = "DOOR_IDLE" /\ Going
              /\ \/ desired_position = POSITION_MAX /\ last_motion = 1
                 \/ desired_position = POSITION_MIN /\ last_motion = -1

(***************************************************************************)
(* "If the door moves unexpectingly, the door control will release         *)
(* control": it does so only then.  A door that nobody disturbs is never   *)
(* taken for one, so that FAIL is never reported of it.                    *)
(***************************************************************************)
NoFalseAlarm == result # "FAIL"

(***************************************************************************)
(* The approach of the door to its target.  A door that START lets through *)
(* to MONITOR moves towards the target and has not reached an end; when it *)
(* is within the threshold it has passed a target inside the range by two  *)
(* samples at most, the relay has been let go, and the press stops it      *)
(* there.  A door sent to an end goes on to it.                            *)
(***************************************************************************)
Approach ==
    /\ GTypeOK
    /\ InTime
    /\ Undisturbed
    /\ OneMovement
    /\ InStep
    /\ HasTarget
    /\ WhileStarting
    /\ WhileMonitored
    /\ PulseBeforeCount
    /\ AfterSuccess
    /\ NoFalseAlarm
-----------------------------------------------------------------------------
(***************************************************************************)
(* A door that somebody disturbs, and a user who commands at any moment.   *)
(***************************************************************************)

\* Samples are taken in time: wherever the next one finds the door, it is not
\* farther than REACH from where the last one did.
SeenInTime ==
    \A d \in STEPS : /\ PositionAfter(d) - current_position <= REACH
                     /\ current_position - PositionAfter(d) <= REACH

\* The button on the wall was not pressed too often since the last command.
FewPresses == disturbances + 2 < DELTA_THRESHOLD

InSight ==
    /\ current_position \in BOTTOM .. TOP
    /\ mean_position_delta <= REACH /\ -REACH <= mean_position_delta

\* A mean has been earned by a way of twice its size; one position may have
\* been lost by rounding down.
MeanIsEarned ==
    /\ current_position + 2 * mean_position_delta >= BOTTOM - 1
    /\ current_position + 2 * mean_position_delta <= TOP

TargetInReach ==
    /\ position_min = POSITION_MIN /\ position_max = POSITION_MAX
    /\ BOTTOM - DOOR_THRESHOLD < desired_position
    /\ desired_position < TOP + DOOR_THRESHOLD

\* Where the door would be if it undid the movement the mean remembers.
Margin == current_position + mean_position_delta

\* The next sample will not lower the margin, unless somebody presses first:
\* the door does not go down, or goes down so far that the mean shows it.
WillBeSeen ==
    \/ door_motion >= 0 /\ door_position >= current_position
    \/ /\ mean_position_delta = 0
       /\ \/ door_motion = -1 /\ current_position - door_position >= SPEED * SinceSample
          \/ door_motion < 1 /\ door_position = BOTTOM

\* Rounding down hides a position per sample of a door that goes down, none of
\* a door that goes up.
WatchedUp ==
    /\ mean_position_delta <= 0
    /\ current_position < desired_position + REACH
    /\ Margin + disturbances + 1 >= BOTTOM + DELTA_THRESHOLD
    /\ WillBeSeen \/ Margin + disturbances >= BOTTOM + DELTA_THRESHOLD
WatchedDown ==
    /\ mean_position_delta >= 0
    /\ current_position > desired_position - REACH
    /\ Margin + DELTA_THRESHOLD < TOP

(***************************************************************************)
(* Why no monitored door is seen at the wrong end: a door that START lets  *)
(* through has earned a mean beyond the threshold on its way to the        *)
(* target, so it is farther than that from the end it comes from, and a    *)
(* sample that finds it going back makes the mean change its sign, except  *)
(* for a position per press that rounding hides.                           *)
(***************************************************************************)
Watched ==
    /\ SeenInTime
    /\ FewPresses
    /\ InSight
    /\ MeanIsEarned
    /\ TargetInReach
    /\ current_state = "MONITOR" /\ desired_state = "MONITOR" => WatchedUp \/ WatchedDown
=============================================================================
