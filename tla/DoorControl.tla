----------------------------- MODULE DoorControl -----------------------------
(***************************************************************************)
(* projects/garage_door/src/door_control.c: the control of a garage door   *)
(* whose opener has one button.  A relay presses the button, a             *)
(* potentiometer on the axle tells the position.  The component is a       *)
(* struct and five functions that one core calls in turn:                  *)
(*                                                                         *)
(*   Init              door_control_initialize                             *)
(*   SetPosition(p)    door_control_set_position, a command                *)
(*   Execute(d, adc)   door_control_execute, one turn of the polling loop: *)
(*                     d microseconds after the previous turn, with adc    *)
(*                     the value the potentiometer would read              *)
(*   Calibrate...      door_control_calibrate_min_position, ..._max_...    *)
(*   ReportedPosition  door_control_get                                    *)
(*                                                                         *)
(* Execute has two outcomes for the time (PollOnly before the sampling     *)
(* deadline, a sample after it) and the sample one for every state of the  *)
(* control.  The clock is read up to five times in one call of execute;    *)
(* the model reads it once, because a call is far shorter than any delay.  *)
(***************************************************************************)
EXTENDS Timestamp

CONSTANTS
    RELAY_DELAY, DOOR_SAMPLE_RATE, DOOR_COMMAND_DELAY,  \* delays, in clock ticks
    STABLIZE_COUNT_MAX,     \* moving samples that end START
    STOP_COUNT,             \* still samples that end STOP (8 in the code)
    DELTA_THRESHOLD,        \* mean change of position that counts as moving
    DOOR_THRESHOLD,         \* distance that counts as arrived
    COUNT_MOD,              \* 2^8: width of stablize_count (uint8_t)
    DELTA_MOD,              \* 2^8: width of mean_position_delta (int8_t)
    UINT16_MOD,             \* 2^16: width of the positions
    POSITION_MIN, POSITION_MAX,   \* arguments of door_control_initialize
    ADC,                    \* the values the potentiometer can read
    COMMANDS,               \* the positions (0..100, uint8_t) that can be asked for
    STEPS,                  \* the times between two turns of the loop
    BOOT_TIMES,             \* the clock when the control is initialized
    CALIBRATION             \* whether the host calls the calibration functions

ASSUME DelaysAssumption ==
    /\ RELAY_DELAY \in Nat
    /\ DOOR_SAMPLE_RATE \in Nat
    /\ DOOR_COMMAND_DELAY \in Nat

ASSUME CountsAssumption ==
    /\ COUNT_MOD \in Nat \ {0}
    /\ DELTA_MOD \in Nat /\ DELTA_MOD > 1 /\ DELTA_MOD % 2 = 0
    /\ UINT16_MOD \in Nat /\ UINT16_MOD > 1 /\ UINT16_MOD % 2 = 0
    /\ STABLIZE_COUNT_MAX \in 1 .. COUNT_MOD - 1
    /\ STOP_COUNT \in 1 .. COUNT_MOD - 1
    /\ DELTA_THRESHOLD \in Nat
    /\ DOOR_THRESHOLD \in Nat

ASSUME RangeAssumption ==
    /\ ADC # {}
    /\ ADC \subseteq 0 .. UINT16_MOD - 1
    /\ POSITION_MIN \in 0 .. UINT16_MOD \div 2 - 1
    /\ POSITION_MAX \in 0 .. UINT16_MOD \div 2 - 1
    /\ POSITION_MIN < POSITION_MAX

ASSUME InputsAssumption ==
    /\ COMMANDS \subseteq 0 .. 255
    /\ STEPS \subseteq Nat
    /\ BOOT_TIMES \subseteq Time
    /\ CALIBRATION \in BOOLEAN

DoorState  == {"ACTIVE", "MONITOR", "START", "STOP", "DOOR_IDLE"}
DoorResult == {"NONE", "SUCCESS", "FAIL"}

VARIABLES
    now,                    \* time_us_32()
    current_state, desired_state, result,
    current_position, desired_position,
    position_min, position_max,
    mean_position_delta,
    relay_output,           \* 0 LOW, 1 HIGH
    time_stamp, command_time, relay_time,
    stablize_count

control  == <<current_state, desired_state, result, stablize_count>>
position == <<current_position, desired_position, mean_position_delta>>
range    == <<position_min, position_max>>
timers   == <<time_stamp, command_time, relay_time>>
vars     == <<now, control, position, range, relay_output, timers>>

-----------------------------------------------------------------------------
(* Arithmetic of the code. *)

\* C's division: it truncates towards zero, TLA+'s \div rounds down.
Magnitude(a) == IF a < 0 THEN -a ELSE a
CDiv(a, b) ==
    IF (a < 0) = (b < 0) THEN Magnitude(a) \div Magnitude(b)
                         ELSE -(Magnitude(a) \div Magnitude(b))

\* linear_map.  Its longs are wide enough for every argument it is given.
MutLinearMapFloor(value, in_min, in_max, out_min, out_max) ==
    ((value - in_min) * (out_max - out_min)) \div (in_max - in_min) + out_min
LinearMap(value, in_min, in_max, out_min, out_max) ==
    CDiv((value - in_min) * (out_max - out_min), in_max - in_min) + out_min

\* The value of x stored in a signed integer of mod values.
Signed(x, mod) == ((x + mod \div 2) % mod) - mod \div 2

\* The "two point average" of the movement, after a sample that reads adc.
\* A positive mean is a door whose position decreases.
NewMean(adc) ==
    LET difference == Signed(current_position - adc, UINT16_MOD)
    IN  Signed((mean_position_delta + difference) \div 2, DELTA_MOD)

\* is_moving: computed before the mean is updated.
MutIsMoving == mean_position_delta > DELTA_THRESHOLD    \* one direction forgotten
IsMoving ==
    \/ mean_position_delta > DELTA_THRESHOLD
    \/ mean_position_delta < -DELTA_THRESHOLD

\* The position compared is the one of the previous sample.
AtTarget ==
    /\ current_position > desired_position - DOOR_THRESHOLD
    /\ current_position < desired_position + DOOR_THRESHOLD

MutTowardsTarget(mean) == TRUE      \* any movement will do
TowardsTarget(mean) ==
    \/ mean < 0 /\ current_position < desired_position
    \/ mean > 0 /\ current_position > desired_position

MutAwayFromTarget(mean) ==          \* one direction forgotten
    mean > 0 /\ current_position < desired_position
AwayFromTarget(mean) ==
    \/ mean > 0 /\ current_position < desired_position
    \/ mean < 0 /\ current_position > desired_position

MutTargetInside == FALSE            \* every target is an end
TargetInside ==
    /\ desired_position > position_min
    /\ desired_position < position_max

\* The position door_control_get reports, a uint8_t.
ReportedPosition ==
    LinearMap(current_position, position_min, position_max, 0, 100) % 256

-----------------------------------------------------------------------------
Init ==
    /\ now \in BOOT_TIMES
    /\ current_state = "DOOR_IDLE"
    /\ desired_state = "DOOR_IDLE"
    /\ result = "NONE"
    /\ current_position \in ADC
    /\ desired_position = current_position
    /\ position_min = POSITION_MIN
    /\ position_max = POSITION_MAX
    /\ mean_position_delta = 0
    /\ relay_output = 0
    /\ time_stamp = 0
    /\ command_time = 0
    /\ relay_time = 0
    /\ stablize_count = 0

MutSetPositionKeepsResult(p) ==
    /\ desired_position' = LinearMap(p, 0, 100, position_min, position_max) % UINT16_MOD
    /\ desired_state' = "ACTIVE"
    /\ UNCHANGED <<now, current_state, result, current_position, range,
                   mean_position_delta, relay_output, timers, stablize_count>>
MutSetPositionStarts(p) ==  \* starts the door itself, without the button
    /\ desired_position' = LinearMap(p, 0, 100, position_min, position_max) % UINT16_MOD
    /\ desired_state' = IF current_state = "DOOR_IDLE" THEN "START" ELSE "ACTIVE"
    /\ result' = "NONE"
    /\ UNCHANGED <<now, current_state, current_position, range,
                   mean_position_delta, relay_output, timers, stablize_count>>
SetPosition(p) ==
    /\ desired_position' = LinearMap(p, 0, 100, position_min, position_max) % UINT16_MOD
    /\ desired_state' = "ACTIVE"
    /\ result' = "NONE"
    /\ UNCHANGED <<now, current_state, current_position, range,
                   mean_position_delta, relay_output, timers, stablize_count>>

CalibrateMinPosition ==
    /\ CALIBRATION
    /\ position_min' = Signed(current_position + DOOR_THRESHOLD, UINT16_MOD)
    /\ UNCHANGED <<now, control, position, position_max, relay_output, timers>>

CalibrateMaxPosition ==
    /\ CALIBRATION
    /\ position_max' = Signed(current_position - DOOR_THRESHOLD, UINT16_MOD)
    /\ UNCHANGED <<now, control, position, position_min, relay_output, timers>>

-----------------------------------------------------------------------------
(***************************************************************************)
(* door_control_execute.                                                   *)
(***************************************************************************)

\* The relay after the release that opens every call, before the early return.
MutRelayAfterRelease ==     \* tested only by the calls that sample
    IF /\ relay_output = 1 /\ TimestampElapsed(now', relay_time, RELAY_DELAY)
       /\ TimestampElapsed(now', time_stamp, DOOR_SAMPLE_RATE)
    THEN 0 ELSE relay_output
RelayAfterRelease ==
    IF relay_output = 1 /\ TimestampElapsed(now', relay_time, RELAY_DELAY)
    THEN 0 ELSE relay_output

\* The call comes before the sampling deadline: the relay is all it touches.
PollOnly(d) ==
    /\ now' = UAdd(now, d)
    /\ ~TimestampElapsed(now', time_stamp, DOOR_SAMPLE_RATE)
    /\ relay_output' = RelayAfterRelease
    /\ UNCHANGED <<control, position, range, timers>>

\* What every sample does, whatever the state.
MutSample(d, adc) ==                \* the next deadline follows the last one, not the clock
    /\ now' = UAdd(now, d)
    /\ TimestampElapsed(now', time_stamp, DOOR_SAMPLE_RATE)
    /\ time_stamp' = UAdd(time_stamp, DOOR_SAMPLE_RATE)
    /\ mean_position_delta' = NewMean(adc)
    /\ current_position' = adc
    /\ UNCHANGED <<desired_position, range>>
Sample(d, adc) ==
    /\ now' = UAdd(now, d)
    /\ TimestampElapsed(now', time_stamp, DOOR_SAMPLE_RATE)
    /\ time_stamp' = UAdd(now', DOOR_SAMPLE_RATE)
    /\ mean_position_delta' = NewMean(adc)
    /\ current_position' = adc
    /\ UNCHANGED <<desired_position, range>>

\* The end of a sample: take the state decided on, and press the button of
\* the opener on the way into START and STOP.
MutSettle(state) ==                 \* the command timer is not set anew
    /\ desired_state' = state
    /\ current_state' = state
    /\ IF state # current_state /\ state \in {"START", "STOP"}
       THEN /\ relay_output' = 1
            /\ UNCHANGED command_time
            /\ relay_time' = UAdd(now', RELAY_DELAY)
       ELSE /\ relay_output' = RelayAfterRelease
            /\ UNCHANGED <<command_time, relay_time>>
Settle(state) ==
    /\ desired_state' = state
    /\ current_state' = state
    /\ IF state # current_state /\ state \in {"START", "STOP"}
       THEN /\ relay_output' = 1
            /\ command_time' = UAdd(now', DOOR_COMMAND_DELAY)
            /\ relay_time' = UAdd(now', RELAY_DELAY)
       ELSE /\ relay_output' = RelayAfterRelease
            /\ UNCHANGED <<command_time, relay_time>>

\* --door_control->stablize_count, a uint8_t.
MutDecremented == stablize_count - 1
Decremented == (stablize_count - 1) % COUNT_MOD

\* START, and the door moves: count the sample, decide on the last one.
StartMoving(d, adc) ==
    /\ current_state = "START" /\ IsMoving
    /\ Sample(d, adc)
    /\ stablize_count' = Decremented
    /\ Settle(IF stablize_count' # 0 THEN desired_state
              ELSE IF TowardsTarget(NewMean(adc)) THEN "MONITOR" ELSE "ACTIVE")
    /\ UNCHANGED result

\* START, and the door stands: count from the start, give up after the delay.
MutStartStillNoReset(d, adc) ==     \* the count is armed once and never restarted
    /\ current_state = "START" /\ ~IsMoving
    /\ Sample(d, adc)
    /\ stablize_count' = IF stablize_count = 0 THEN STABLIZE_COUNT_MAX ELSE stablize_count
    /\ Settle(IF TimestampElapsed(now', command_time, DOOR_COMMAND_DELAY)
              THEN "ACTIVE" ELSE desired_state)
    /\ UNCHANGED result
StartStill(d, adc) ==
    /\ current_state = "START" /\ ~IsMoving
    /\ Sample(d, adc)
    /\ stablize_count' = STABLIZE_COUNT_MAX
    /\ Settle(IF TimestampElapsed(now', command_time, DOOR_COMMAND_DELAY)
              THEN "ACTIVE" ELSE desired_state)
    /\ UNCHANGED result

\* STOP, and the door stands: count the sample, go on with the last one.
StopStill(d, adc) ==
    /\ current_state = "STOP" /\ ~IsMoving
    /\ Sample(d, adc)
    /\ stablize_count' = Decremented
    /\ Settle(IF stablize_count' = 0 THEN "ACTIVE" ELSE desired_state)
    /\ UNCHANGED result

\* STOP, and the door still moves.
StopMoving(d, adc) ==
    /\ current_state = "STOP" /\ IsMoving
    /\ Sample(d, adc)
    /\ stablize_count' = STOP_COUNT
    /\ Settle(desired_state)
    /\ UNCHANGED result

\* MONITOR, and the door was near its target: an end of the range is left to
\* the limit switch, anywhere else the door is stopped.
MonitorReached(d, adc) ==
    /\ current_state = "MONITOR" /\ AtTarget
    /\ Sample(d, adc)
    /\ result' = "SUCCESS"
    /\ Settle(IF TargetInside THEN "STOP" ELSE "DOOR_IDLE")
    /\ UNCHANGED stablize_count

\* MONITOR, and the door moves the wrong way: let go of it.
MonitorWrongWay(d, adc) ==
    /\ current_state = "MONITOR" /\ ~AtTarget /\ AwayFromTarget(NewMean(adc))
    /\ Sample(d, adc)
    /\ result' = "FAIL"
    /\ Settle("DOOR_IDLE")
    /\ UNCHANGED stablize_count

\* MONITOR, and nothing to do.
MonitorOn(d, adc) ==
    /\ current_state = "MONITOR" /\ ~AtTarget /\ ~AwayFromTarget(NewMean(adc))
    /\ Sample(d, adc)
    /\ Settle(desired_state)
    /\ UNCHANGED <<result, stablize_count>>

MutSampleActive(d, adc) ==          \* presses without looking at the target
    /\ current_state = "ACTIVE"
    /\ Sample(d, adc)
    /\ Settle("START")
    /\ UNCHANGED <<result, stablize_count>>
SampleActive(d, adc) ==
    /\ current_state = "ACTIVE"
    /\ Sample(d, adc)
    /\ Settle(IF AtTarget THEN "DOOR_IDLE" ELSE "START")
    /\ UNCHANGED <<result, stablize_count>>

SampleIdle(d, adc) ==
    /\ current_state = "DOOR_IDLE"
    /\ Sample(d, adc)
    /\ Settle(desired_state)
    /\ UNCHANGED <<result, stablize_count>>

Execute(d, adc) ==
    \/ PollOnly(d)
    \/ StartMoving(d, adc) \/ StartStill(d, adc)
    \/ StopStill(d, adc) \/ StopMoving(d, adc)
    \/ MonitorReached(d, adc) \/ MonitorWrongWay(d, adc) \/ MonitorOn(d, adc)
    \/ SampleActive(d, adc)
    \/ SampleIdle(d, adc)

Next ==
    \/ \E p \in COMMANDS : SetPosition(p)
    \/ CalibrateMinPosition
    \/ CalibrateMaxPosition
    \/ \E d \in STEPS, adc \in ADC : Execute(d, adc)

Spec == Init /\ [][Next]_vars

\* Core 1 never stops polling.
FairSpec == Spec /\ WF_vars(\E d \in STEPS, adc \in ADC : Execute(d, adc))

-----------------------------------------------------------------------------
TypeOK ==
    /\ now \in Time
    /\ current_state \in DoorState
    /\ desired_state \in DoorState
    /\ result \in DoorResult
    /\ current_position \in 0 .. UINT16_MOD - 1
    /\ desired_position \in 0 .. UINT16_MOD - 1
    /\ position_min \in -(UINT16_MOD \div 2) .. UINT16_MOD \div 2 - 1
    /\ position_max \in -(UINT16_MOD \div 2) .. UINT16_MOD \div 2 - 1
    /\ mean_position_delta \in -(DELTA_MOD \div 2) .. DELTA_MOD \div 2 - 1
    /\ relay_output \in 0 .. 1
    /\ time_stamp \in Time
    /\ command_time \in Time
    /\ relay_time \in Time
    /\ stablize_count \in 0 .. COUNT_MOD - 1
(***************************************************************************)
(* The only decision that waits for the next sample is a command: whatever *)
(* the order of commands and turns, the state decided on is the state the  *)
(* control is in or ACTIVE.  So a state is never entered without pressing  *)
(* the button it stands for, and no decision of execute survives a command *)
(* that came after it.                                                     *)
(***************************************************************************)
OnlyCommandsPend == desired_state \in {current_state, "ACTIVE"}

(***************************************************************************)
(* The door is monitored only after a count of moving samples that ran to  *)
(* its end, and nothing touches the count while it is monitored.           *)
(***************************************************************************)
MonitorAfterCount == current_state = "MONITOR" => stablize_count = 0

(***************************************************************************)
(* A verdict belongs to the last command.  While a command waits for the   *)
(* next sample the result is NONE, and FAIL is only ever reported by a     *)
(* control that has let go of the door and that no command has reached.    *)
(***************************************************************************)
VerdictOfLastCommand ==
    /\ desired_state # current_state => result = "NONE"
    /\ result = "FAIL" => current_state = "DOOR_IDLE" /\ desired_state = "DOOR_IDLE"

(***************************************************************************)
(* What the report is worth.  For a position at most one whole range below *)
(* position_min or above position_max, the reported byte is a percentage   *)
(* exactly if the position is less than one percent of the range outside   *)
(* it: C's division rounds that little to 0 and to 100.  Any further       *)
(* below, and a negative percentage reaches the host as 156 to 255; any    *)
(* further above, as 101 to 200.  Nothing clamps the reading, and the      *)
(* calibration can leave the door on either side of its range.             *)
(***************************************************************************)
ReportInScale ==
    LET reach == position_max - position_min
        above == (current_position - position_min) * 100
    IN  /\ reach > 0 /\ -reach * 100 <= above /\ above <= 2 * reach * 100
        => (ReportedPosition \in 0 .. 100 <=> -reach < above /\ above < 101 * reach)

(***************************************************************************)
(* "The door control ... will read the values from the potentiometer": as  *)
(* long as the loop polls, samples keep coming.  (They do not: a deadline  *)
(* that falls on the last value of the clock never elapses.)               *)
(***************************************************************************)
SamplingContinues == []<><<time_stamp' # time_stamp>>_vars

=============================================================================
