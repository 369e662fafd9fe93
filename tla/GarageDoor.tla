------------------------------ MODULE GarageDoor ------------------------------
(***************************************************************************)
(* The control together with the door it controls.  The door and its       *)
(* opener are not part of the repository; they are modelled from what the  *)
(* head of door_control.c says of them:                                    *)
(*                                                                         *)
(*   a press on a door that does not move moves it in the direction        *)
(*   opposite to the previous movement, a press on a moving door stops it. *)
(*                                                                         *)
(* A press is the closing of the relay: a second press while the relay is  *)
(* still closed is no press for the opener.  The limit switches stop the   *)
(* door at both ends.  Somebody may press the button on the wall, at any   *)
(* time, DISTURBANCES times between two commands.  The user sends at most  *)
(* MAX_COMMANDS commands.                                                  *)
(*                                                                         *)
(* Turn is one turn of the loop of door_main: the door moves while the     *)
(* turn lasts, then execute reads the position it reached.                 *)
(***************************************************************************)
EXTENDS DoorControl

CONSTANTS
    BOTTOM, TOP,    \* the positions of the door, as the potentiometer reads them
    SPEED,          \* the change of position per tick of the clock
    STARTS,         \* the positions the door may stand at when the control boots
    DISTURBANCES,   \* bound: presses of the button on the wall between two commands
    MAX_COMMANDS,   \* bound: how many commands the user sends
    PATIENT         \* whether the user waits for the door to rest between commands

ASSUME DoorAssumption ==
    /\ BOTTOM \in Nat /\ TOP \in Nat /\ BOTTOM < TOP /\ BOTTOM .. TOP \subseteq ADC
    /\ SPEED \in Nat
    /\ STARTS \subseteq BOTTOM .. TOP
    /\ DISTURBANCES \in Nat
    /\ MAX_COMMANDS \in Nat
    /\ PATIENT \in BOOLEAN

VARIABLES
    door_position,  \* where the door is
    door_motion,    \* -1 moves down, 0 stands, 1 moves up
    last_motion,    \* direction of the last movement
    disturbances,   \* presses of the button on the wall since the last command
    commands        \* commands of the user so far

door  == <<door_position, door_motion, last_motion>>
gvars == <<vars, door, disturbances, commands>>

GInit ==
    /\ Init
    /\ door_position \in STARTS
    /\ current_position = door_position
    /\ door_motion = 0
    /\ last_motion \in {-1, 1}
    /\ disturbances = 0
    /\ commands = 0

\* The door after d ticks: the ends of its travel stop it.
PositionAfter(d) ==
    LET p == door_position + door_motion * SPEED * d
    IN  IF p < BOTTOM THEN BOTTOM ELSE IF p > TOP THEN TOP ELSE p

MotionAfter(d) ==
    IF \/ door_motion = -1 /\ PositionAfter(d) = BOTTOM
       \/ door_motion = 1 /\ PositionAfter(d) = TOP
    THEN 0 ELSE door_motion

\* The control has let go of the door and has no command to obey.
Idle == current_state = "DOOR_IDLE" /\ desired_state = "DOOR_IDLE"

\* The opener answers a press that comes while the door has motion m.
Pressed(m) ==
    IF m # 0 THEN door_motion' = 0 /\ last_motion' = m
             ELSE door_motion' = -last_motion /\ last_motion' = -last_motion

Command ==
    /\ commands < MAX_COMMANDS
    /\ PATIENT => Idle /\ door_motion = 0
    /\ commands' = commands + 1
    /\ \E p \in COMMANDS : SetPosition(p)
    /\ disturbances' = 0
    /\ UNCHANGED door

WallButton ==
    /\ disturbances < DISTURBANCES
    /\ disturbances' = disturbances + 1
    /\ Pressed(door_motion)
    /\ UNCHANGED <<vars, door_position, commands>>

Turn(d) ==
    /\ door_position' = PositionAfter(d)
    /\ Execute(d, door_position')
    /\ IF relay_output = 0 /\ relay_output' = 1
       THEN Pressed(MotionAfter(d))
       ELSE door_motion' = MotionAfter(d) /\ UNCHANGED last_motion
    /\ UNCHANGED <<disturbances, commands>>

TurnOfLoop == \E d \in STEPS : Turn(d)

GNext == Command \/ WallButton \/ TurnOfLoop

GSpec == GInit /\ [][GNext]_gvars

\* Core 1 never stops polling; nobody is obliged to send commands.
GFairSpec == GSpec /\ WF_gvars(TurnOfLoop)

-----------------------------------------------------------------------------
GTypeOK ==
    /\ TypeOK
    /\ door_position \in BOTTOM .. TOP
    /\ door_motion \in {-1, 0, 1}
    /\ last_motion \in {-1, 1}
    /\ disturbances \in 0 .. DISTURBANCES
    /\ commands \in 0 .. MAX_COMMANDS

\* The distance that counts as arrived.
Near(p, q) == p - q < DOOR_THRESHOLD /\ q - p < DOOR_THRESHOLD

(***************************************************************************)
(* Once the user sends no more commands, the control eventually lets go of *)
(* the door for good, whatever the commands were and whenever they came.   *)
(***************************************************************************)
ControlReleased == <>[]Idle

(***************************************************************************)
(* A verdict of SUCCESS of a control that rests is true: the door stands   *)
(* within the threshold of the target, or still moves to the end it was    *)
(* sent to and stops there.                                                *)
(***************************************************************************)
SuccessIsTrue ==
    Idle /\ result = "SUCCESS" /\ door_motion = 0
        => Near(door_position, desired_position)
(***************************************************************************)
(* Every command of a patient user is obeyed: the door comes to rest near  *)
(* the target, also when the first press moves it the wrong way and it has *)
(* to be stopped and restarted, and when it runs past a target inside its  *)
(* range while it is being stopped.                                        *)
(***************************************************************************)
CommandObeyed ==
    desired_state = "ACTIVE"
        ~> Idle /\ door_motion = 0 /\ Near(door_position, desired_position)

(***************************************************************************)
(* "If the door moves unexpectingly, the door control will release         *)
(* control": a door that is turned round while it is monitored, because    *)
(* somebody pressed the button on the wall twice, is let go before a       *)
(* sample finds it at the wrong end; no sample of a monitored door is one  *)
(* of an end it was not sent to.                                           *)
(***************************************************************************)
WrongEndNotMonitored ==
    current_state = "MONITOR" /\ desired_state = "MONITOR" /\ current_position \in {BOTTOM, TOP}
        => Near(current_position, desired_position)

(***************************************************************************)
(* Commands at any moment and presses on the wall included, there is one   *)
(* way for the control to hold on to the door for ever: monitoring a door  *)
(* that stands.  It never waits for ever in START or STOP and never        *)
(* presses the button for ever.                                            *)
(***************************************************************************)
HeldOnlyWhileStanding ==
    <>[](Idle \/ (current_state = "MONITOR" /\ door_motion = 0))
=============================================================================
