----------------------------- MODULE DoorHistory -----------------------------
(***************************************************************************)
(* DoorControl with what an observer with a stopwatch remembers: how long  *)
(* ago the button was pressed and the door sampled, and how many samples   *)
(* in a row showed a moving door since the last press.  The potentiometer  *)
(* may read anything at any sample, so what holds here holds for any door, *)
(* any noise and any opener.                                               *)
(***************************************************************************)
EXTENDS DoorControl

CONSTANTS
    AGE_CAP,        \* where the stopwatches stop counting: beyond every delay
    LONGEST_TURN    \* of the polling loop

ASSUME AgeCapAssumption ==
    /\ AGE_CAP \in Nat
    /\ AGE_CAP > RELAY_DELAY
    /\ AGE_CAP > DOOR_SAMPLE_RATE
    /\ AGE_CAP > DOOR_COMMAND_DELAY
    /\ AGE_CAP < TIME_MOD

\* A standing door is counted at least as long as a moving one: 8 to 5 samples.
ASSUME CountOrderAssumption == STABLIZE_COUNT_MAX <= STOP_COUNT

\* A turn of the loop takes some time, and no more than its longest turn; the
\* clock is long enough for a pulse and a turn.
ASSUME TurnAssumption ==
    /\ LONGEST_TURN \in Nat
    /\ STEPS \subseteq 1 .. LONGEST_TURN
    /\ RELAY_DELAY + LONGEST_TURN < MAX_TIME

VARIABLES
    press_age,      \* time since the last press, at most AGE_CAP
    sample_age,     \* time since the last sample, at most AGE_CAP
    moving_polls,   \* moving samples in a row in this START, at most STABLIZE_COUNT_MAX
    interrupted     \* a command cut a count of samples short, none completed since

history == <<press_age, sample_age, moving_polls, interrupted>>
hvars == <<vars, history>>

HInit ==
    /\ Init
    /\ press_age = AGE_CAP
    /\ sample_age = AGE_CAP
    /\ moving_polls = 0
    /\ interrupted = FALSE

Upto(cap, n) == IF n > cap THEN cap ELSE n

\* The time the step takes.
Turn == (now' - now) % TIME_MOD

Sampling == now' # now /\ TimestampElapsed(now', time_stamp, DOOR_SAMPLE_RATE)

Pressing == current_state' # current_state /\ current_state' \in {"START", "STOP"}

HCommand ==
    /\ \E p \in COMMANDS : SetPosition(p)
    /\ interrupted' = (interrupted \/ current_state \in {"START", "STOP"})
    /\ UNCHANGED <<press_age, sample_age, moving_polls>>

HExecute ==
    /\ \E d \in STEPS, adc \in ADC : Execute(d, adc)
    /\ press_age' = IF Pressing THEN 0 ELSE Upto(AGE_CAP, press_age + Turn)
    /\ sample_age' = IF Sampling THEN 0 ELSE Upto(AGE_CAP, sample_age + Turn)
    /\ moving_polls' =
         IF ~Sampling THEN moving_polls
         ELSE IF current_state = "START" /\ IsMoving
              THEN Upto(STABLIZE_COUNT_MAX, moving_polls + 1) ELSE 0
    /\ interrupted' =
         (interrupted /\ ~(/\ Sampling
                           /\ current_state \in {"START", "STOP"}
                           /\ (current_state = "START") # IsMoving))

HNext == HCommand \/ HExecute

HSpec == HInit /\ [][HNext]_hvars

-----------------------------------------------------------------------------
(***************************************************************************)
(* A pulse of the relay is never cut short: when the relay opens, more     *)
(* than RELAY_DELAY passed since the last press, across a wrap of the      *)
(* clock and with presses that follow one another (a second press while    *)
(* the relay is closed prolongs the pulse).                                *)
(***************************************************************************)
PulseNeverShort ==
    [][relay_output = 1 /\ relay_output' = 0 => press_age' > RELAY_DELAY]_hvars

(***************************************************************************)
(* Nor does a pulse go on: at the end of every turn, a relay that is       *)
(* closed was told to close no more than RELAY_DELAY ago, whatever state   *)
(* the control is in and however its samples, which return early, fall.    *)
(* Unless the deadline lies in the last turn before the clock wraps: the   *)
(* comparison can miss such a deadline, and then the relay stays closed    *)
(* until the clock has come round (71 minutes), or for ever if the         *)
(* deadline is the clock's last value.                                     *)
(***************************************************************************)
RelayNotOverdue ==
    relay_output = 1 /\ relay_time < TIME_MOD - LONGEST_TURN => press_age <= RELAY_DELAY

(***************************************************************************)
(* The door gets its time: without a new command, the control gives up     *)
(* waiting for a still door (and goes on to press again) only when more    *)
(* than DOOR_COMMAND_DELAY passed since the press.                         *)
(***************************************************************************)
RetryNeverEarly ==
    [][/\ current_state = "START" /\ desired_state = "START"
       /\ current_state' = "ACTIVE" /\ ~IsMoving
       => press_age' > DOOR_COMMAND_DELAY]_hvars

(***************************************************************************)
(* Samples are more than DOOR_SAMPLE_RATE apart: the thresholds on the     *)
(* mean change of position suppose a minimal distance between samples.     *)
(***************************************************************************)
SampleNeverEarly ==
    [][Sampling => sample_age + Turn > DOOR_SAMPLE_RATE]_hvars

(***************************************************************************)
(* "The door is moving once the moving threshold is met for enough polls": *)
(* monitoring starts only after STABLIZE_COUNT_MAX moving samples in a     *)
(* row, as long as no command interrupted START or STOP, although the      *)
(* count starts at whatever the previous states left in stablize_count.    *)
(* (After a command that cuts a count short, one moving sample is enough.) *)
(***************************************************************************)
UninterruptedDebounce ==
    [][current_state = "START" /\ current_state' = "MONITOR" /\ ~interrupted
       => moving_polls' >= STABLIZE_COUNT_MAX]_hvars
=============================================================================
