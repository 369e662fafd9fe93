-------------------------- MODULE DoorHistoryProofs --------------------------
(***************************************************************************)
(* The three timers of the door control never fire early, and the relay    *)
(* opens in time, for every width of the clock, every delay, every rhythm  *)
(* of the polling loop and every reading of the potentiometer.             *)
(***************************************************************************)
EXTENDS DoorHistory, TLAPS

\* A deadline, the time since it was computed and the clock agree, modulo the
\* clock, as long as the stopwatch has not stopped.
Tied(stamp, age, delay, at) ==
    age < AGE_CAP =>
        \/ stamp + age = at + delay
        \/ stamp + age = at + delay - TIME_MOD
        \/ stamp + age = at + delay + TIME_MOD

LEMMA Constants ==
    /\ TIME_MOD \in Nat /\ TIME_MOD > 0 /\ AGE_CAP \in Nat /\ AGE_CAP < TIME_MOD
    /\ RELAY_DELAY \in 0 .. AGE_CAP - 1
    /\ DOOR_SAMPLE_RATE \in 0 .. AGE_CAP - 1
    /\ DOOR_COMMAND_DELAY \in 0 .. AGE_CAP - 1
BY TimeAssumption, DelaysAssumption, AgeCapAssumption

\* A turn is shorter than a period of the clock.
LEMMA Turns ==
    /\ LONGEST_TURN \in Nat /\ RELAY_DELAY + LONGEST_TURN < MAX_TIME
    /\ \A d \in STEPS : d \in 1 .. LONGEST_TURN /\ d \in 1 .. TIME_MOD - 1
BY Constants, TurnAssumption DEF MAX_TIME

\* The clock n ticks after it showed a: at most one wrap.
LEMMA UAddEither ==
    ASSUME NEW a \in Time, NEW n \in 0 .. TIME_MOD - 1
    PROVE  /\ UAdd(a, n) \in Time
           /\ UAdd(a, n) = a + n \/ UAdd(a, n) = a + n - TIME_MOD
BY Constants DEF UAdd, Time, MAX_TIME

\* What a turn of the loop does to the clock, and the time an observer reads
\* off it.
LEMMA TurnOfClock ==
    ASSUME NEW a \in Time, NEW d \in 1 .. TIME_MOD - 1, NEW b, b = UAdd(a, d)
    PROVE  /\ b \in Time /\ b # a
           /\ b = a + d \/ b = a + d - TIME_MOD
           /\ (b - a) % TIME_MOD = d
<1>1. b \in Time /\ (b = a + d \/ b = a + d - TIME_MOD)
  BY Constants, UAddEither
<1>2. a \in Int /\ b \in Int /\ d \in Int /\ TIME_MOD \in Nat /\ TIME_MOD > 0
      /\ 0 < d /\ d < TIME_MOD
  BY <1>1, Constants DEF Time, MAX_TIME
<1>3. b # a
  BY <1>1, <1>2
<1>4. CASE b = a + d
  <2>1. b - a = d
    BY <1>2, <1>4
  <2>2. d % TIME_MOD = d
    BY <1>2
  <2> QED BY <1>1, <1>3, <2>1, <2>2
<1>5. CASE b = a + d - TIME_MOD
  <2>1. b - a = d - TIME_MOD
    BY <1>2, <1>5
  <2>2. (d - TIME_MOD) % TIME_MOD = d
    BY <1>2
  <2> QED BY <1>1, <1>3, <2>1, <2>2
<1> QED BY <1>1, <1>4, <1>5

\* A deadline that has just been computed.
LEMMA TiedFresh ==
    ASSUME NEW at \in Time, NEW delay \in 0 .. AGE_CAP - 1
    PROVE  UAdd(at, delay) \in Time /\ Tied(UAdd(at, delay), 0, delay, at)
<1>1. delay \in 0 .. TIME_MOD - 1
  BY Constants
<1>2. UAdd(at, delay) \in Time
      /\ (UAdd(at, delay) = at + delay \/ UAdd(at, delay) = at + delay - TIME_MOD)
  BY <1>1, UAddEither
<1> QED BY <1>2, Constants DEF Tied, Time, MAX_TIME

\* A deadline that stays: it is tied to the clock after the turn as well, and
\* timestamp_elapsed is true of it only if the delay has passed.
LEMMA TiedOn ==
    ASSUME NEW a \in Time, NEW d \in 1 .. TIME_MOD - 1, NEW b, b = UAdd(a, d),
           NEW stamp \in Time, NEW age \in 0 .. AGE_CAP, NEW delay \in 0 .. AGE_CAP - 1,
           Tied(stamp, age, delay, a)
    PROVE  /\ Upto(AGE_CAP, age + d) \in 0 .. AGE_CAP
           /\ Tied(stamp, Upto(AGE_CAP, age + d), delay, b)
           /\ TimestampElapsed(b, stamp, delay) => /\ age + d > delay
                                                   /\ Upto(AGE_CAP, age + d) > delay
<1>1. b \in Time /\ (b = a + d \/ b = a + d - TIME_MOD)
  BY TurnOfClock
<1>2. /\ a \in Int /\ b \in Int /\ stamp \in Int
      /\ 0 <= b /\ b < TIME_MOD /\ 0 <= stamp /\ stamp < TIME_MOD
      /\ 0 <= a /\ a < TIME_MOD /\ 0 <= age /\ 0 <= delay
  BY <1>1, Constants DEF Time, MAX_TIME
<1>3. Upto(AGE_CAP, age + d) \in 0 .. AGE_CAP
  BY Constants DEF Upto
<1>4. CASE age + d >= AGE_CAP
  BY <1>2, <1>3, <1>4, Constants DEF Upto, Tied
<1>5. CASE age + d < AGE_CAP
  <2>1. Upto(AGE_CAP, age + d) = age + d /\ age < AGE_CAP
    BY <1>2, <1>5, Constants DEF Upto
  <2>2. \/ stamp + age = a + delay
        \/ stamp + age = a + delay - TIME_MOD
        \/ stamp + age = a + delay + TIME_MOD
    BY <2>1 DEF Tied
  <2>3. \/ stamp + (age + d) = b + delay
        \/ stamp + (age + d) = b + delay - TIME_MOD
        \/ stamp + (age + d) = b + delay + TIME_MOD
    BY <1>1, <1>2, <1>5, <2>2, Constants
  <2>4. TimestampElapsed(b, stamp, delay) => age + d > delay
    BY <1>2, <2>3, Constants DEF TimestampElapsed, MAX_TIME
  <2> QED BY <1>3, <2>1, <2>3, <2>4 DEF Tied
<1> QED BY <1>2, <1>4, <1>5, Constants

-----------------------------------------------------------------------------
(***************************************************************************)
(* The inductive invariant: each deadline of the struct is tied to its     *)
(* stopwatch.                                                              *)
(***************************************************************************)
TimersTyped ==
    /\ now \in Time
    /\ relay_time \in Time /\ command_time \in Time /\ time_stamp \in Time
    /\ press_age \in 0 .. AGE_CAP /\ sample_age \in 0 .. AGE_CAP

HInv ==
    /\ TimersTyped
    /\ Tied(relay_time, press_age, RELAY_DELAY, now)
    /\ Tied(command_time, press_age, DOOR_COMMAND_DELAY, now)
    /\ Tied(time_stamp, sample_age, DOOR_SAMPLE_RATE, now)

LEMMA HInitInv == HInit => HInv
<1>1. ASSUME HInit PROVE TimersTyped
  BY <1>1, Constants, InputsAssumption DEF HInit, Init, TimersTyped, Time, MAX_TIME
<1>2. ASSUME HInit PROVE press_age = AGE_CAP /\ sample_age = AGE_CAP
  BY <1>2 DEF HInit
<1> QED BY <1>1, <1>2, Constants DEF HInv, Tied

\* The relay, its deadline and that of the command after a sample.
Pressed ==
    /\ Pressing /\ relay_output' = 1
    /\ relay_time' = UAdd(now', RELAY_DELAY)
    /\ command_time' = UAdd(now', DOOR_COMMAND_DELAY)
NotPressed ==
    /\ ~Pressing /\ relay_output' = RelayAfterRelease
    /\ UNCHANGED <<relay_time, command_time>>

LEMMA SettlePresses ==
    ASSUME NEW state, Settle(state)
    PROVE  Pressed \/ NotPressed
BY DEF Settle, Pressed, NotPressed, Pressing

\* Every turn samples or does not, and presses or does not.
LEMMA ExecuteOutcomes ==
    ASSUME HInv, NEW d \in STEPS, NEW adc \in ADC, Execute(d, adc)
    PROVE  /\ now' = UAdd(now, d)
           /\ Pressed \/ NotPressed
           /\ \/ Sampling /\ time_stamp' = UAdd(now', DOOR_SAMPLE_RATE)
              \/ ~Sampling /\ UNCHANGED time_stamp
<1>1. CASE PollOnly(d)
  BY <1>1 DEF PollOnly, NotPressed, Pressing, Sampling, control, timers
<1>2. ASSUME NEW state, Sample(d, adc), Settle(state)
      PROVE  /\ now' = UAdd(now, d)
             /\ Pressed \/ NotPressed
             /\ Sampling /\ time_stamp' = UAdd(now', DOOR_SAMPLE_RATE)
  <2>1. now' = UAdd(now, d) /\ d \in 1 .. TIME_MOD - 1 /\ now \in Time
    BY <1>2, Turns DEF Sample, HInv, TimersTyped
  <2>2. now' # now
    BY <2>1, TurnOfClock
  <2> QED BY <1>2, <2>1, <2>2, SettlePresses DEF Sample, Sampling
<1>3. \/ PollOnly(d)
      \/ Sample(d, adc) /\ \E state : Settle(state)
  BY DEF Execute, StartMoving, StartStill, StopStill, StopMoving, MonitorReached,
         MonitorWrongWay, MonitorOn, SampleActive, SampleIdle
<1> QED BY <1>1, <1>2, <1>3

\* The stopwatches after a turn, and what an elapsed deadline says of them.
LEMMA ExecuteInv ==
    ASSUME HInv, NEW d \in STEPS, NEW adc \in ADC, Execute(d, adc),
           press_age' = IF Pressing THEN 0 ELSE Upto(AGE_CAP, press_age + Turn),
           sample_age' = IF Sampling THEN 0 ELSE Upto(AGE_CAP, sample_age + Turn)
    PROVE  /\ HInv'
           /\ TimestampElapsed(now', time_stamp, DOOR_SAMPLE_RATE)
                  => sample_age + Turn > DOOR_SAMPLE_RATE
           /\ NotPressed /\ TimestampElapsed(now', relay_time, RELAY_DELAY)
                  => press_age' > RELAY_DELAY
           /\ NotPressed /\ TimestampElapsed(now', command_time, DOOR_COMMAND_DELAY)
                  => press_age' > DOOR_COMMAND_DELAY
<1>0. now' = UAdd(now, d) /\ d \in 1 .. TIME_MOD - 1 /\ now \in Time
  BY ExecuteOutcomes, Turns DEF HInv, TimersTyped
<1>1. now' \in Time /\ Turn = d
  BY <1>0, TurnOfClock DEF Turn
<1>2. /\ UAdd(now', RELAY_DELAY) \in Time /\ Tied(UAdd(now', RELAY_DELAY), 0, RELAY_DELAY, now')
      /\ UAdd(now', DOOR_COMMAND_DELAY) \in Time
      /\ Tied(UAdd(now', DOOR_COMMAND_DELAY), 0, DOOR_COMMAND_DELAY, now')
      /\ UAdd(now', DOOR_SAMPLE_RATE) \in Time
      /\ Tied(UAdd(now', DOOR_SAMPLE_RATE), 0, DOOR_SAMPLE_RATE, now')
  BY <1>1, Constants, TiedFresh
<1>3. /\ Upto(AGE_CAP, press_age + d) \in 0 .. AGE_CAP
      /\ Tied(relay_time, Upto(AGE_CAP, press_age + d), RELAY_DELAY, now')
      /\ TimestampElapsed(now', relay_time, RELAY_DELAY)
             => Upto(AGE_CAP, press_age + d) > RELAY_DELAY
  BY <1>0, Constants, TiedOn DEF HInv, TimersTyped
<1>4. /\ Tied(command_time, Upto(AGE_CAP, press_age + d), DOOR_COMMAND_DELAY, now')
      /\ TimestampElapsed(now', command_time, DOOR_COMMAND_DELAY)
             => Upto(AGE_CAP, press_age + d) > DOOR_COMMAND_DELAY
  BY <1>0, Constants, TiedOn DEF HInv, TimersTyped
<1>5. /\ Upto(AGE_CAP, sample_age + d) \in 0 .. AGE_CAP
      /\ Tied(time_stamp, Upto(AGE_CAP, sample_age + d), DOOR_SAMPLE_RATE, now')
      /\ TimestampElapsed(now', time_stamp, DOOR_SAMPLE_RATE)
             => sample_age + d > DOOR_SAMPLE_RATE
  BY <1>0, Constants, TiedOn DEF HInv, TimersTyped
<1>6. /\ relay_time' \in Time /\ command_time' \in Time /\ press_age' \in 0 .. AGE_CAP
      /\ Tied(relay_time', press_age', RELAY_DELAY, now')
      /\ Tied(command_time', press_age', DOOR_COMMAND_DELAY, now')
  <2>1. CASE Pressed
    <3>1. /\ press_age' = 0 /\ relay_time' = UAdd(now', RELAY_DELAY)
          /\ command_time' = UAdd(now', DOOR_COMMAND_DELAY)
      BY <2>1 DEF Pressed
    <3>2. 0 \in 0 .. AGE_CAP
      BY Constants
    <3> QED BY <1>2, <3>1, <3>2
  <2>2. CASE NotPressed
    <3>1. /\ press_age' = Upto(AGE_CAP, press_age + d)
          /\ relay_time' = relay_time /\ command_time' = command_time
      BY <1>1, <2>2 DEF NotPressed
    <3> QED BY <1>3, <1>4, <3>1 DEF HInv, TimersTyped
  <2> QED BY <2>1, <2>2, ExecuteOutcomes
<1>7. /\ time_stamp' \in Time /\ sample_age' \in 0 .. AGE_CAP
      /\ Tied(time_stamp', sample_age', DOOR_SAMPLE_RATE, now')
  <2>1. CASE Sampling /\ time_stamp' = UAdd(now', DOOR_SAMPLE_RATE)
    <3>1. sample_age' = 0 /\ 0 \in 0 .. AGE_CAP
      BY <2>1, Constants
    <3> QED BY <1>2, <2>1, <3>1
  <2>2. CASE ~Sampling /\ UNCHANGED time_stamp
    <3>1. sample_age' = Upto(AGE_CAP, sample_age + d) /\ time_stamp' = time_stamp
      BY <1>1, <2>2
    <3> QED BY <1>5, <3>1 DEF HInv, TimersTyped
  <2> QED BY <2>1, <2>2, ExecuteOutcomes
<1>8. HInv'
  BY <1>1, <1>6, <1>7 DEF HInv, TimersTyped, Tied
<1>9. NotPressed => press_age' = Upto(AGE_CAP, press_age + d)
  BY <1>1 DEF NotPressed
<1> QED BY <1>1, <1>3, <1>4, <1>5, <1>8, <1>9

LEMMA HNextInv == HInv /\ [HNext]_hvars => HInv'
<1> SUFFICES ASSUME HInv, [HNext]_hvars PROVE HInv'
  OBVIOUS
<1>1. ASSUME HExecute PROVE HInv'
  BY <1>1, ExecuteInv DEF HExecute
<1>2. ASSUME UNCHANGED <<now, relay_time, command_time, time_stamp, press_age, sample_age>>
      PROVE  HInv'
  BY <1>2 DEF HInv, TimersTyped, Tied
<1>3. HCommand \/ UNCHANGED hvars
          => UNCHANGED <<now, relay_time, command_time, time_stamp, press_age, sample_age>>
  BY DEF HCommand, SetPosition, timers, hvars, vars, history
<1> QED BY <1>1, <1>2, <1>3 DEF HNext

THEOREM HInvariance == HSpec => []HInv
  BY HInitInv, HNextInv, PTL DEF HSpec

\* A command takes no time and touches neither the relay nor a sample.
LEMMA CommandQuiet ==
    ASSUME HCommand
    PROVE  now' = now /\ relay_output' = relay_output /\ current_state' = current_state
BY DEF HCommand, SetPosition

(***************************************************************************)
(* The relay stays closed for more than RELAY_DELAY after every press.     *)
(***************************************************************************)
THEOREM PulsesNeverShort == HSpec => PulseNeverShort
<1>1. HInv /\ [HNext]_hvars
          => [relay_output = 1 /\ relay_output' = 0 => press_age' > RELAY_DELAY]_hvars
  <2> SUFFICES ASSUME HInv, HNext, relay_output = 1, relay_output' = 0
               PROVE  press_age' > RELAY_DELAY
    OBVIOUS
  <2>1. HExecute
    BY CommandQuiet DEF HNext
  <2>2. PICK d \in STEPS, adc \in ADC : Execute(d, adc)
    BY <2>1 DEF HExecute
  <2>3. NotPressed /\ TimestampElapsed(now', relay_time, RELAY_DELAY)
    BY <2>2, ExecuteOutcomes DEF Pressed, NotPressed, RelayAfterRelease
  <2> QED BY <2>1, <2>2, <2>3, ExecuteInv DEF HExecute
<1> QED BY <1>1, HInvariance, PTL DEF HSpec, PulseNeverShort

\* A deadline that is not in the last turn before the wrap is seen by the first
\* turn that comes after it.
LEMMA NoDeadlineMissed ==
    ASSUME NEW a \in Time, NEW d \in 1 .. LONGEST_TURN, NEW b, b = UAdd(a, d),
           NEW stamp \in Time, stamp < TIME_MOD - LONGEST_TURN,
           NEW age \in 0 .. RELAY_DELAY, Tied(stamp, age, RELAY_DELAY, a),
           ~TimestampElapsed(b, stamp, RELAY_DELAY)
    PROVE  Upto(AGE_CAP, age + d) <= RELAY_DELAY
<1>1. /\ TIME_MOD \in Nat /\ LONGEST_TURN \in Nat /\ RELAY_DELAY \in Nat
      /\ RELAY_DELAY < AGE_CAP /\ AGE_CAP \in Nat
      /\ RELAY_DELAY + LONGEST_TURN < TIME_MOD - 1
  BY Constants, Turns DEF MAX_TIME
<1>2. /\ a \in 0 .. TIME_MOD - 1 /\ b \in 0 .. TIME_MOD - 1 /\ stamp \in 0 .. TIME_MOD - 1
      /\ b = a + d \/ b = a + d - TIME_MOD
  <2>1. d \in 1 .. TIME_MOD - 1
    BY <1>1
  <2> QED BY <2>1, TurnOfClock DEF Time, MAX_TIME
<1>3. \/ stamp + age = a + RELAY_DELAY
      \/ stamp + age = a + RELAY_DELAY - TIME_MOD
      \/ stamp + age = a + RELAY_DELAY + TIME_MOD
  BY <1>1 DEF Tied
<1>4. SUFFICES ASSUME age + d > RELAY_DELAY PROVE FALSE
  BY <1>1 DEF Upto
<1>5. b = stamp + (age + d - RELAY_DELAY)
  BY <1>1, <1>2, <1>3, <1>4
<1>6. b > stamp /\ (TIME_MOD - 1 - b) + stamp > RELAY_DELAY
  BY <1>1, <1>2, <1>4, <1>5
<1> QED BY <1>6 DEF TimestampElapsed, MAX_TIME

(***************************************************************************)
(* A relay that is closed after a turn was closed no more than RELAY_DELAY *)
(* ago, unless its deadline lies in the last turn before the clock wraps.  *)
(***************************************************************************)
THEOREM RelayReleased == HSpec => []RelayNotOverdue
<1>1. HInit => RelayNotOverdue
  BY DEF HInit, Init, RelayNotOverdue
<1>2. HInv /\ RelayNotOverdue /\ [HNext]_hvars => RelayNotOverdue'
  <2> SUFFICES ASSUME HInv, RelayNotOverdue, [HNext]_hvars PROVE RelayNotOverdue'
    OBVIOUS
  <2>1. CASE HExecute
    <3>1. PICK d \in STEPS, adc \in ADC : Execute(d, adc)
      BY <2>1 DEF HExecute
    <3>2. /\ now' = UAdd(now, d) /\ d \in 1 .. LONGEST_TURN /\ d \in 1 .. TIME_MOD - 1
          /\ now \in Time /\ relay_time \in Time /\ press_age \in 0 .. AGE_CAP
      BY <3>1, ExecuteOutcomes, Turns DEF HInv, TimersTyped
    <3>3. Turn = d
      BY <3>2, TurnOfClock DEF Turn
    <3>4. CASE Pressed
      <4>1. press_age' = 0 /\ RELAY_DELAY \in Nat
        BY <2>1, <3>4, Constants DEF HExecute, Pressed
      <4> QED BY <4>1 DEF RelayNotOverdue
    <3>5. CASE NotPressed
      <4>1. press_age' = Upto(AGE_CAP, press_age + d) /\ relay_time' = relay_time
        BY <2>1, <3>3, <3>5 DEF HExecute, NotPressed
      <4>2. SUFFICES ASSUME relay_output' = 1, relay_time < TIME_MOD - LONGEST_TURN
                     PROVE  Upto(AGE_CAP, press_age + d) <= RELAY_DELAY
        BY <4>1 DEF RelayNotOverdue
      <4>3. relay_output = 1 /\ ~TimestampElapsed(now', relay_time, RELAY_DELAY)
        BY <3>5, <4>2 DEF NotPressed, RelayAfterRelease
      <4>4. press_age \in 0 .. RELAY_DELAY
        BY <3>2, <4>2, <4>3, Constants DEF RelayNotOverdue
      <4> QED BY <3>2, <4>2, <4>3, <4>4, NoDeadlineMissed DEF HInv
    <3> QED BY <3>1, <3>4, <3>5, ExecuteOutcomes
  <2>2. CASE HCommand
    BY <2>2 DEF HCommand, SetPosition, timers, RelayNotOverdue
  <2>3. CASE UNCHANGED hvars
    BY <2>3 DEF hvars, vars, timers, history, RelayNotOverdue
  <2> QED BY <2>1, <2>2, <2>3 DEF HNext
<1> QED BY <1>1, <1>2, HInvariance, PTL DEF HSpec

(***************************************************************************)
(* The control waits more than DOOR_COMMAND_DELAY for a door that does not *)
(* move before it presses again.                                           *)
(***************************************************************************)
THEOREM RetriesNeverEarly == HSpec => RetryNeverEarly
<1> DEFINE GivesUp == /\ current_state = "START" /\ desired_state = "START"
                      /\ current_state' = "ACTIVE" /\ ~IsMoving
<1>1. HInv /\ [HNext]_hvars => [GivesUp => press_age' > DOOR_COMMAND_DELAY]_hvars
  <2> SUFFICES ASSUME HInv, HNext, GivesUp PROVE press_age' > DOOR_COMMAND_DELAY
    OBVIOUS
  <2>1. HExecute
    BY CommandQuiet DEF HNext
  <2>2. PICK d \in STEPS, adc \in ADC : Execute(d, adc)
    BY <2>1 DEF HExecute
  <2>3. StartStill(d, adc)
    BY <2>2 DEF Execute, PollOnly, control, StartMoving, StopStill, StopMoving, MonitorReached,
                MonitorWrongWay, MonitorOn, SampleActive, SampleIdle
  <2>4. TimestampElapsed(now', command_time, DOOR_COMMAND_DELAY)
    BY <2>3 DEF StartStill, Settle
  <2>5. NotPressed
    BY <2>2, ExecuteOutcomes DEF Pressed, Pressing
  <2> QED BY <2>1, <2>2, <2>4, <2>5, ExecuteInv DEF HExecute
<1> QED BY <1>1, HInvariance, PTL DEF HSpec, RetryNeverEarly

(***************************************************************************)
(* Two samples are more than DOOR_SAMPLE_RATE apart.                       *)
(***************************************************************************)
THEOREM SamplesNeverEarly == HSpec => SampleNeverEarly
<1>1. HInv /\ [HNext]_hvars => [Sampling => sample_age + Turn > DOOR_SAMPLE_RATE]_hvars
  <2> SUFFICES ASSUME HInv, HNext, Sampling PROVE sample_age + Turn > DOOR_SAMPLE_RATE
    OBVIOUS
  <2>1. HExecute
    BY CommandQuiet DEF HNext, Sampling
  <2> QED BY <2>1, ExecuteInv DEF HExecute, Sampling
<1> QED BY <1>1, HInvariance, PTL DEF HSpec, SampleNeverEarly

-----------------------------------------------------------------------------
(***************************************************************************)
(* The debounce.  Uninterrupted, START is entered with a count that was    *)
(* run down or that is at least as long as the debounce, and from then on  *)
(* what is left of the count and the moving samples seen cover it.         *)
(***************************************************************************)
CountTyped ==
    /\ stablize_count \in 0 .. COUNT_MOD - 1
    /\ moving_polls \in 0 .. STABLIZE_COUNT_MAX
    /\ desired_state \in {current_state, "ACTIVE"}

RunDown(state, count, polls) ==
    /\ state = "START" =>
          \/ count = 0 /\ polls = 0
          \/ count > 0 /\ count + polls >= STABLIZE_COUNT_MAX
    /\ state \notin {"START", "STOP"} => count = 0 \/ count >= STABLIZE_COUNT_MAX

Counted ==
    ~interrupted =>
        /\ current_state \in {"START", "STOP"} => desired_state = current_state
        /\ RunDown(current_state, stablize_count, moving_polls)

DInv == HInv /\ CountTyped /\ Counted

LEMMA Counts ==
    /\ COUNT_MOD \in Nat /\ STABLIZE_COUNT_MAX \in 1 .. COUNT_MOD - 1
    /\ STOP_COUNT \in STABLIZE_COUNT_MAX .. COUNT_MOD - 1
BY CountsAssumption, CountOrderAssumption

\* The count as a uint8_t, one less.
LEMMA OneLess ==
    ASSUME stablize_count \in 0 .. COUNT_MOD - 1
    PROVE  /\ Decremented \in 0 .. COUNT_MOD - 1
           /\ stablize_count = 0 => Decremented = COUNT_MOD - 1
           /\ stablize_count > 0 => Decremented = stablize_count - 1
BY Counts DEF Decremented

\* The moving samples after a sample.
LEMMA Polls ==
    ASSUME CountTyped
    PROVE  /\ Upto(STABLIZE_COUNT_MAX, moving_polls + 1) \in 1 .. STABLIZE_COUNT_MAX
           /\ \/ Upto(STABLIZE_COUNT_MAX, moving_polls + 1) = moving_polls + 1
              \/ Upto(STABLIZE_COUNT_MAX, moving_polls + 1) = STABLIZE_COUNT_MAX
BY Counts DEF CountTyped, Upto

\* A moving sample of START: the count is one less, the polls one more.
LEMMA MovingSample ==
    ASSUME CountTyped, RunDown("START", stablize_count, moving_polls)
    PROVE  LET polls == Upto(STABLIZE_COUNT_MAX, moving_polls + 1) IN
           /\ Decremented = 0 => polls = STABLIZE_COUNT_MAX
           /\ Decremented # 0 => RunDown("START", Decremented, polls)
<1> DEFINE polls == Upto(STABLIZE_COUNT_MAX, moving_polls + 1)
<1>1. /\ polls \in 1 .. STABLIZE_COUNT_MAX
      /\ polls = moving_polls + 1 \/ polls = STABLIZE_COUNT_MAX
  BY Polls
<1> HIDE DEF polls
<1>2. /\ stablize_count \in Nat /\ moving_polls \in Nat /\ Decremented \in Nat
      /\ stablize_count = 0 => Decremented = COUNT_MOD - 1
      /\ stablize_count > 0 => Decremented = stablize_count - 1
      /\ stablize_count \in 0 .. COUNT_MOD - 1
  BY OneLess, Counts DEF CountTyped
<1>3. CASE stablize_count = 0
  BY <1>1, <1>2, <1>3, Counts DEF RunDown, polls
<1>4. CASE stablize_count > 0 /\ stablize_count + moving_polls >= STABLIZE_COUNT_MAX
  <2>1. Decremented + polls >= STABLIZE_COUNT_MAX
    BY <1>1, <1>2, <1>4, Counts
  <2> QED BY <1>1, <1>2, <1>4, <2>1, Counts DEF RunDown, polls
<1> QED BY <1>3, <1>4 DEF RunDown

LEMMA HInitCounted == HInit => CountTyped /\ Counted
BY Counts DEF HInit, Init, CountTyped, Counted, RunDown

\* A sample decides on a state and keeps the count, or changes it in START and
\* STOP only.
LEMMA SampleCounted ==
    ASSUME DInv, HExecute, Sampling
    PROVE  CountTyped' /\ Counted'
<1>0. CountTyped /\ Counted
  BY DEF DInv
<1>1. PICK d \in STEPS, adc \in ADC : Execute(d, adc)
  BY DEF HExecute
<1>2. ~PollOnly(d)
  BY DEF Sampling, PollOnly
<1>3. /\ moving_polls' = IF current_state = "START" /\ IsMoving
                         THEN Upto(STABLIZE_COUNT_MAX, moving_polls + 1) ELSE 0
      /\ interrupted' <=> (interrupted /\ ~(/\ current_state \in {"START", "STOP"}
                                            /\ (current_state = "START") # IsMoving))
  BY DEF HExecute
<1>4. moving_polls' \in 0 .. STABLIZE_COUNT_MAX
  BY <1>0, <1>3, Polls, Counts
<1>5. CASE StartMoving(d, adc)
  <2>1. /\ current_state = "START" /\ IsMoving /\ stablize_count' = Decremented
        /\ desired_state' = current_state'
        /\ current_state' = IF Decremented # 0 THEN desired_state
                            ELSE IF TowardsTarget(NewMean(adc)) THEN "MONITOR" ELSE "ACTIVE"
    BY <1>5 DEF StartMoving, Settle
  <2>2. /\ moving_polls' = Upto(STABLIZE_COUNT_MAX, moving_polls + 1)
        /\ interrupted' <=> interrupted
    BY <1>3, <2>1
  <2>3. CountTyped'
    BY <1>0, <1>4, <2>1, OneLess DEF CountTyped
  <2>4. ASSUME ~interrupted' PROVE RunDown(current_state, stablize_count, moving_polls)'
    <3>1. desired_state = "START" /\ RunDown("START", stablize_count, moving_polls)
      BY <1>0, <2>1, <2>2, <2>4 DEF Counted
    <3>2. CASE Decremented = 0
      BY <2>1, <3>2 DEF RunDown
    <3>3. CASE Decremented # 0
      BY <1>0, <2>1, <2>2, <3>1, <3>3, MovingSample
    <3> QED BY <3>2, <3>3
  <2> QED BY <2>1, <2>3, <2>4 DEF Counted
<1>6. CASE StartStill(d, adc)
  <2>1. /\ current_state = "START" /\ ~IsMoving /\ stablize_count' = STABLIZE_COUNT_MAX
        /\ desired_state' = current_state' /\ current_state' \in {"ACTIVE", desired_state}
    BY <1>6 DEF StartStill, Settle
  <2>2. current_state' \in {"START", "ACTIVE"} /\ moving_polls' = 0
    BY <1>0, <1>3, <2>1 DEF CountTyped
  <2> QED BY <1>4, <2>1, <2>2, Counts DEF CountTyped, Counted, RunDown
<1>7. CASE StopStill(d, adc)
  <2>1. /\ current_state = "STOP" /\ ~IsMoving /\ stablize_count' = Decremented
        /\ desired_state' = current_state'
        /\ current_state' = IF Decremented = 0 THEN "ACTIVE" ELSE desired_state
    BY <1>7 DEF StopStill, Settle
  <2>2. interrupted' <=> interrupted
    BY <1>3, <2>1 DEF IsMoving
  <2>3. CountTyped'
    BY <1>0, <1>4, <2>1, OneLess DEF CountTyped
  <2>4. ~interrupted' => desired_state = "STOP"
    BY <1>0, <2>1, <2>2 DEF Counted
  <2> QED BY <2>1, <2>3, <2>4 DEF Counted, RunDown
<1>8. CASE StopMoving(d, adc)
  <2>1. /\ current_state = "STOP" /\ stablize_count' = STOP_COUNT
        /\ desired_state' = current_state' /\ current_state' = desired_state
    BY <1>8 DEF StopMoving, Settle
  <2>2. current_state' \in {"STOP", "ACTIVE"}
    BY <1>0, <2>1 DEF CountTyped
  <2>3. CountTyped'
    BY <1>4, <2>1, Counts DEF CountTyped
  <2>4. RunDown(current_state, stablize_count, moving_polls)'
    BY <2>1, <2>2, Counts DEF RunDown
  <2> QED BY <2>1, <2>3, <2>4 DEF Counted
<1>9. CASE \/ MonitorReached(d, adc) \/ MonitorWrongWay(d, adc) \/ MonitorOn(d, adc)
           \/ SampleActive(d, adc) \/ SampleIdle(d, adc)
  <2>1. /\ current_state \notin {"START", "STOP"} /\ stablize_count' = stablize_count
        /\ desired_state' = current_state'
    BY <1>9 DEF MonitorReached, MonitorWrongWay, MonitorOn, SampleActive, SampleIdle, Settle
  <2>2. moving_polls' = 0 /\ (interrupted' <=> interrupted)
    BY <1>3, <2>1
  <2>3. ~interrupted => stablize_count = 0 \/ stablize_count >= STABLIZE_COUNT_MAX
    BY <1>0, <2>1 DEF Counted, RunDown
  <2>4. stablize_count \in 0 .. COUNT_MOD - 1
    BY <1>0 DEF CountTyped
  <2>5. CountTyped'
    BY <1>4, <2>1, <2>4 DEF CountTyped
  <2>6. ~interrupted' => RunDown(current_state, stablize_count, moving_polls)'
    BY <2>1, <2>2, <2>3, <2>4, Counts DEF RunDown
  <2> QED BY <2>1, <2>5, <2>6 DEF Counted
<1> QED BY <1>1, <1>2, <1>5, <1>6, <1>7, <1>8, <1>9 DEF Execute

LEMMA DNextInv == DInv /\ [HNext]_hvars => DInv'
<1> SUFFICES ASSUME DInv, [HNext]_hvars PROVE DInv'
  OBVIOUS
<1>1. HInv'
  BY HNextInv DEF DInv
<1>2. CASE HCommand
  <2>1. /\ desired_state' = "ACTIVE" /\ UNCHANGED <<current_state, stablize_count, moving_polls>>
        /\ interrupted' = (interrupted \/ current_state \in {"START", "STOP"})
    BY <1>2 DEF HCommand, SetPosition
  <2> QED BY <1>1, <2>1 DEF DInv, CountTyped, Counted, RunDown
<1>3. CASE HExecute /\ Sampling
  BY <1>1, <1>3, SampleCounted DEF DInv
<1>4. CASE HExecute /\ ~Sampling
  <2>1. PICK d \in STEPS, adc \in ADC : Execute(d, adc)
    BY <1>4 DEF HExecute
  <2>2. now' = UAdd(now, d) /\ now' # now
    BY <2>1, ExecuteOutcomes, TurnOfClock, Turns DEF DInv, HInv, TimersTyped
  <2>3. PollOnly(d)
    BY <1>4, <2>1, <2>2 DEF Sampling, Execute, Sample, StartMoving, StartStill, StopStill,
       StopMoving, MonitorReached, MonitorWrongWay, MonitorOn, SampleActive, SampleIdle
  <2>4. UNCHANGED <<current_state, desired_state, stablize_count>>
    BY <2>3 DEF PollOnly, control
  <2>5. moving_polls' = moving_polls /\ (interrupted' <=> interrupted)
    BY <1>4 DEF HExecute
  <2> QED BY <1>1, <2>4, <2>5 DEF DInv, CountTyped, Counted, RunDown
<1>5. CASE UNCHANGED hvars
  <2>1. UNCHANGED control /\ UNCHANGED history
    BY <1>5 DEF hvars, vars
  <2>2. UNCHANGED <<current_state, desired_state, stablize_count, moving_polls>>
    BY <2>1 DEF history, control
  <2>3. interrupted' <=> interrupted
    BY <2>1, Zenon DEF history
  <2> QED BY <1>1, <2>2, <2>3 DEF DInv, CountTyped, Counted, RunDown
<1> QED BY <1>2, <1>3, <1>4, <1>5 DEF HNext

(***************************************************************************)
(* Unless a command interrupted a count, the door is monitored only after  *)
(* STABLIZE_COUNT_MAX moving samples in a row.                             *)
(***************************************************************************)
THEOREM DebounceCounts == HSpec => UninterruptedDebounce
<1> DEFINE Monitors == current_state = "START" /\ current_state' = "MONITOR" /\ ~interrupted
<1>1. DInv /\ [HNext]_hvars => [Monitors => moving_polls' >= STABLIZE_COUNT_MAX]_hvars
  <2> SUFFICES ASSUME DInv, HNext, Monitors PROVE moving_polls' >= STABLIZE_COUNT_MAX
    OBVIOUS
  <2>1. HExecute
    BY CommandQuiet DEF HNext
  <2>2. PICK d \in STEPS, adc \in ADC : Execute(d, adc)
    BY <2>1 DEF HExecute
  <2>3. desired_state = "START" /\ RunDown("START", stablize_count, moving_polls) /\ CountTyped
    BY DEF DInv, Counted
  <2>4. StartMoving(d, adc) /\ Decremented = 0
    BY <2>2, <2>3 DEF Execute, PollOnly, control, StartMoving, StartStill, StopStill, StopMoving,
       MonitorReached, MonitorWrongWay, MonitorOn, SampleActive, SampleIdle, Settle
  <2>5. Sampling
    BY <2>2, <2>4, ExecuteOutcomes, TurnOfClock, Turns
       DEF StartMoving, Sample, Sampling, DInv, HInv, TimersTyped
  <2>6. moving_polls' = Upto(STABLIZE_COUNT_MAX, moving_polls + 1)
    BY <2>1, <2>4, <2>5 DEF HExecute, StartMoving
  <2>7. Upto(STABLIZE_COUNT_MAX, moving_polls + 1) = STABLIZE_COUNT_MAX
    BY <2>3, <2>4, MovingSample
  <2> QED BY <2>6, <2>7, Counts
<1>2. HInit => DInv
  BY HInitInv, HInitCounted DEF DInv
<1> QED BY <1>1, <1>2, DNextInv, PTL DEF HSpec, UninterruptedDebounce
=============================================================================
