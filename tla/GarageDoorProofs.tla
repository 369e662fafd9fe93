-------------------------- MODULE GarageDoorProofs --------------------------
(***************************************************************************)
(* The garage door is the control with a door that picks the readings:     *)
(* every theorem about DoorControl is one about GarageDoor.                *)
(***************************************************************************)
EXTENDS GarageApproach, DoorControlProofs

DoorTyped ==
    /\ door_position \in BOTTOM .. TOP
    /\ door_motion \in {-1, 0, 1}
    /\ last_motion \in {-1, 1}
    /\ disturbances \in 0 .. DISTURBANCES
    /\ commands \in 0 .. MAX_COMMANDS

\* However far it would move, the door stays between its ends.
LEMMA DoorMoves ==
    ASSUME DoorTyped, NEW d \in STEPS
    PROVE  PositionAfter(d) \in BOTTOM .. TOP /\ MotionAfter(d) \in {-1, 0, 1}
<1> DEFINE p == door_position + door_motion * SPEED * d
<1>1. SPEED \in Int /\ d \in Int /\ BOTTOM \in Int /\ TOP \in Int /\ BOTTOM < TOP
  BY DoorAssumption, InputsAssumption
<1>2. door_position \in Int /\ door_motion \in Int
  BY <1>1 DEF DoorTyped
<1>3. p \in Int
  BY <1>1, <1>2
<1> HIDE DEF p
<1>4. (IF p < BOTTOM THEN BOTTOM ELSE IF p > TOP THEN TOP ELSE p) \in BOTTOM .. TOP
  BY <1>1, <1>3
<1>5. PositionAfter(d) \in BOTTOM .. TOP
  BY <1>4 DEF PositionAfter, p
<1> QED BY <1>5 DEF MotionAfter, DoorTyped

\* A press starts the door or stops it.
LEMMA PressMoves ==
    ASSUME last_motion \in {-1, 1}, NEW m \in {-1, 0, 1}, Pressed(m)
    PROVE  door_motion' \in {-1, 0, 1} /\ last_motion' \in {-1, 1}
<1>1. CASE m = 0
  <2>1. door_motion' = -last_motion /\ last_motion' = -last_motion
    BY <1>1 DEF Pressed
  <2> QED BY <2>1
<1>2. CASE m # 0
  BY <1>2 DEF Pressed
<1> QED BY <1>1, <1>2

LEMMA DoorNext == DoorTyped /\ [GNext]_gvars => DoorTyped'
<1> SUFFICES ASSUME DoorTyped, [GNext]_gvars PROVE DoorTyped'
  OBVIOUS
<1>1. CASE Command
  BY <1>1, DoorAssumption DEF Command, door, DoorTyped
<1>2. CASE WallButton
  <2>1. door_motion' \in {-1, 0, 1} /\ last_motion' \in {-1, 1}
    BY <1>2, PressMoves DEF WallButton, DoorTyped
  <2> QED BY <1>2, <2>1, DoorAssumption DEF WallButton, DoorTyped
<1>3. CASE TurnOfLoop
  <2>1. PICK d \in STEPS : Turn(d)
    BY <1>3 DEF TurnOfLoop
  <2>2. door_position' \in BOTTOM .. TOP
    BY <2>1, DoorMoves DEF Turn
  <2>3. door_motion' \in {-1, 0, 1} /\ last_motion' \in {-1, 1}
    BY <2>1, DoorMoves, PressMoves DEF Turn, DoorTyped
  <2> QED BY <2>1, <2>2, <2>3 DEF Turn, DoorTyped
<1>4. CASE UNCHANGED gvars
  BY <1>4 DEF gvars, door, DoorTyped
<1> QED BY <1>1, <1>2, <1>3, <1>4 DEF GNext

\* What the door does is a step of the control, or none.
LEMMA ControlStep == DoorTyped /\ [GNext]_gvars => [Next]_vars
<1> SUFFICES ASSUME DoorTyped, [GNext]_gvars PROVE [Next]_vars
  OBVIOUS
<1>1. CASE Command
  BY <1>1 DEF Command, Next
<1>2. CASE WallButton
  BY <1>2 DEF WallButton
<1>3. CASE TurnOfLoop
  <2>1. PICK d \in STEPS : Turn(d)
    BY <1>3 DEF TurnOfLoop
  <2>2. door_position' \in ADC
    BY <2>1, DoorMoves, DoorAssumption DEF Turn
  <2> QED BY <2>1, <2>2 DEF Turn, Next
<1>4. CASE UNCHANGED gvars
  BY <1>4 DEF gvars
<1> QED BY <1>1, <1>2, <1>3, <1>4 DEF GNext

LEMMA DoorInit == GInit => DoorTyped /\ Init
BY DoorAssumption DEF GInit, DoorTyped

(***************************************************************************)
(* The door with its control implements the control: whatever the door,    *)
(* the opener, the user and the wall button do is something DoorControl    *)
(* allows, so what is proved of DoorControl holds here.                    *)
(***************************************************************************)
THEOREM GarageIsControl == GSpec => Spec
<1>1. GSpec => []DoorTyped
  BY DoorInit, DoorNext, PTL DEF GSpec
<1> QED BY <1>1, DoorInit, ControlStep, PTL DEF GSpec, Spec

(***************************************************************************)
(* The door stays between its ends and every field of the control keeps    *)
(* its C type, for every travel, speed and number of disturbances.         *)
(***************************************************************************)
THEOREM GarageTyped == GSpec => []GTypeOK
<1>1. GSpec => []DoorTyped
  BY DoorInit, DoorNext, PTL DEF GSpec
<1>2. DoorTyped /\ TypeOK => GTypeOK
  BY DEF DoorTyped, GTypeOK
<1> QED BY <1>1, <1>2, GarageIsControl, TypeCorrect, PTL
-----------------------------------------------------------------------------
(***************************************************************************)
(* The approach of the door to its target.                                 *)
(***************************************************************************)

\* The ranges of the constants.
LEMMA Ranges ==
    /\ SPEED \in Nat /\ MAX_GAP \in Nat /\ REACH \in Nat
    /\ BOTTOM \in Int /\ TOP \in Int /\ BOTTOM < TOP
    /\ TIME_MOD \in Nat /\ TIME_MOD > 0
    /\ DOOR_SAMPLE_RATE \in Nat /\ DOOR_SAMPLE_RATE < TIME_MOD
    /\ RELAY_DELAY \in Nat /\ RELAY_DELAY < TIME_MOD
    /\ STABLIZE_COUNT_MAX \in Nat /\ STABLIZE_COUNT_MAX > 1
    /\ STABLIZE_COUNT_MAX < COUNT_MOD /\ COUNT_MOD \in Nat
    /\ DELTA_THRESHOLD \in Nat /\ DOOR_THRESHOLD \in Nat
    /\ POSITION_MIN \in Nat /\ POSITION_MAX \in Nat /\ POSITION_MIN < POSITION_MAX
<1>1. SPEED \in Nat /\ BOTTOM \in Int /\ TOP \in Int /\ BOTTOM < TOP
  BY DoorAssumption
<1>2. MAX_GAP \in Nat /\ DOOR_SAMPLE_RATE < TIME_MOD /\ STABLIZE_COUNT_MAX > 1
      /\ RELAY_DELAY + MAX_GAP < TIME_MOD
  BY PaceAssumption
<1>3. REACH \in Nat
  BY <1>1, <1>2 DEF REACH
<1>4. UINT16_MOD \div 2 \in Int
  BY CountsAssumption
<1>5. POSITION_MIN \in Nat /\ POSITION_MAX \in Nat /\ POSITION_MIN < POSITION_MAX
  BY RangeAssumption, <1>4
<1> QED
  BY <1>1, <1>2, <1>3, <1>5, DelaysAssumption, TimeAssumption, CountsAssumption

\* A turn of the loop.
LEMMA Steps == ASSUME NEW d \in STEPS PROVE d \in Nat /\ d <= MAX_GAP
BY InputsAssumption, PaceAssumption

\* The clock n ticks later: at most one wrap.
LEMMA ClockOn ==
    ASSUME NEW a \in Time, NEW n \in Nat, n < TIME_MOD
    PROVE  /\ UAdd(a, n) \in Time
           /\ UAdd(a, n) = a + n \/ UAdd(a, n) = a + n - TIME_MOD
BY Ranges DEF UAdd, Time, MAX_TIME

LEMMA AgoFresh ==
    ASSUME NEW at \in Time, NEW delay \in Nat, delay < TIME_MOD
    PROVE  Ago(at, UAdd(at, delay), delay) = 0
<1> DEFINE u == UAdd(at, delay)
<1>1. u \in Time /\ (u = at + delay \/ u = at + delay - TIME_MOD)
  BY ClockOn
<1> HIDE DEF u
<1>2. Ago(at, u, delay) = 0
  BY <1>1, Ranges DEF Ago, Time, MAX_TIME
<1> QED BY <1>2 DEF u

LEMMA AgoType ==
    ASSUME NEW at \in Time, NEW stamp \in Time, NEW delay \in Nat, delay < TIME_MOD
    PROVE  Ago(at, stamp, delay) \in Nat /\ Ago(at, stamp, delay) < TIME_MOD
BY Ranges DEF Ago, Time, MAX_TIME

\* Time goes on, and a deadline that elapses has been waited for.
LEMMA AgoOn ==
    ASSUME NEW at \in Time, NEW stamp \in Time, NEW delay \in Nat, delay < TIME_MOD,
           NEW d \in Nat, Ago(at, stamp, delay) + d < TIME_MOD
    PROVE  /\ Ago(UAdd(at, d), stamp, delay) = Ago(at, stamp, delay) + d
           /\ TimestampElapsed(UAdd(at, d), stamp, delay) => Ago(at, stamp, delay) + d > delay
<1> DEFINE u == UAdd(at, d)
<1>1. Ago(at, stamp, delay) \in Nat /\ d < TIME_MOD
  BY AgoType, Ranges
<1>2. u \in Time /\ (u = at + d \/ u = at + d - TIME_MOD)
  BY <1>1, ClockOn
<1> HIDE DEF u
<1>3. /\ Ago(u, stamp, delay) = Ago(at, stamp, delay) + d
      /\ TimestampElapsed(u, stamp, delay) => Ago(at, stamp, delay) + d > delay
  BY <1>2, Ranges DEF Ago, Time, MAX_TIME, TimestampElapsed
<1> QED BY <1>3 DEF u

\* A hundredth of p times a range is in the range, for a percentage p.
LEMMA PartOfRange ==
    ASSUME NEW p \in 0 .. 100, NEW r \in Nat
    PROVE  (p * r) \div 100 \in 0 .. r
<1>1. p * r \in Nat /\ p * r <= 100 * r
  OBVIOUS
<1> DEFINE n == p * r
<1> HIDE DEF n
<1>2. n \in Nat /\ n <= 100 * r
  BY <1>1 DEF n
<1>3. n \div 100 \in 0 .. r
  BY <1>2
<1> QED BY <1>3 DEF n

\* A command asks for a position in the range.
LEMMA TargetType ==
    ASSUME NEW p \in COMMANDS
    PROVE  /\ Target(p) \in POSITION_MIN .. POSITION_MAX
           /\ Target(p) % UINT16_MOD = Target(p)
<1> DEFINE r == POSITION_MAX - POSITION_MIN
           n == p * r
<1>1. p \in 0 .. 100 /\ r \in Nat
  BY PercentAssumption, Ranges
<1>2. n \div 100 \in 0 .. r /\ n \in Nat
  BY <1>1, PartOfRange
<1>3. (p - 0) * (POSITION_MAX - POSITION_MIN) = n
  BY <1>1
<1> HIDE DEF n
<1>4. CDiv(n, 100 - 0) = n \div 100
  BY <1>2 DEF CDiv, Magnitude
<1>5. Target(p) = (n \div 100) + POSITION_MIN
  BY <1>3, <1>4 DEF Target, LinearMap
<1>6. Target(p) \in POSITION_MIN .. POSITION_MAX
  BY <1>2, <1>5, Ranges
<1>7. 0 <= Target(p) /\ Target(p) < UINT16_MOD /\ UINT16_MOD \in Nat
  <2>1. UINT16_MOD \in Nat /\ UINT16_MOD \div 2 \in Nat /\ UINT16_MOD \div 2 < UINT16_MOD
    BY CountsAssumption
  <2> QED BY <1>6, <2>1, Ranges, RangeAssumption
<1> DEFINE t == Target(p)
<1> HIDE DEF t
<1>8. t \in Nat /\ t < UINT16_MOD /\ UINT16_MOD \in Nat => t % UINT16_MOD = t
  OBVIOUS
<1> QED BY <1>6, <1>7, <1>8, Ranges DEF t

\* A target is an end of the range, or far enough inside.
LEMMA TargetPlace ==
    ASSUME TypeOK, InStep, \E p \in COMMANDS : desired_position = Target(p)
    PROVE  /\ desired_position \in POSITION_MIN .. POSITION_MAX
           /\ TargetInside => /\ BOTTOM + 2 * REACH < desired_position
                              /\ desired_position < TOP - 2 * REACH
           /\ ~TargetInside => desired_position \in {POSITION_MIN, POSITION_MAX}
<1>1. PICK p \in COMMANDS : desired_position = Target(p)
  OBVIOUS
<1>2. desired_position \in POSITION_MIN .. POSITION_MAX
  BY <1>1, TargetType
<1>3. TargetInside => Target(p) > POSITION_MIN /\ Target(p) < POSITION_MAX
  BY <1>1 DEF TargetInside, InStep
<1>4. TargetInside => /\ BOTTOM + 2 * REACH < desired_position
                      /\ desired_position < TOP - 2 * REACH
  BY <1>1, <1>3, CalibratedAssumption
<1>5. ~TargetInside => desired_position \in {POSITION_MIN, POSITION_MAX}
  BY <1>2, Ranges DEF TargetInside, InStep
<1> QED BY <1>2, <1>4, <1>5

-----------------------------------------------------------------------------
\* The door after a turn: it has kept its direction, no sample has seen more
\* than REACH of its way, and it is on its way or arrived if it was.
LEMMA DoorWay ==
    ASSUME DoorTyped, TypeOK, OneMovement, InTime, NEW d \in STEPS
    PROVE  /\ PositionAfter(d) \in BOTTOM .. TOP
           /\ MotionAfter(d) \in {0, last_motion}
           /\ last_motion = 1 =>
                 /\ door_position <= PositionAfter(d)
                 /\ PositionAfter(d) - current_position \in 0 .. REACH
           /\ last_motion = -1 =>
                 /\ PositionAfter(d) <= door_position
                 /\ current_position - PositionAfter(d) \in 0 .. REACH
           /\ MotionAfter(d) # 0 => /\ door_motion # 0
                                    /\ PositionAfter(d) # End
                                    /\ SinceSample + d <= MAX_GAP
           /\ MotionAfter(d) # 0 /\ last_motion = 1 =>
                 PositionAfter(d) - current_position <= SPEED * (SinceSample + d)
           /\ MotionAfter(d) # 0 /\ last_motion = -1 =>
                 current_position - PositionAfter(d) <= SPEED * (SinceSample + d)
           /\ Going => MotionAfter(d) = last_motion \/ PositionAfter(d) = End
           /\ ~Going => /\ MotionAfter(d) = 0
                        /\ PositionAfter(d) = door_position
                        /\ PositionAfter(d) = current_position
                        /\ PositionAfter(d) # End
<1> DEFINE s == SPEED * d
<1>1. d \in Nat /\ s \in Nat
  BY Steps, Ranges
<1>2. /\ door_position \in BOTTOM .. TOP /\ current_position \in BOTTOM .. TOP
      /\ last_motion \in {-1, 1} /\ door_motion \in {0, last_motion}
  BY DEF DoorTyped, OneMovement
<1>3. SinceSample \in Nat
  BY AgoType, Ranges DEF SinceSample, TypeOK
<1>4. /\ door_motion = 0 => door_position + door_motion * SPEED * d = door_position
      /\ door_motion = 1 => door_position + door_motion * SPEED * d = door_position + s
      /\ door_motion = -1 => door_position + door_motion * SPEED * d = door_position - s
  <2>1. (0 * SPEED) * d = 0 /\ (1 * SPEED) * d = s /\ ((-1) * SPEED) * d = -s
    BY <1>1, Ranges
  <2> QED BY <1>1, <1>2, <2>1, Ranges
<1>5. door_motion # 0 => /\ SinceSample + d <= MAX_GAP
                         /\ Moved + s <= SPEED * (SinceSample + d)
                         /\ SPEED * (SinceSample + d) <= REACH
  <2> SUFFICES ASSUME door_motion # 0
               PROVE  /\ SinceSample + d <= MAX_GAP
                      /\ Moved + s <= SPEED * (SinceSample + d)
                      /\ SPEED * (SinceSample + d) <= REACH
    OBVIOUS
  <2>1. SinceSample + d <= MAX_GAP /\ Moved <= SPEED * SinceSample /\ Moved \in Int
    BY Ranges DEF InTime, OneMovement
  <2>2. SPEED * (SinceSample + d) = SPEED * SinceSample + s
    BY <1>1, <1>3, Ranges
  <2>3. SPEED * (SinceSample + d) <= SPEED * MAX_GAP
    BY <1>1, <1>3, <2>1, Ranges
  <2> QED BY <1>1, <1>3, <2>1, <2>2, <2>3, Ranges DEF REACH
<1>6. Moved \in 0 .. REACH /\ (~Going => Moved = 0)
  BY DEF OneMovement
<1> DEFINE w == SPEED * (SinceSample + d)
<1>7. w \in Nat
  BY <1>1, <1>3, Ranges
<1>8. CASE door_motion = 0
  <2>1. PositionAfter(d) = door_position /\ MotionAfter(d) = 0
    BY <1>2, <1>4, <1>8, Ranges DEF PositionAfter, MotionAfter
  <2>2. last_motion # 0
    BY <1>2
  <2> QED BY <1>2, <1>6, <1>8, <2>1, <2>2, Ranges DEF Moved, Going, End
<1>9. CASE door_motion = 1
  <2>1. last_motion = 1
    BY <1>2, <1>9
  <2>2. /\ PositionAfter(d) = IF door_position + s > TOP THEN TOP ELSE door_position + s
        /\ MotionAfter(d) = IF PositionAfter(d) = TOP THEN 0 ELSE 1
    BY <1>1, <1>2, <1>4, <1>9, Ranges DEF PositionAfter, MotionAfter
  <2>3. Moved = door_position - current_position /\ Moved + s <= w /\ w <= REACH
        /\ SinceSample + d <= MAX_GAP
    BY <1>5, <1>9, <2>1 DEF Moved
  <2> HIDE DEF s, w
  <2>4. /\ PositionAfter(d) \in BOTTOM .. TOP
        /\ door_position <= PositionAfter(d)
        /\ PositionAfter(d) - current_position \in 0 .. REACH
        /\ PositionAfter(d) - current_position <= w
    BY <1>1, <1>2, <1>6, <1>7, <2>2, <2>3, Ranges
  <2>5. Going
    BY <1>9, <2>1 DEF Going
  <2> QED BY <1>9, <2>1, <2>2, <2>3, <2>4, <2>5 DEF End, w
<1>10. CASE door_motion = -1
  <2>1. last_motion = -1
    BY <1>2, <1>10
  <2>2. /\ PositionAfter(d) = IF door_position - s < BOTTOM THEN BOTTOM ELSE door_position - s
        /\ MotionAfter(d) = IF PositionAfter(d) = BOTTOM THEN 0 ELSE -1
    BY <1>1, <1>2, <1>4, <1>10, Ranges DEF PositionAfter, MotionAfter
  <2>3. Moved = current_position - door_position /\ Moved + s <= w /\ w <= REACH
        /\ SinceSample + d <= MAX_GAP
    BY <1>5, <1>10, <2>1 DEF Moved
  <2> HIDE DEF s, w
  <2>4. /\ PositionAfter(d) \in BOTTOM .. TOP
        /\ PositionAfter(d) <= door_position
        /\ current_position - PositionAfter(d) \in 0 .. REACH
        /\ current_position - PositionAfter(d) <= w
    BY <1>1, <1>2, <1>6, <1>7, <2>2, <2>3, Ranges
  <2>5. Going
    BY <1>10, <2>1 DEF Going
  <2> QED BY <1>10, <2>1, <2>2, <2>3, <2>4, <2>5 DEF End, w
<1> QED BY <1>2, <1>8, <1>9, <1>10

-----------------------------------------------------------------------------
\* A value that fits a signed integer is stored as it is.
LEMMA SignedSmall ==
    ASSUME NEW x \in Int, NEW mod \in Nat, mod > 1, mod % 2 = 0, 2 * x < mod, -mod <= 2 * x
    PROVE  Signed(x, mod) = x
<1> DEFINE h == mod \div 2
<1>1. h \in Nat /\ mod = h + h
  OBVIOUS
<1>2. x + h >= 0 /\ x + h < mod
  BY <1>1
<1>3. (x + h) % mod = x + h
  BY <1>1, <1>2
<1> QED
  BY <1>1, <1>3 DEF Signed

\* The mean of a door that is not too fast is the mean.
LEMMA MeanAfter ==
    ASSUME TypeOK, NEW adc \in Int,
           mean_position_delta <= REACH, -REACH <= mean_position_delta,
           current_position - adc <= REACH, -REACH <= current_position - adc
    PROVE  /\ NewMean(adc) \in Int
           /\ 2 * NewMean(adc) <= mean_position_delta + (current_position - adc)
           /\ mean_position_delta + (current_position - adc) < 2 * NewMean(adc) + 2
           /\ NewMean(adc) <= REACH /\ -REACH <= NewMean(adc)
<1> DEFINE x == current_position - adc
           m == (mean_position_delta + x) \div 2
<1>1. x \in Int /\ mean_position_delta \in Int
      /\ mean_position_delta <= REACH /\ -REACH <= mean_position_delta
  BY Ranges, CountsAssumption DEF TypeOK
<1>2. Signed(x, UINT16_MOD) = x
  <2>1. UINT16_MOD \in Nat /\ UINT16_MOD > 1 /\ UINT16_MOD % 2 = 0
        /\ 2 * x < UINT16_MOD /\ -UINT16_MOD <= 2 * x
    BY <1>1, Ranges, CountsAssumption, SlowAssumption
  <2> HIDE DEF x
  <2> QED BY <1>1, <2>1, SignedSmall
<1>3. /\ m \in Int /\ 2 * m <= mean_position_delta + x /\ mean_position_delta + x < 2 * m + 2
      /\ m <= REACH /\ -REACH <= m
  BY <1>1, Ranges
<1> HIDE DEF m
<1>4. Signed(m, DELTA_MOD) = m
  <2>1. DELTA_MOD \in Nat /\ DELTA_MOD > 1 /\ DELTA_MOD % 2 = 0
        /\ 2 * m < DELTA_MOD /\ -DELTA_MOD <= 2 * m
    BY <1>3, Ranges, CountsAssumption, SlowAssumption
  <2> QED BY <1>3, <2>1, SignedSmall
<1> QED BY <1>2, <1>3, <1>4 DEF NewMean, m

\* What Turn does to the door in a turn of d ticks.
DoorTurn(d) ==
    /\ door_position' = PositionAfter(d)
    /\ IF relay_output = 0 /\ relay_output' = 1
       THEN Pressed(MotionAfter(d))
       ELSE door_motion' = MotionAfter(d) /\ UNCHANGED last_motion

Pressing == relay_output = 0 /\ relay_output' = 1

\* The clock and the deadline of the sample.
LEMMA SampleTime ==
    ASSUME TypeOK, NEW d \in STEPS, NEW adc, Sample(d, adc)
    PROVE  /\ now' = UAdd(now, d) /\ now' \in Time
           /\ SinceSample' = 0
           /\ SinceSample + d < TIME_MOD => SinceSample + d >= DOOR_SAMPLE_RATE + 1
<1>1. now \in Time /\ time_stamp \in Time /\ d \in Nat
  BY Steps DEF TypeOK
<1>2. now' = UAdd(now, d) /\ time_stamp' = UAdd(now', DOOR_SAMPLE_RATE)
      /\ TimestampElapsed(now', time_stamp, DOOR_SAMPLE_RATE)
  BY DEF Sample
<1>3. now' \in Time
  BY <1>1, <1>2, UAddType DEF Time
<1>4. SinceSample' = 0
  <2>1. Ago(now', UAdd(now', DOOR_SAMPLE_RATE), DOOR_SAMPLE_RATE) = 0
    BY <1>3, AgoFresh, Ranges
  <2> QED BY <1>2, <2>1 DEF SinceSample
<1>5. ASSUME SinceSample + d < TIME_MOD PROVE SinceSample + d >= DOOR_SAMPLE_RATE + 1
  <2>1. SinceSample + d > DOOR_SAMPLE_RATE
    BY <1>1, <1>2, <1>5, AgoOn, Ranges DEF SinceSample
  <2>2. SinceSample \in Nat
    BY <1>1, AgoType, Ranges DEF SinceSample
  <2> QED BY <1>1, <2>1, <2>2, Ranges
<1> QED BY <1>2, <1>3, <1>4, <1>5

\* A sample sees the whole movement.  Unless it presses the button, the mean
\* that follows tells the direction of the movement.
LEMMA DoorSampled ==
    ASSUME DoorTyped, TypeOK, OneMovement, InTime, NEW d \in STEPS,
           Sample(d, door_position'), DoorTurn(d)
    PROVE  /\ OneMovement'
           /\ current_position' = PositionAfter(d)
           /\ door_position' = PositionAfter(d)
           /\ mean_position_delta' = NewMean(PositionAfter(d))
           /\ ~Pressing => /\ door_motion' = MotionAfter(d) /\ last_motion' = last_motion
                           /\ Going' = Going
                           /\ MeanIsTrue'
           /\ Pressing /\ MotionAfter(d) # 0 => door_motion' = 0 /\ last_motion' = last_motion
<1> DEFINE p == PositionAfter(d)
           m == MotionAfter(d)
           n == NewMean(p)
<1>1. /\ door_position' = p /\ current_position' = p /\ mean_position_delta' = n
  BY DEF Sample, DoorTurn
<1>2. /\ p \in BOTTOM .. TOP
      /\ m \in {0, last_motion}
      /\ last_motion = 1 => /\ door_position <= p
                            /\ p - current_position \in 0 .. REACH
      /\ last_motion = -1 => /\ p <= door_position
                             /\ current_position - p \in 0 .. REACH
      /\ m # 0 => p # End
      /\ Going => m = last_motion \/ p = End
      /\ ~Going => m = 0 /\ p = current_position /\ p # End
  BY DoorWay
<1>3. last_motion \in {-1, 1} /\ current_position \in BOTTOM .. TOP
      /\ mean_position_delta \in Int
      /\ mean_position_delta <= REACH /\ -REACH <= mean_position_delta
  BY CountsAssumption DEF DoorTyped, OneMovement, TypeOK
<1>4. current_position - p <= REACH /\ -REACH <= current_position - p /\ p \in Int
  BY <1>2, <1>3, Ranges
<1>5. /\ n \in Int
      /\ 2 * n <= mean_position_delta + (current_position - p)
      /\ mean_position_delta + (current_position - p) < 2 * n + 2
      /\ n <= REACH /\ -REACH <= n
  BY <1>3, <1>4, MeanAfter
<1>6. SinceSample' = 0
  BY SampleTime
<1> HIDE DEF p, m, n
<1>7. CASE ~Pressing
  <2>1. door_motion' = m /\ last_motion' = last_motion
    BY <1>7 DEF DoorTurn, Pressing, m
  <2>2. End' = End /\ Moved' = 0
    BY <1>1, <1>2, <1>3, <2>1, Ranges DEF End, Moved
  <2>3. Going' = Going
    BY <1>1, <1>2, <1>3, <2>1, <2>2 DEF Going
  <2>4. OneMovement'
    BY <1>1, <1>2, <1>5, <1>6, <2>1, <2>2, Ranges DEF OneMovement
  <2>5. MeanIsTrue'
    <3>1. Going /\ last_motion = 1 => n <= DELTA_THRESHOLD
      BY <1>2, <1>3, <1>5, SlowAssumption, Ranges
    <3>2. Going /\ last_motion = -1 => -DELTA_THRESHOLD <= n
      BY <1>2, <1>3, <1>5, SlowAssumption, Ranges
    <3>3. ~Going => n <= DELTA_THRESHOLD /\ -DELTA_THRESHOLD <= n
      BY <1>2, <1>3, <1>5, SlowAssumption, Ranges
    <3> QED BY <1>1, <1>5, <2>1, <2>3, <3>1, <3>2, <3>3, Ranges DEF MeanIsTrue, IsMoving
  <2> QED BY <1>1, <1>7, <2>1, <2>3, <2>4, <2>5 DEF p, m, n
<1>8. CASE Pressing
  <2>1. Pressed(m)
    BY <1>8 DEF DoorTurn, Pressing, m
  <2>2. \/ m # 0 /\ door_motion' = 0 /\ last_motion' = last_motion
        \/ m = 0 /\ door_motion' = -last_motion /\ last_motion' = -last_motion
    BY <1>2, <2>1 DEF Pressed
  <2>3. last_motion' \in {-1, 1} /\ door_motion' \in {0, last_motion'}
    BY <1>3, <2>2
  <2>4. Moved' = 0
    BY <1>1, <1>2, Ranges DEF Moved
  <2>5. OneMovement'
    BY <1>1, <1>2, <1>5, <1>6, <2>3, <2>4, Ranges DEF OneMovement
  <2> QED BY <1>1, <1>8, <2>2, <2>5 DEF p, m, n
<1> QED BY <1>7, <1>8

-----------------------------------------------------------------------------
\* The inductive part of Approach.
AInv ==
    /\ OneMovement
    /\ InStep
    /\ HasTarget
    /\ WhileStarting
    /\ WhileMonitored
    /\ PulseBeforeCount
    /\ AfterSuccess

\* A state of the approach and what Turn does to the door.
Ready(d) == DoorTyped /\ IInv /\ AInv /\ InTime /\ DoorTurn(d)

LEMMA CountedType == TypeOK => Counted \in 0 .. STABLIZE_COUNT_MAX
BY Ranges DEF Counted, TypeOK

\* As long as the relay stays closed its time goes on, and a sample adds its
\* distance to the time the count took.
LEMMA PulseOn ==
    ASSUME NEW d \in STEPS, Ready(d), now' = UAdd(now, d), relay_time' = relay_time,
           relay_output = 1
    PROVE  /\ SincePress' = SincePress + d
           /\ current_state \in {"START", "MONITOR"} =>
                 /\ SinceSample + d < TIME_MOD
                 /\ SincePress >= SinceSample + Counted * (DOOR_SAMPLE_RATE + 1)
                 /\ Counted * (DOOR_SAMPLE_RATE + 1) \in Nat
<1>1. TypeOK /\ now \in Time /\ relay_time \in Time /\ time_stamp \in Time
      /\ d \in Nat /\ d <= MAX_GAP
  BY Steps DEF Ready, IInv, TypeOK
<1>2. SincePress \in Nat /\ SinceSample \in Nat
  BY <1>1, AgoType, Ranges DEF SincePress, SinceSample
<1>3. SincePress <= RELAY_DELAY /\ SincePress + d < TIME_MOD
  BY <1>1, <1>2, PaceAssumption, Ranges DEF Ready, InTime
<1>4. SincePress' = SincePress + d
  BY <1>1, <1>3, AgoOn, Ranges DEF SincePress
<1> DEFINE c == Counted * (DOOR_SAMPLE_RATE + 1)
<1>5. c \in Nat
  BY <1>1, CountedType, Ranges
<1>6. current_state \in {"START", "MONITOR"} => SincePress >= SinceSample + c
  BY DEF Ready, AInv, PulseBeforeCount
<1> HIDE DEF c
<1>7. current_state \in {"START", "MONITOR"} => SinceSample + d < TIME_MOD
  BY <1>1, <1>2, <1>3, <1>5, <1>6, Ranges
<1> QED BY <1>4, <1>5, <1>6, <1>7 DEF c

\* A turn before the sampling deadline: the door goes on.
LEMMA PollStep ==
    ASSUME NEW d \in STEPS, Ready(d), PollOnly(d)
    PROVE  AInv'
<1>1. DoorTyped /\ TypeOK /\ OneMovement /\ InTime /\ AInv
  BY DEF Ready, IInv, AInv
<1>2. /\ now' = UAdd(now, d) /\ relay_output' = RelayAfterRelease
      /\ UNCHANGED <<control, position, range, timers>>
  BY DEF PollOnly
<1>3. UNCHANGED <<current_state, desired_state, result, stablize_count>>
      /\ UNCHANGED <<current_position, desired_position, mean_position_delta>>
      /\ UNCHANGED <<position_min, position_max>>
      /\ UNCHANGED <<time_stamp, command_time, relay_time>>
  BY <1>2 DEF control, position, range, timers
<1>4. relay_output' = 1 => relay_output = 1
  BY <1>2 DEF RelayAfterRelease
<1>5. door_position' = PositionAfter(d) /\ door_motion' = MotionAfter(d)
      /\ last_motion' = last_motion
  BY <1>4 DEF Ready, DoorTurn
<1>6. last_motion \in {-1, 1} /\ door_position \in BOTTOM .. TOP
      /\ current_position \in BOTTOM .. TOP
  BY <1>1 DEF DoorTyped, OneMovement
<1>7. /\ now \in Time /\ time_stamp \in Time /\ d \in Nat /\ SinceSample \in Nat
      /\ d <= MAX_GAP
  BY <1>1, AgoType, Steps, Ranges DEF TypeOK, SinceSample
<1>8. SinceSample + d < TIME_MOD => SinceSample' = SinceSample + d
  BY <1>2, <1>3, <1>7, AgoOn, Ranges DEF SinceSample
<1>9. End' = End /\ Going' = Going
  <2>1. End' = End
    BY <1>5 DEF End
  <2> QED BY <1>1, <1>5, <1>6, <2>1, DoorWay DEF Going
<1>10. OneMovement'
  <2>1. door_motion' \in {0, last_motion'} /\ Moved' \in 0 .. REACH
        /\ (~Going' => Moved' = 0)
    BY <1>1, <1>3, <1>5, <1>6, <1>9, DoorWay, Ranges DEF Moved
  <2>2. door_motion' # 0 => Moved' <= SPEED * SinceSample'
    <3>1. ASSUME MotionAfter(d) # 0
          PROVE  SinceSample' = SinceSample + d
      BY <1>1, <1>7, <1>8, <3>1, DoorWay, PaceAssumption, Ranges
    <3> QED BY <1>1, <1>3, <1>5, <1>6, <3>1, DoorWay DEF Moved
  <2> QED BY <1>1, <1>3, <2>1, <2>2 DEF OneMovement
<1>11. InStep'
  BY <1>1, <1>3 DEF AInv, InStep
<1>12. HasTarget'
  BY <1>1, <1>3 DEF AInv, HasTarget, Idle
<1>13. WhileStarting'
  BY <1>1, <1>3, <1>5, <1>9 DEF AInv, WhileStarting, MeanIsTrue, IsMoving, ThisSide
<1>14. WhileMonitored'
  BY <1>1, <1>3, <1>5, <1>9 DEF AInv, WhileMonitored
<1>15. PulseBeforeCount'
  <2> SUFFICES ASSUME relay_output' = 1, current_state' \in {"START", "MONITOR"}
               PROVE  SincePress' >= SinceSample' + Counted' * (DOOR_SAMPLE_RATE + 1)
    BY DEF PulseBeforeCount
  <2>1. relay_output = 1 /\ current_state \in {"START", "MONITOR"} /\ Counted' = Counted
    BY <1>3, <1>4 DEF Counted
  <2>2. SincePress' = SincePress + d /\ SinceSample' = SinceSample + d
    BY <1>2, <1>3, <1>8, <2>1, PulseOn
  <2>3. SincePress >= SinceSample + Counted * (DOOR_SAMPLE_RATE + 1)
        /\ Counted * (DOOR_SAMPLE_RATE + 1) \in Nat /\ SincePress \in Nat
    BY <1>1, <1>2, <1>3, <2>1, PulseOn, AgoType, Ranges DEF SincePress, TypeOK
  <2> DEFINE c == Counted * (DOOR_SAMPLE_RATE + 1)
  <2> HIDE DEF c
  <2>4. SincePress + d >= SinceSample + d + c
    BY <1>7, <2>3 DEF c
  <2> QED BY <2>1, <2>2, <2>4 DEF c
<1>16. AfterSuccess'
  <2>1. Arrived => Arrived'
    <3>1. ASSUME door_motion = 0 PROVE ~Going \/ PositionAfter(d) = door_position
      BY <1>1, <1>6, <1>7, <3>1, Ranges DEF Going, End, PositionAfter
    <3>2. ASSUME door_motion = 0 PROVE PositionAfter(d) = door_position /\ MotionAfter(d) = 0
      BY <1>1, <3>1, <3>2, DoorWay DEF MotionAfter
    <3> QED BY <1>3, <1>5, <3>2 DEF Arrived, Near
  <2> QED BY <1>1, <1>3, <1>5, <1>9, <2>1 DEF AInv, AfterSuccess
<1> QED BY <1>10, <1>11, <1>12, <1>13, <1>14, <1>15, <1>16 DEF AInv

\* A sample that presses no button: the door goes on, the relay may be let go.
LEMMA QuietSample ==
    ASSUME NEW d \in STEPS, Ready(d), Sample(d, door_position'),
           NEW state, Settle(state), state \in {"START", "STOP"} => state = current_state
    PROVE  /\ current_state' = state /\ desired_state' = state
           /\ current_position' = PositionAfter(d) /\ door_position' = PositionAfter(d)
           /\ door_motion' = MotionAfter(d) /\ last_motion' = last_motion
           /\ mean_position_delta' = NewMean(PositionAfter(d))
           /\ desired_position' = desired_position
           /\ position_min' = position_min /\ position_max' = position_max
           /\ OneMovement' /\ MeanIsTrue' /\ Going' = Going
           /\ relay_output' = 1 /\ current_state \in {"START", "MONITOR"} =>
                 SincePress' >= (Counted + 1) * (DOOR_SAMPLE_RATE + 1)
           /\ SinceSample' = 0
<1>1. DoorTyped /\ TypeOK /\ OneMovement /\ InTime /\ AInv /\ DoorTurn(d)
  BY DEF Ready, IInv, AInv
<1>2. relay_output' = RelayAfterRelease /\ relay_time' = relay_time
      /\ current_state' = state /\ desired_state' = state
  BY DEF Settle
<1>3. relay_output' = 1 => relay_output = 1
  BY <1>2 DEF RelayAfterRelease
<1>4. ~Pressing
  BY <1>3 DEF Pressing
<1>5. now' = UAdd(now, d) /\ SinceSample' = 0
      /\ (SinceSample + d < TIME_MOD => SinceSample + d >= DOOR_SAMPLE_RATE + 1)
  BY <1>1, SampleTime
<1>6. ASSUME relay_output' = 1, current_state \in {"START", "MONITOR"}
      PROVE  SincePress' >= (Counted + 1) * (DOOR_SAMPLE_RATE + 1)
  <2> DEFINE c == Counted * (DOOR_SAMPLE_RATE + 1)
  <2>1. SincePress' = SincePress + d /\ SinceSample + d < TIME_MOD
        /\ SincePress >= SinceSample + c /\ c \in Nat
    BY <1>2, <1>3, <1>5, <1>6, PulseOn
  <2>2. (Counted + 1) * (DOOR_SAMPLE_RATE + 1) = c + (DOOR_SAMPLE_RATE + 1)
    BY <1>1, CountedType, Ranges
  <2>3. SincePress \in Nat /\ SinceSample \in Nat /\ d \in Nat
    BY <1>1, AgoType, Steps, Ranges DEF SincePress, SinceSample, TypeOK
  <2> HIDE DEF c
  <2> QED BY <1>5, <2>1, <2>2, <2>3, Ranges
<1>7. desired_position' = desired_position
      /\ position_min' = position_min /\ position_max' = position_max
  BY DEF Sample, range
<1> QED BY <1>1, <1>2, <1>4, <1>5, <1>6, <1>7, DoorSampled

LEMMA Products ==
    ASSUME NEW a \in Nat, NEW b \in Nat, NEW r \in Nat, a <= b
    PROVE  a * r \in Nat /\ b * r \in Nat /\ a * r <= b * r
<1>1. b - a \in Nat /\ (b - a) * r \in Nat /\ b * r = a * r + (b - a) * r
  OBVIOUS
<1>2. a * r \in Nat /\ b * r \in Nat
  OBVIOUS
<1> QED BY <1>1, <1>2

\* The time since the last press is a time.
LEMMA PressTimed == ASSUME TypeOK' PROVE SincePress' \in Nat
<1>1. now' \in Time /\ relay_time' \in Time
  BY DEF TypeOK
<1> QED BY <1>1, AgoType, Ranges DEF SincePress

\* A control that is not idle keeps its target.
LEMMA TargetKept ==
    ASSUME AInv, current_state # "DOOR_IDLE", desired_position' = desired_position
    PROVE  HasTarget' /\ \E p \in COMMANDS : desired_position = Target(p)
BY DEF AInv, HasTarget, Idle

\* The door between the sample before this one and this one.
LEMMA SampleWay ==
    ASSUME NEW d \in STEPS, Ready(d)
    PROVE  /\ current_position \in Int /\ PositionAfter(d) \in Int
           /\ last_motion \in {-1, 1}
           /\ last_motion = 1 => /\ current_position <= PositionAfter(d)
                                 /\ PositionAfter(d) <= current_position + REACH
           /\ last_motion = -1 => /\ PositionAfter(d) <= current_position
                                  /\ current_position <= PositionAfter(d) + REACH
<1>1. DoorTyped /\ TypeOK /\ OneMovement /\ InTime
  BY DEF Ready, IInv, AInv
<1>2. current_position \in Int /\ last_motion \in {-1, 1}
  BY <1>1, Ranges DEF OneMovement, DoorTyped
<1>3. PositionAfter(d) \in BOTTOM .. TOP
      /\ (last_motion = 1 => PositionAfter(d) - current_position \in 0 .. REACH)
      /\ (last_motion = -1 => current_position - PositionAfter(d) \in 0 .. REACH)
  BY <1>1, DoorWay
<1> QED BY <1>2, <1>3, Ranges

LEMMA CountDown ==
    ASSUME TypeOK
    PROVE  /\ stablize_count \in Nat /\ Decremented \in Nat
           /\ Decremented = IF stablize_count = 0 THEN COUNT_MOD - 1 ELSE stablize_count - 1
BY Ranges DEF Decremented, TypeOK

\* A mean beyond the threshold leads to the target only if the door does.
LEMMA TrueStart ==
    ASSUME NEW d \in STEPS, Ready(d), MeanIsTrue, IsMoving,
           TowardsTarget(NewMean(PositionAfter(d)))
    PROVE  /\ Going
           /\ last_motion = 1 => /\ NewMean(PositionAfter(d)) <= 0
                                 /\ current_position < desired_position
           /\ last_motion = -1 => /\ NewMean(PositionAfter(d)) >= 0
                                  /\ current_position > desired_position
<1> DEFINE n == NewMean(PositionAfter(d))
           p == PositionAfter(d)
<1>1. TypeOK /\ OneMovement
  BY DEF Ready, IInv, AInv
<1>2. /\ current_position \in Int /\ p \in Int
      /\ last_motion \in {-1, 1}
      /\ last_motion = 1 => current_position <= p /\ p <= current_position + REACH
      /\ last_motion = -1 => p <= current_position /\ current_position <= p + REACH
  BY SampleWay
<1>3. /\ n \in Int
      /\ 2 * n <= mean_position_delta + (current_position - p)
      /\ mean_position_delta + (current_position - p) < 2 * n + 2
  BY <1>1, <1>2, MeanAfter, Ranges DEF OneMovement
<1>4. mean_position_delta \in Int
  BY <1>1, CountsAssumption DEF TypeOK
<1>5. Going
  BY DEF MeanIsTrue
<1>6. TowardsTarget(n)
  OBVIOUS
<1> HIDE DEF n, p
<1>7. ASSUME last_motion = 1 PROVE n < 0
  BY <1>2, <1>3, <1>4, <1>5, <1>7, Ranges DEF MeanIsTrue, IsMoving
<1>8. ASSUME last_motion = -1 PROVE n >= 0
  BY <1>2, <1>3, <1>4, <1>5, <1>8, Ranges DEF MeanIsTrue, IsMoving
<1> QED BY <1>2, <1>3, <1>5, <1>6, <1>7, <1>8 DEF TowardsTarget, n, p

-----------------------------------------------------------------------------
(* START. *)

LEMMA StartMovingStep ==
    ASSUME NEW d \in STEPS, Ready(d), StartMoving(d, door_position'), TypeOK'
    PROVE  AInv'
<1> DEFINE p == PositionAfter(d)
           state == IF stablize_count' # 0 THEN desired_state
                    ELSE IF TowardsTarget(NewMean(door_position')) THEN "MONITOR" ELSE "ACTIVE"
<1>1. TypeOK /\ AInv /\ InStep
  BY DEF Ready, IInv, AInv
<1>2. /\ current_state = "START" /\ IsMoving /\ Sample(d, door_position')
      /\ stablize_count' = Decremented /\ Settle(state) /\ result' = result
  BY DEF StartMoving
<1>3. desired_state = "START" /\ result = "NONE" /\ ThisSide
      /\ (MeanIsTrue \/ stablize_count \in {0, STABLIZE_COUNT_MAX})
  BY <1>1, <1>2 DEF AInv, InStep, WhileStarting
<1>4. state \in {"START", "MONITOR", "ACTIVE"} /\ (state = "START" <=> stablize_count' # 0)
  BY <1>3
<1>5. /\ current_state' = state /\ desired_state' = state
      /\ current_position' = p /\ door_position' = p
      /\ mean_position_delta' = NewMean(p)
      /\ last_motion' = last_motion
      /\ desired_position' = desired_position
      /\ position_min' = position_min /\ position_max' = position_max
      /\ OneMovement' /\ MeanIsTrue' /\ Going' = Going
      /\ relay_output' = 1 => SincePress' >= (Counted + 1) * (DOOR_SAMPLE_RATE + 1)
      /\ SinceSample' = 0
  <2> HIDE DEF state
  <2> QED BY <1>2, <1>4, QuietSample
<1>6. /\ current_position \in Int /\ p \in Int
      /\ last_motion \in {-1, 1}
      /\ last_motion = 1 => current_position <= p /\ p <= current_position + REACH
      /\ last_motion = -1 => p <= current_position /\ current_position <= p + REACH
  BY SampleWay
<1>7. desired_position \in Int
  BY <1>1, CountsAssumption DEF TypeOK
<1>8. stablize_count \in Nat
      /\ stablize_count' = IF stablize_count = 0 THEN COUNT_MOD - 1 ELSE stablize_count - 1
  BY <1>1, <1>2, CountDown
<1>9. HasTarget'
  BY <1>1, <1>2, <1>5, TargetKept
<1>10. InStep'
  BY <1>1, <1>4, <1>5 DEF InStep
<1>11. WhileStarting'
  BY <1>2, <1>3, <1>5, <1>6, <1>7 DEF WhileStarting, ThisSide
<1>12. WhileMonitored'
  <2> SUFFICES ASSUME state = "MONITOR"
               PROVE  WhileMonitored'
    BY <1>5 DEF WhileMonitored
  <2>1. stablize_count = 1
    BY <1>4, <1>8, Ranges
  <2>2. MeanIsTrue /\ TowardsTarget(NewMean(p))
    BY <1>3, <1>4, <1>5, <2>1, Ranges
  <2>3. /\ Going
        /\ last_motion = 1 => NewMean(p) <= 0 /\ current_position < desired_position
        /\ last_motion = -1 => NewMean(p) >= 0 /\ current_position > desired_position
    BY <1>2, <2>2, TrueStart
  <2>4. /\ last_motion = 1 => p < desired_position + REACH
        /\ last_motion = -1 => p > desired_position - REACH
    BY <1>6, <1>7, <2>3, Ranges
  <2>5. /\ desired_position = POSITION_MAX => last_motion = 1
        /\ desired_position = POSITION_MIN => last_motion = -1
    BY <1>3, <1>6, <1>7, <2>3 DEF ThisSide
  <2> HIDE DEF p
  <2> QED BY <1>2, <1>3, <1>5, <2>3, <2>4, <2>5 DEF WhileMonitored
<1>13. PulseBeforeCount'
  <2> SUFFICES ASSUME relay_output' = 1, current_state' \in {"START", "MONITOR"}
               PROVE  SincePress' >= SinceSample' + Counted' * (DOOR_SAMPLE_RATE + 1)
    BY DEF PulseBeforeCount
  <2>1. Counted \in Nat /\ Counted' \in Nat /\ Counted' <= Counted + 1
    BY <1>2, <1>4, <1>5, <1>8, Ranges DEF Counted
  <2>2. Counted' * (DOOR_SAMPLE_RATE + 1) <= (Counted + 1) * (DOOR_SAMPLE_RATE + 1)
        /\ Counted' * (DOOR_SAMPLE_RATE + 1) \in Nat
        /\ (Counted + 1) * (DOOR_SAMPLE_RATE + 1) \in Nat
    <3>1. Counted + 1 \in Nat /\ DOOR_SAMPLE_RATE + 1 \in Nat
      BY <2>1, Ranges
    <3> QED BY ONLY <2>1, <3>1, Products
  <2>3. SincePress' \in Int
    BY PressTimed
  <2> QED BY <1>5, <2>2, <2>3
<1>14. AfterSuccess'
  BY <1>2, <1>3, <1>4, <1>5 DEF AfterSuccess
<1> QED BY <1>5, <1>9, <1>10, <1>11, <1>12, <1>13, <1>14 DEF AInv

LEMMA StartStillStep ==
    ASSUME NEW d \in STEPS, Ready(d), StartStill(d, door_position'), TypeOK'
    PROVE  AInv'
<1> DEFINE state == IF TimestampElapsed(now', command_time, DOOR_COMMAND_DELAY)
                    THEN "ACTIVE" ELSE desired_state
<1>1. TypeOK /\ AInv /\ InStep
  BY DEF Ready, IInv, AInv
<1>2. /\ current_state = "START" /\ Sample(d, door_position')
      /\ stablize_count' = STABLIZE_COUNT_MAX /\ Settle(state) /\ result' = result
  BY DEF StartStill
<1>3. desired_state = "START" /\ result = "NONE" /\ ThisSide
  BY <1>1, <1>2 DEF AInv, InStep, WhileStarting
<1>4. state \in {"START", "ACTIVE"}
  BY <1>3
<1> HIDE DEF state
<1>5. /\ current_state' = state /\ desired_state' = state
      /\ current_position' = PositionAfter(d) /\ last_motion' = last_motion
      /\ desired_position' = desired_position
      /\ position_min' = position_min /\ position_max' = position_max
      /\ OneMovement' /\ MeanIsTrue' /\ SinceSample' = 0
  BY <1>2, <1>4, QuietSample
<1>6. HasTarget'
  BY <1>1, <1>2, <1>5, TargetKept
<1>7. InStep'
  BY <1>1, <1>2, <1>4, <1>5 DEF InStep
<1>8. WhileStarting'
  <2>1. desired_position \in Int
    BY <1>1, CountsAssumption DEF TypeOK
  <2> QED BY <1>2, <1>3, <1>5, <2>1, SampleWay DEF WhileStarting, ThisSide
<1>9. WhileMonitored'
  BY <1>4, <1>5 DEF WhileMonitored
<1>10. PulseBeforeCount'
  <2>1. Counted' = 0
    BY <1>2, <1>4, <1>5, Ranges DEF Counted
  <2>2. 0 * (DOOR_SAMPLE_RATE + 1) = 0
    BY Ranges
  <2> QED BY <1>5, <2>1, <2>2, PressTimed DEF PulseBeforeCount
<1>11. AfterSuccess'
  BY <1>2, <1>3, <1>4, <1>5 DEF AfterSuccess
<1> QED BY <1>5, <1>6, <1>7, <1>8, <1>9, <1>10, <1>11 DEF AInv

-----------------------------------------------------------------------------
(* STOP. *)

\* A door that stands still stands still.
LEMMA StandsStill ==
    ASSUME DoorTyped, NEW d \in STEPS, door_motion = 0
    PROVE  PositionAfter(d) = door_position /\ MotionAfter(d) = 0
<1>1. (0 * SPEED) * d = 0
  BY Steps, Ranges
<1>2. door_position \in BOTTOM .. TOP
  BY DEF DoorTyped
<1>3. PositionAfter(d) = door_position
  BY <1>1, <1>2, Ranges DEF PositionAfter
<1> QED BY <1>3 DEF MotionAfter

\* A door that has arrived stays where it is through a sample without a press.
LEMMA StaysArrived ==
    ASSUME DoorTyped, NEW d \in STEPS, Arrived,
           door_position' = PositionAfter(d), current_position' = door_position',
           door_motion' = MotionAfter(d), desired_position' = desired_position
    PROVE  Arrived'
BY StandsStill DEF Arrived, Near

LEMMA StopStep ==
    ASSUME NEW d \in STEPS, Ready(d),
           StopStill(d, door_position') \/ StopMoving(d, door_position'), TypeOK'
    PROVE  AInv'
<1>1. TypeOK /\ AInv /\ InStep /\ DoorTyped
  BY DEF Ready, IInv, AInv
<1>2. current_state = "STOP" /\ Sample(d, door_position') /\ result' = result
  BY DEF StopStill, StopMoving
<1>3. desired_state = "STOP" /\ result = "SUCCESS" /\ Arrived
  BY <1>1, <1>2 DEF AInv, InStep, AfterSuccess
<1>4. PICK state \in {"STOP", "ACTIVE"} :
          Settle(state) /\ (state = "ACTIVE" => stablize_count' = 0)
  BY <1>3 DEF StopStill, StopMoving
<1>5. /\ current_state' = state /\ desired_state' = state
      /\ current_position' = PositionAfter(d) /\ door_position' = PositionAfter(d)
      /\ door_motion' = MotionAfter(d)
      /\ desired_position' = desired_position
      /\ position_min' = position_min /\ position_max' = position_max
      /\ OneMovement'
  BY <1>2, <1>4, QuietSample
<1>6. HasTarget'
  BY <1>1, <1>2, <1>5, TargetKept
<1>7. InStep'
  BY <1>1, <1>4, <1>5 DEF InStep
<1>8. WhileStarting' /\ WhileMonitored' /\ PulseBeforeCount'
  BY <1>4, <1>5 DEF WhileStarting, WhileMonitored, PulseBeforeCount
<1>9. AfterSuccess'
  <2>1. Arrived'
    BY <1>1, <1>3, <1>5, StaysArrived
  <2> QED BY <1>2, <1>3, <2>1 DEF AfterSuccess
<1> QED BY <1>5, <1>6, <1>7, <1>8, <1>9 DEF AInv

-----------------------------------------------------------------------------
(* MONITOR. *)

\* What is known of a monitored door.
LEMMA Monitored ==
    ASSUME NEW d \in STEPS, Ready(d), current_state = "MONITOR"
    PROVE  /\ desired_state = "MONITOR" /\ result = "NONE" /\ Going
           /\ stablize_count = 0
           /\ desired_position \in Int
           /\ last_motion = 1 => /\ mean_position_delta <= 0
                                 /\ current_position < desired_position + REACH
           /\ last_motion = -1 => /\ mean_position_delta >= 0
                                  /\ current_position > desired_position - REACH
           /\ desired_position = POSITION_MAX => last_motion = 1
           /\ desired_position = POSITION_MIN => last_motion = -1
<1>1. TypeOK /\ MonitorAfterCount /\ InStep /\ WhileMonitored
  BY DEF Ready, IInv, AInv
<1> QED BY <1>1, CountsAssumption DEF TypeOK, MonitorAfterCount, InStep, WhileMonitored

\* The mean of a monitored door leads where the door goes.
LEMMA MonitoredMean ==
    ASSUME NEW d \in STEPS, Ready(d), current_state = "MONITOR"
    PROVE  /\ NewMean(PositionAfter(d)) \in Int
           /\ last_motion = 1 => NewMean(PositionAfter(d)) <= 0
           /\ last_motion = -1 => NewMean(PositionAfter(d)) >= 0
<1> DEFINE n == NewMean(PositionAfter(d))
           p == PositionAfter(d)
<1>1. TypeOK /\ OneMovement
  BY DEF Ready, IInv, AInv
<1>2. /\ current_position \in Int /\ p \in Int
      /\ last_motion \in {-1, 1}
      /\ last_motion = 1 => current_position <= p /\ p <= current_position + REACH
      /\ last_motion = -1 => p <= current_position /\ current_position <= p + REACH
  BY SampleWay
<1>3. /\ n \in Int
      /\ 2 * n <= mean_position_delta + (current_position - p)
      /\ mean_position_delta + (current_position - p) < 2 * n + 2
  BY <1>1, <1>2, MeanAfter, Ranges DEF OneMovement
<1>4. mean_position_delta \in Int
  BY <1>1, CountsAssumption DEF TypeOK
<1> HIDE DEF n, p
<1>5. last_motion = 1 => n <= 0
  BY <1>2, <1>3, <1>4, Monitored
<1>6. last_motion = -1 => n >= 0
  BY <1>2, <1>3, <1>4, Monitored
<1> QED BY <1>3, <1>5, <1>6 DEF n, p

LEMMA MonitorOnStep ==
    ASSUME NEW d \in STEPS, Ready(d), MonitorOn(d, door_position'), TypeOK'
    PROVE  AInv'
<1>1. TypeOK /\ AInv /\ InStep
  BY DEF Ready, IInv, AInv
<1>2. /\ current_state = "MONITOR" /\ ~AtTarget /\ Sample(d, door_position')
      /\ Settle("MONITOR") /\ result' = result /\ stablize_count' = stablize_count
  BY Monitored DEF MonitorOn
<1>3. /\ current_state' = "MONITOR" /\ desired_state' = "MONITOR"
      /\ current_position' = PositionAfter(d) /\ last_motion' = last_motion
      /\ mean_position_delta' = NewMean(PositionAfter(d))
      /\ desired_position' = desired_position
      /\ position_min' = position_min /\ position_max' = position_max
      /\ OneMovement' /\ Going' = Going /\ SinceSample' = 0
      /\ relay_output' = 1 => SincePress' >= (Counted + 1) * (DOOR_SAMPLE_RATE + 1)
  BY <1>2, QuietSample
<1>4. HasTarget'
  BY <1>1, <1>2, <1>3, TargetKept
<1>5. InStep'
  BY <1>1, <1>3 DEF InStep
<1>6. WhileMonitored'
  <2>1. /\ last_motion = 1 => PositionAfter(d) < desired_position + REACH
        /\ last_motion = -1 => PositionAfter(d) > desired_position - REACH
    BY <1>2, Monitored, SampleWay, SlowAssumption, Ranges DEF AtTarget
  <2> QED BY <1>2, <1>3, <2>1, Monitored, MonitoredMean DEF WhileMonitored
<1>7. WhileStarting' /\ AfterSuccess'
  BY <1>2, <1>3, Monitored DEF WhileStarting, AfterSuccess
<1>8. PulseBeforeCount'
  <2> SUFFICES ASSUME relay_output' = 1
               PROVE  SincePress' >= SinceSample' + Counted' * (DOOR_SAMPLE_RATE + 1)
    BY DEF PulseBeforeCount
  <2>1. Counted' = STABLIZE_COUNT_MAX /\ Counted = STABLIZE_COUNT_MAX
    BY <1>2, <1>3 DEF Counted
  <2>2. STABLIZE_COUNT_MAX + 1 \in Nat /\ DOOR_SAMPLE_RATE + 1 \in Nat
        /\ STABLIZE_COUNT_MAX \in Nat
    BY Ranges
  <2>3. /\ STABLIZE_COUNT_MAX * (DOOR_SAMPLE_RATE + 1)
               <= (STABLIZE_COUNT_MAX + 1) * (DOOR_SAMPLE_RATE + 1)
        /\ STABLIZE_COUNT_MAX * (DOOR_SAMPLE_RATE + 1) \in Nat
        /\ (STABLIZE_COUNT_MAX + 1) * (DOOR_SAMPLE_RATE + 1) \in Nat
    BY ONLY <2>2, Products
  <2> QED BY <1>3, <2>1, <2>3, PressTimed
<1> QED BY <1>3, <1>4, <1>5, <1>6, <1>7, <1>8 DEF AInv

\* An undisturbed door never moves the wrong way.
LEMMA NeverWrongWay ==
    ASSUME NEW d \in STEPS, Ready(d), MonitorWrongWay(d, door_position')
    PROVE  FALSE
<1> DEFINE n == NewMean(PositionAfter(d))
<1>1. /\ current_state = "MONITOR" /\ ~AtTarget /\ AwayFromTarget(n)
  BY DEF MonitorWrongWay, Ready, DoorTurn
<1>2. /\ n \in Int
      /\ last_motion = 1 => n <= 0
      /\ last_motion = -1 => n >= 0
  BY <1>1, MonitoredMean
<1> HIDE DEF n
<1>3. /\ current_position \in Int /\ desired_position \in Int
      /\ last_motion \in {-1, 1}
      /\ last_motion = 1 => current_position < desired_position + REACH
      /\ last_motion = -1 => current_position > desired_position - REACH
  BY <1>1, SampleWay, Monitored
<1> QED BY <1>1, <1>2, <1>3, SlowAssumption, Ranges DEF AwayFromTarget, AtTarget

\* The relay has been let go when the door is monitored.
LEMMA RelayOpen ==
    ASSUME NEW d \in STEPS, Ready(d), current_state = "MONITOR"
    PROVE  relay_output = 0
<1>1. TypeOK /\ PulseBeforeCount /\ InTime
  BY DEF Ready, IInv, AInv
<1>2. Counted = STABLIZE_COUNT_MAX
  BY DEF Counted
<1> DEFINE c == STABLIZE_COUNT_MAX * (DOOR_SAMPLE_RATE + 1)
<1>3. c \in Nat /\ RELAY_DELAY < c
  BY PaceAssumption, Ranges
<1>4. SincePress \in Nat /\ SinceSample \in Nat
  BY <1>1, AgoType, Ranges DEF SincePress, SinceSample, TypeOK
<1>5. relay_output = 1 => SincePress <= RELAY_DELAY /\ SincePress >= SinceSample + c
  BY <1>1, <1>2 DEF InTime, PulseBeforeCount
<1> HIDE DEF c
<1> QED BY <1>1, <1>3, <1>4, <1>5, Ranges DEF TypeOK

\* A monitored door whose position is within the threshold of a target inside
\* the range is still on its way, close behind the target at most.
LEMMA OnItsWay ==
    ASSUME NEW d \in STEPS, Ready(d), current_state = "MONITOR", AtTarget, TargetInside
    PROVE  MotionAfter(d) # 0 /\ Near(PositionAfter(d), desired_position)
<1> DEFINE p == PositionAfter(d)
<1>1. TypeOK /\ OneMovement /\ DoorTyped /\ InTime /\ AInv /\ InStep
  BY DEF Ready, IInv, AInv
<1>2. BOTTOM + 2 * REACH < desired_position /\ desired_position < TOP - 2 * REACH
      /\ desired_position \in Int
  <2>1. \E q \in COMMANDS : desired_position = Target(q)
    BY <1>1 DEF AInv, HasTarget, Idle
  <2> QED BY <1>1, <2>1, TargetPlace, Ranges
<1>3. /\ current_position \in Int /\ p \in Int
      /\ last_motion \in {-1, 1}
      /\ last_motion = 1 => current_position <= p /\ p <= current_position + REACH
      /\ last_motion = -1 => p <= current_position /\ current_position <= p + REACH
  BY SampleWay
<1>4. /\ last_motion = 1 => current_position < desired_position + REACH
      /\ last_motion = -1 => current_position > desired_position - REACH
      /\ Going
  BY Monitored
<1>5. p # End
  BY <1>2, <1>3, <1>4, Ranges DEF End
<1>6. MotionAfter(d) = last_motion
  BY <1>1, <1>4, <1>5, DoorWay
<1>7. current_position > desired_position - DOOR_THRESHOLD
      /\ current_position < desired_position + DOOR_THRESHOLD
  BY DEF AtTarget
<1>8. p - desired_position < DOOR_THRESHOLD /\ desired_position - p < DOOR_THRESHOLD
  BY <1>2, <1>3, <1>4, <1>7, SlowAssumption, Ranges
<1> QED BY <1>3, <1>6, <1>8 DEF Near

LEMMA MonitorReachedStep ==
    ASSUME NEW d \in STEPS, Ready(d), MonitorReached(d, door_position')
    PROVE  AInv'
<1>1. TypeOK /\ AInv /\ InStep /\ DoorTyped /\ OneMovement /\ InTime /\ DoorTurn(d)
  BY DEF Ready, IInv, AInv
<1>2. /\ current_state = "MONITOR" /\ AtTarget /\ Sample(d, door_position')
      /\ Settle(IF TargetInside THEN "STOP" ELSE "DOOR_IDLE")
      /\ result' = "SUCCESS" /\ stablize_count' = stablize_count
  BY DEF MonitorReached
<1>3. desired_position' = desired_position
      /\ position_min' = position_min /\ position_max' = position_max
  BY <1>2 DEF Sample, range
<1>4. HasTarget' /\ \E p \in COMMANDS : desired_position = Target(p)
  BY <1>1, <1>2, <1>3, TargetKept
<1>5. CASE TargetInside
  <2>1. Settle("STOP") /\ current_state # "STOP"
    BY <1>2, <1>5
  <2>2. current_state' = "STOP" /\ desired_state' = "STOP" /\ relay_output' = 1
    BY <2>1 DEF Settle
  <2>3. Pressing
    BY <1>2, <2>2, RelayOpen DEF Pressing
  <2>4. MotionAfter(d) # 0 /\ Near(PositionAfter(d), desired_position)
    BY <1>2, <1>5, OnItsWay
  <2>5. /\ OneMovement' /\ door_motion' = 0
        /\ current_position' = PositionAfter(d) /\ door_position' = PositionAfter(d)
    BY <1>1, <1>2, <2>3, <2>4, DoorSampled
  <2>6. Arrived'
    BY <1>3, <2>4, <2>5 DEF Arrived, Near
  <2>7. InStep' /\ WhileStarting' /\ WhileMonitored' /\ PulseBeforeCount' /\ AfterSuccess'
    BY <1>1, <1>2, <1>3, <2>2, <2>6
       DEF InStep, WhileStarting, WhileMonitored, PulseBeforeCount, AfterSuccess
  <2> QED BY <1>4, <2>5, <2>7 DEF AInv
<1>6. CASE ~TargetInside
  <2>1. Settle("DOOR_IDLE")
    BY <1>2, <1>6
  <2>2. /\ current_state' = "DOOR_IDLE" /\ desired_state' = "DOOR_IDLE"
        /\ OneMovement' /\ Going' = Going /\ last_motion' = last_motion
    BY <1>2, <2>1, QuietSample
  <2>3. desired_position \in {POSITION_MIN, POSITION_MAX}
    BY <1>1, <1>4, <1>6, TargetPlace
  <2>4. AfterSuccess'
    BY <1>2, <1>3, <2>2, <2>3, Monitored DEF AfterSuccess
  <2>5. InStep' /\ WhileStarting' /\ WhileMonitored' /\ PulseBeforeCount'
    BY <1>1, <1>2, <1>3, <2>2, Monitored
       DEF InStep, WhileStarting, WhileMonitored, PulseBeforeCount
  <2> QED BY <1>4, <2>2, <2>4, <2>5 DEF AInv
<1> QED BY <1>5, <1>6

-----------------------------------------------------------------------------
(* ACTIVE and DOOR_IDLE. *)

\* A door sent to an end from beyond the threshold is on this side of it, even
\* after one more sample.
LEMMA StartsThisSide ==
    ASSUME NEW d \in STEPS, Ready(d), ~AtTarget
    PROVE  /\ desired_position = POSITION_MAX => PositionAfter(d) < desired_position
           /\ desired_position = POSITION_MIN => PositionAfter(d) > desired_position
<1> DEFINE p == PositionAfter(d)
<1>1. OneMovement
  BY DEF Ready, AInv
<1>2. current_position \in BOTTOM .. TOP /\ current_position \in Int
  BY <1>1, Ranges DEF OneMovement
<1>3. p \in Int /\ p <= current_position + REACH /\ current_position <= p + REACH
  BY SampleWay, Ranges
<1>4. /\ TOP - POSITION_MAX < DOOR_THRESHOLD
      /\ POSITION_MIN - BOTTOM < DOOR_THRESHOLD
  BY CalibratedAssumption DEF Near
<1> HIDE DEF p
<1>5. ASSUME desired_position = POSITION_MAX PROVE p < desired_position
  BY <1>2, <1>3, <1>4, <1>5, SlowAssumption, Ranges DEF AtTarget
<1>6. ASSUME desired_position = POSITION_MIN PROVE p > desired_position
  BY <1>2, <1>3, <1>4, <1>6, SlowAssumption, Ranges DEF AtTarget
<1> QED BY <1>5, <1>6 DEF p

LEMMA SampleActiveStep ==
    ASSUME NEW d \in STEPS, Ready(d), SampleActive(d, door_position'), TypeOK'
    PROVE  AInv'
<1>1. /\ TypeOK /\ AInv /\ InStep /\ DoorTyped /\ OneMovement /\ InTime /\ DoorTurn(d)
      /\ VerdictOfLastCommand
  BY DEF Ready, IInv, AInv
<1>2. /\ current_state = "ACTIVE" /\ Sample(d, door_position')
      /\ Settle(IF AtTarget THEN "DOOR_IDLE" ELSE "START")
      /\ result' = result /\ stablize_count' = stablize_count
  BY DEF SampleActive
<1>3. desired_position' = desired_position
      /\ position_min' = position_min /\ position_max' = position_max
  BY <1>2 DEF Sample, range
<1>4. HasTarget' /\ \E p \in COMMANDS : desired_position = Target(p)
  BY <1>1, <1>2, <1>3, TargetKept
<1>5. result = "NONE" \/ (result = "SUCCESS" /\ Arrived)
  BY <1>1, <1>2 DEF TypeOK, DoorResult, VerdictOfLastCommand, AInv, AfterSuccess
<1>6. Arrived => AtTarget
  <2>1. current_position \in Int /\ desired_position \in Int
    BY <1>1, CountsAssumption DEF TypeOK
  <2> QED BY <2>1, Ranges DEF Arrived, Near, AtTarget
<1>7. stablize_count \in {0, STABLIZE_COUNT_MAX}
  BY <1>1, <1>2 DEF InStep
<1>8. CASE AtTarget
  <2>1. Settle("DOOR_IDLE")
    BY <1>2, <1>8
  <2>2. /\ current_state' = "DOOR_IDLE" /\ desired_state' = "DOOR_IDLE" /\ OneMovement'
        /\ current_position' = PositionAfter(d) /\ door_position' = PositionAfter(d)
        /\ door_motion' = MotionAfter(d)
    BY <1>2, <2>1, QuietSample
  <2>3. Arrived => Arrived'
    BY <1>1, <1>3, <2>2, StaysArrived
  <2>4. InStep' /\ WhileStarting' /\ WhileMonitored' /\ PulseBeforeCount' /\ AfterSuccess'
    BY <1>1, <1>2, <1>3, <1>5, <1>7, <2>2, <2>3
       DEF InStep, WhileStarting, WhileMonitored, PulseBeforeCount, AfterSuccess
  <2> QED BY <1>4, <2>2, <2>4 DEF AInv
<1>9. CASE ~AtTarget
  <2>1. Settle("START") /\ result = "NONE"
    BY <1>2, <1>5, <1>6, <1>9
  <2>2. /\ current_state' = "START" /\ desired_state' = "START"
        /\ relay_time' = UAdd(now', RELAY_DELAY)
    BY <1>2, <2>1 DEF Settle
  <2>3. OneMovement' /\ current_position' = PositionAfter(d)
    BY <1>1, <1>2, DoorSampled
  <2>4. WhileStarting'
    BY <1>2, <1>3, <1>7, <1>9, <2>1, <2>2, <2>3, StartsThisSide DEF WhileStarting, ThisSide
  <2>5. PulseBeforeCount'
    <3>1. SincePress' = 0 /\ SinceSample' = 0
      BY <1>1, <1>2, <2>2, SampleTime, AgoFresh, Ranges DEF SincePress
    <3>2. Counted' = 0
      BY <1>2, <1>7, <2>2, Ranges DEF Counted
    <3>3. 0 * (DOOR_SAMPLE_RATE + 1) = 0
      BY Ranges
    <3> QED BY <3>1, <3>2, <3>3 DEF PulseBeforeCount
  <2>6. InStep' /\ WhileMonitored' /\ AfterSuccess'
    BY <1>1, <1>2, <1>3, <2>1, <2>2 DEF InStep, WhileMonitored, AfterSuccess
  <2> QED BY <1>4, <2>3, <2>4, <2>5, <2>6 DEF AInv
<1> QED BY <1>8, <1>9

LEMMA SampleIdleStep ==
    ASSUME NEW d \in STEPS, Ready(d), SampleIdle(d, door_position')
    PROVE  AInv'
<1>1. /\ TypeOK /\ AInv /\ InStep /\ DoorTyped /\ OnlyCommandsPend /\ VerdictOfLastCommand
  BY DEF Ready, IInv, AInv
<1>2. /\ current_state = "DOOR_IDLE" /\ Sample(d, door_position')
      /\ Settle(desired_state) /\ result' = result /\ stablize_count' = stablize_count
  BY DEF SampleIdle
<1>3. desired_state \in {"DOOR_IDLE", "ACTIVE"}
  BY <1>1, <1>2 DEF OnlyCommandsPend
<1>4. /\ current_state' = desired_state /\ desired_state' = desired_state
      /\ current_position' = PositionAfter(d) /\ door_position' = PositionAfter(d)
      /\ door_motion' = MotionAfter(d) /\ last_motion' = last_motion
      /\ desired_position' = desired_position
      /\ position_min' = position_min /\ position_max' = position_max
      /\ OneMovement' /\ Going' = Going
  BY <1>2, <1>3, QuietSample
<1>5. HasTarget'
  BY <1>1, <1>2, <1>4 DEF AInv, HasTarget, Idle
<1>6. InStep'
  BY <1>1, <1>2, <1>4 DEF InStep
<1>7. WhileStarting' /\ WhileMonitored' /\ PulseBeforeCount'
  BY <1>3, <1>4 DEF WhileStarting, WhileMonitored, PulseBeforeCount
<1>8. AfterSuccess'
  <2>1. Arrived => Arrived'
    BY <1>1, <1>4, StaysArrived
  <2>2. desired_state = "ACTIVE" => result = "NONE"
    BY <1>1, <1>2 DEF VerdictOfLastCommand
  <2> QED BY <1>1, <1>2, <1>3, <1>4, <2>1, <2>2 DEF AInv, AfterSuccess
<1> QED BY <1>4, <1>5, <1>6, <1>7, <1>8 DEF AInv

-----------------------------------------------------------------------------
(* A command, the initial state, and every step. *)

LEMMA CommandStep ==
    ASSUME DoorTyped, IInv, AInv, Undisturbed, Command
    PROVE  AInv'
<1>1. TypeOK /\ InStep /\ OneMovement /\ AInv
  BY DEF IInv, AInv
<1>2. PICK p \in COMMANDS : SetPosition(p)
  BY DEF Command
<1>3. current_state = "DOOR_IDLE"
  BY DEF Undisturbed, Command, Idle
<1>4. /\ desired_position' = LinearMap(p, 0, 100, position_min, position_max) % UINT16_MOD
      /\ desired_state' = "ACTIVE" /\ result' = "NONE"
      /\ UNCHANGED <<now, current_state, current_position, mean_position_delta,
                     relay_output, stablize_count>>
      /\ UNCHANGED <<position_min, position_max>>
      /\ UNCHANGED <<time_stamp, command_time, relay_time>>
  BY <1>2 DEF SetPosition, range, timers
<1>5. UNCHANGED <<door_position, door_motion, last_motion>>
  BY DEF Command, door
<1>6. HasTarget'
  <2>1. desired_position' = Target(p)
    BY <1>1, <1>4, TargetType DEF InStep, Target
  <2> QED BY <2>1 DEF HasTarget
<1>7. OneMovement'
  BY <1>1, <1>4, <1>5 DEF OneMovement, Moved, Going, End, SinceSample
<1>8. InStep' /\ WhileStarting' /\ WhileMonitored' /\ PulseBeforeCount' /\ AfterSuccess'
  BY <1>1, <1>3, <1>4
     DEF InStep, WhileStarting, WhileMonitored, PulseBeforeCount, AfterSuccess
<1> QED BY <1>6, <1>7, <1>8 DEF AInv

LEMMA TurnStep ==
    ASSUME DoorTyped, IInv, AInv, InTime, TurnOfLoop, TypeOK'
    PROVE  AInv'
<1>1. PICK d \in STEPS : Turn(d)
  BY DEF TurnOfLoop
<1>2. Ready(d) /\ Execute(d, door_position')
  BY <1>1 DEF Turn, Ready, DoorTurn
<1>3. CASE PollOnly(d)
  BY <1>2, <1>3, PollStep
<1>4. CASE StartMoving(d, door_position')
  BY <1>2, <1>4, StartMovingStep
<1>5. CASE StartStill(d, door_position')
  BY <1>2, <1>5, StartStillStep
<1>6. CASE StopStill(d, door_position') \/ StopMoving(d, door_position')
  BY <1>2, <1>6, StopStep
<1>7. CASE MonitorReached(d, door_position')
  BY <1>2, <1>7, MonitorReachedStep
<1>8. CASE MonitorWrongWay(d, door_position')
  BY <1>2, <1>8, NeverWrongWay
<1>9. CASE MonitorOn(d, door_position')
  BY <1>2, <1>9, MonitorOnStep
<1>10. CASE SampleActive(d, door_position')
  BY <1>2, <1>10, SampleActiveStep
<1>11. CASE SampleIdle(d, door_position')
  BY <1>2, <1>11, SampleIdleStep
<1> QED
  BY <1>2, <1>3, <1>4, <1>5, <1>6, <1>7, <1>8, <1>9, <1>10, <1>11 DEF Execute

LEMMA ApproachInit == GInit => AInv
<1> SUFFICES ASSUME GInit PROVE AInv
  OBVIOUS
<1>1. Init /\ door_position \in BOTTOM .. TOP /\ current_position = door_position
      /\ door_motion = 0 /\ last_motion \in {-1, 1}
  BY DoorAssumption DEF GInit
<1>2. Moved = 0
  BY <1>1, Ranges DEF Moved
<1>3. OneMovement
  BY <1>1, <1>2, Ranges DEF OneMovement, Init
<1>4. InStep /\ HasTarget /\ WhileStarting /\ WhileMonitored /\ PulseBeforeCount /\ AfterSuccess
  BY <1>1 DEF Init, InStep, HasTarget, Idle, WhileStarting, WhileMonitored,
              PulseBeforeCount, AfterSuccess
<1> QED BY <1>3, <1>4 DEF AInv

LEMMA ApproachNext ==
    /\ DoorTyped /\ IInv /\ AInv /\ InTime /\ Undisturbed
    /\ [GNext]_gvars /\ TypeOK' /\ Undisturbed'
    => AInv'
<1> SUFFICES ASSUME DoorTyped, IInv, AInv, InTime, Undisturbed,
                    [GNext]_gvars, TypeOK', Undisturbed'
             PROVE  AInv'
  OBVIOUS
<1>1. CASE Command
  BY <1>1, CommandStep
<1>2. CASE WallButton
  <2>1. disturbances = 0 /\ disturbances' = disturbances + 1 /\ disturbances' = 0
    BY <1>2 DEF WallButton, Undisturbed
  <2> QED BY <2>1
<1>3. CASE TurnOfLoop
  BY <1>3, TurnStep
<1>4. CASE UNCHANGED gvars
  BY <1>4 DEF gvars, vars, control, position, range, timers, door,
     AInv, OneMovement, InStep, HasTarget, Idle, WhileStarting, WhileMonitored,
     PulseBeforeCount, AfterSuccess, Arrived, Moved, Going, End, MeanIsTrue, IsMoving,
     ThisSide, SinceSample, SincePress, Counted, Near
<1> QED BY <1>1, <1>2, <1>3, <1>4 DEF GNext

\* FAIL is the verdict of MonitorWrongWay alone.
LEMMA NoAlarmNext ==
    DoorTyped /\ IInv /\ AInv /\ InTime /\ NoFalseAlarm /\ [GNext]_gvars => NoFalseAlarm'
<1> SUFFICES ASSUME DoorTyped, IInv, AInv, InTime, NoFalseAlarm, [GNext]_gvars
             PROVE  NoFalseAlarm'
  OBVIOUS
<1>1. CASE Command
  BY <1>1 DEF Command, SetPosition, NoFalseAlarm
<1>2. CASE WallButton
  BY <1>2 DEF WallButton, vars, control, NoFalseAlarm
<1>3. CASE TurnOfLoop
  <2>1. PICK d \in STEPS : Turn(d)
    BY <1>3 DEF TurnOfLoop
  <2>2. Ready(d) /\ Execute(d, door_position')
    BY <2>1 DEF Turn, Ready, DoorTurn
  <2>3. ~MonitorWrongWay(d, door_position')
    BY <2>2, NeverWrongWay
  <2>4. result' \in {result, "SUCCESS"}
    BY <2>2, <2>3 DEF Execute, PollOnly, control, StartMoving, StartStill, StopStill,
       StopMoving, MonitorReached, MonitorOn, SampleActive, SampleIdle
  <2> QED BY <2>4 DEF NoFalseAlarm
<1>4. CASE UNCHANGED gvars
  BY <1>4 DEF gvars, vars, control, NoFalseAlarm
<1> QED BY <1>1, <1>2, <1>3, <1>4 DEF GNext

(***************************************************************************)
(* The approach of an undisturbed door to its target, for every speed,     *)
(* travel, threshold and delay that the assumptions allow and every rhythm *)
(* of the loop, as long as no deadline is lost at the wrap of the clock.   *)
(***************************************************************************)
THEOREM DoorApproaches == GSpec /\ [](InTime /\ Undisturbed) => []Approach
<1>1. GSpec => []DoorTyped
  BY DoorInit, DoorNext, PTL DEF GSpec
<1>2. GSpec => []IInv
  BY GarageIsControl, Invariance, PTL
<1>3. IInv => TypeOK
  BY DEF IInv
<1>4. GSpec /\ [](InTime /\ Undisturbed) => []AInv
  BY <1>1, <1>2, <1>3, ApproachInit, ApproachNext, PTL DEF GSpec
<1>5. GInit => NoFalseAlarm
  BY DEF GInit, Init, NoFalseAlarm
<1>6. GSpec /\ [](InTime /\ Undisturbed) => []NoFalseAlarm
  BY <1>1, <1>2, <1>4, <1>5, NoAlarmNext, PTL DEF GSpec
<1>7. GTypeOK /\ InTime /\ Undisturbed /\ AInv /\ NoFalseAlarm => Approach
  BY DEF AInv, Approach
<1> QED BY <1>4, <1>6, <1>7, GarageTyped, PTL

(***************************************************************************)
(* The control lets go of a monitored door as FAIL only if somebody        *)
(* disturbed it.                                                           *)
(***************************************************************************)
THEOREM NeverAlarmed == GSpec /\ [](InTime /\ Undisturbed) => []NoFalseAlarm
<1>1. Approach => NoFalseAlarm
  BY DEF Approach
<1> QED BY <1>1, DoorApproaches, PTL

(***************************************************************************)
(* SUCCESS is true: when the control has reported it and the door stands,  *)
(* the door stands within the threshold of the target.  The run success    *)
(* shows that it is not so for a user who does not wait for the door.      *)
(***************************************************************************)
THEOREM SuccessesAreTrue == GSpec /\ [](InTime /\ Undisturbed) => []SuccessIsTrue
<1>1. Approach => SuccessIsTrue
  <2> SUFFICES ASSUME Approach, result = "SUCCESS", door_motion = 0
               PROVE  Near(door_position, desired_position)
    BY DEF SuccessIsTrue
  <2>1. CASE Arrived
    BY <2>1 DEF Arrived
  <2>2. CASE Going /\ desired_position = POSITION_MAX /\ last_motion = 1
    BY <2>2, CalibratedAssumption DEF Going, End
  <2>3. CASE Going /\ desired_position = POSITION_MIN /\ last_motion = -1
    BY <2>3, CalibratedAssumption DEF Going, End
  <2> QED BY <2>1, <2>2, <2>3 DEF Approach, AfterSuccess
<1> QED BY <1>1, DoorApproaches, PTL
-----------------------------------------------------------------------------
(***************************************************************************)
(* A door that somebody disturbs.                                          *)
(***************************************************************************)

\* The inductive part of Watched.
WInv ==
    /\ InSight
    /\ MeanIsEarned
    /\ TargetInReach
    /\ current_state = "MONITOR" /\ desired_state = "MONITOR" => WatchedUp \/ WatchedDown

\* A state of a door that is seen in time, and what Turn does to the door.
Followed(d) ==
    /\ DoorTyped /\ TypeOK /\ OnlyCommandsPend /\ WInv /\ SeenInTime /\ FewPresses
    /\ DoorTurn(d) /\ disturbances' = disturbances

\* The quantities the proofs below compute with.
LEMMA Quantities ==
    ASSUME NEW d \in STEPS, Followed(d)
    PROVE  /\ PositionAfter(d) \in BOTTOM .. TOP
           /\ current_position \in BOTTOM .. TOP
           /\ door_position \in BOTTOM .. TOP
           /\ door_motion \in {-1, 0, 1}
           /\ mean_position_delta \in Int /\ desired_position \in Int /\ disturbances \in Nat
           /\ PositionAfter(d) - current_position <= REACH
           /\ current_position - PositionAfter(d) <= REACH
           /\ d \in Nat /\ d <= MAX_GAP /\ SinceSample \in Nat
<1>1. DoorTyped /\ TypeOK /\ InSight /\ SeenInTime
  BY DEF Followed, WInv
<1>2. PositionAfter(d) \in BOTTOM .. TOP
  BY <1>1, DoorMoves
<1>3. mean_position_delta \in Int /\ desired_position \in Int
      /\ now \in Time /\ time_stamp \in Time
  BY <1>1, CountsAssumption DEF TypeOK
<1>4. SinceSample \in Nat
  BY <1>3, AgoType, Ranges DEF SinceSample
<1>5. disturbances \in Nat
  BY <1>1, DoorAssumption DEF DoorTyped
<1> QED BY <1>1, <1>2, <1>3, <1>4, <1>5, Steps DEF InSight, SeenInTime, DoorTyped

\* The way of the door in a turn.
LEMMA DoorGoes ==
    ASSUME NEW d \in STEPS, Followed(d)
    PROVE  /\ door_motion >= 0 => PositionAfter(d) >= door_position /\ MotionAfter(d) >= 0
           /\ door_motion = 0 => PositionAfter(d) = door_position /\ MotionAfter(d) = 0
           /\ door_motion = -1 =>
                 \/ PositionAfter(d) = BOTTOM /\ MotionAfter(d) = 0
                 \/ PositionAfter(d) = door_position - SPEED * d /\ MotionAfter(d) = -1
<1> DEFINE s == SPEED * d
<1>1. d \in Nat /\ s \in Nat /\ door_position \in BOTTOM .. TOP /\ door_motion \in {-1, 0, 1}
  BY Quantities, Ranges
<1>2. (0 * SPEED) * d = 0 /\ (1 * SPEED) * d = s /\ ((-1) * SPEED) * d = -s
  BY <1>1, Ranges
<1> HIDE DEF s
<1>3. CASE door_motion = 0
  <2>1. door_position + door_motion * SPEED * d = door_position
    BY <1>1, <1>2, <1>3, Ranges
  <2> QED BY <1>1, <1>3, <2>1, Ranges DEF PositionAfter, MotionAfter
<1>4. CASE door_motion = 1
  <2>1. door_position + door_motion * SPEED * d = door_position + s
    BY <1>1, <1>2, <1>4, Ranges
  <2> QED BY <1>1, <1>4, <2>1, Ranges DEF PositionAfter, MotionAfter
<1>5. CASE door_motion = -1
  <2>1. door_position + door_motion * SPEED * d = door_position - s
    BY <1>1, <1>2, <1>5, Ranges
  <2> QED BY <1>1, <1>5, <2>1, Ranges DEF PositionAfter, MotionAfter, s
<1> QED BY <1>1, <1>3, <1>4, <1>5

\* A door that goes down without a press since the last sample: the time since
\* then is short, and the next sample sees all of the way.
LEMMA GoesDown ==
    ASSUME NEW d \in STEPS, Followed(d), door_motion = -1, MotionAfter(d) = -1,
           current_position - door_position >= SPEED * SinceSample
    PROVE  /\ SinceSample + d < TIME_MOD
           /\ current_position - PositionAfter(d) >= SPEED * (SinceSample + d)
<1>1. /\ d \in Nat /\ d <= MAX_GAP /\ SinceSample \in Nat
      /\ current_position \in Int /\ door_position \in Int
      /\ current_position - PositionAfter(d) <= REACH
  BY Quantities, Ranges
<1>2. PositionAfter(d) = door_position - SPEED * d /\ SPEED * d \in Nat
  BY <1>1, DoorGoes, Ranges
<1>3. SPEED * (SinceSample + d) = SPEED * SinceSample + SPEED * d
      /\ SPEED * SinceSample \in Nat
  BY <1>1, Ranges
<1>4. current_position - PositionAfter(d) >= SPEED * (SinceSample + d)
  BY <1>1, <1>2, <1>3
<1>5. SPEED * SinceSample <= SPEED * MAX_GAP
  BY <1>1, <1>2, <1>3, <1>4, Ranges DEF REACH
<1>6. SPEED > 0
  <2>1. SPEED # 0
    BY NoCreepAssumption, Ranges
  <2> QED BY <2>1, Ranges
<1>7. SinceSample <= MAX_GAP
  <2> SUFFICES ASSUME SinceSample > MAX_GAP PROVE FALSE
    BY <1>1, Ranges
  <2> DEFINE e == SinceSample - MAX_GAP
  <2>1. e \in Nat /\ e > 0 /\ SinceSample = MAX_GAP + e
    BY <1>1, Ranges
  <2>2. SPEED * SinceSample = SPEED * MAX_GAP + SPEED * e
    BY <2>1, Ranges
  <2>3. SPEED * e > 0 /\ SPEED * e \in Int /\ SPEED * MAX_GAP \in Int
    BY <1>6, <2>1, Ranges
  <2> DEFINE x == SPEED * SinceSample
             y == SPEED * MAX_GAP
             z == SPEED * e
  <2>4. x = y + z /\ z > 0 /\ z \in Int /\ y \in Int /\ x <= y
    BY <1>5, <2>2, <2>3
  <2> HIDE DEF x, y, z
  <2> QED BY <2>4
<1>8. SinceSample + d < TIME_MOD
  BY <1>1, <1>7, PaceAssumption, Ranges
<1> QED BY <1>4, <1>8

\* What every sample makes of the mean.
LEMMA SampleEarned ==
    ASSUME NEW d \in STEPS, Followed(d), Sample(d, door_position')
    PROVE  /\ current_position' = PositionAfter(d) /\ door_position' = PositionAfter(d)
           /\ mean_position_delta' = NewMean(PositionAfter(d))
           /\ mean_position_delta' \in Int
           /\ 2 * mean_position_delta'
                 <= mean_position_delta + (current_position - PositionAfter(d))
           /\ mean_position_delta + (current_position - PositionAfter(d))
                 < 2 * mean_position_delta' + 2
           /\ desired_position' = desired_position /\ disturbances' = disturbances
           /\ SinceSample' = 0
           /\ InSight' /\ MeanIsEarned' /\ TargetInReach'
<1>1. TypeOK /\ InSight /\ MeanIsEarned /\ TargetInReach /\ DoorTurn(d)
  BY DEF Followed, WInv
<1> DEFINE p == PositionAfter(d)
           n == NewMean(p)
<1>2. /\ current_position' = p /\ door_position' = p /\ mean_position_delta' = n
      /\ desired_position' = desired_position
      /\ position_min' = position_min /\ position_max' = position_max
      /\ disturbances' = disturbances
  BY <1>1 DEF Sample, DoorTurn, Followed, range
<1>3. /\ p \in BOTTOM .. TOP /\ p \in Int /\ current_position \in BOTTOM .. TOP
      /\ mean_position_delta \in Int
      /\ current_position - p <= REACH /\ -REACH <= current_position - p
      /\ mean_position_delta <= REACH /\ -REACH <= mean_position_delta
  BY <1>1, Quantities, Ranges DEF InSight
<1>4. /\ n \in Int
      /\ 2 * n <= mean_position_delta + (current_position - p)
      /\ mean_position_delta + (current_position - p) < 2 * n + 2
      /\ n <= REACH /\ -REACH <= n
  BY <1>1, <1>3, MeanAfter
<1> HIDE DEF p, n
<1>5. InSight'
  BY <1>2, <1>3, <1>4 DEF InSight
<1>6. MeanIsEarned'
  BY <1>1, <1>2, <1>3, <1>4, Ranges DEF MeanIsEarned
<1>7. TargetInReach'
  BY <1>1, <1>2 DEF TargetInReach
<1>8. SinceSample' = 0
  BY <1>1, SampleTime
<1> QED BY <1>2, <1>4, <1>5, <1>6, <1>7, <1>8 DEF p, n

\* A sample that does not press the button leaves the door as it goes.
LEMMA Unpressed ==
    ASSUME NEW d \in STEPS, Followed(d), NEW state, Settle(state),
           state \notin {"START", "STOP"}
    PROVE  /\ current_state' = state /\ desired_state' = state
           /\ door_motion' = MotionAfter(d)
<1>1. current_state' = state /\ desired_state' = state /\ relay_output' = RelayAfterRelease
  BY DEF Settle
<1> QED BY <1>1 DEF RelayAfterRelease, DoorTurn, Followed

\* A door that nobody pressed since the last sample and that WillBeSeen does not
\* go down, or by two positions at least.
LEMMA SeenGoing ==
    ASSUME NEW d \in STEPS, Followed(d), Sample(d, door_position'),
           WatchedUp, WillBeSeen
    PROVE  \/ PositionAfter(d) >= current_position /\ MotionAfter(d) >= 0
           \/ mean_position_delta = 0 /\ current_position - PositionAfter(d) >= 2
<1>1. /\ PositionAfter(d) \in Int /\ current_position \in Int /\ door_position \in Int
      /\ door_motion \in {-1, 0, 1} /\ mean_position_delta \in Int /\ disturbances \in Nat
      /\ d \in Nat /\ SinceSample \in Nat
  BY Quantities, Ranges
<1>2. CASE door_motion >= 0 /\ door_position >= current_position
  BY <1>1, <1>2, DoorGoes
<1>3. ASSUME mean_position_delta = 0, PositionAfter(d) = BOTTOM
      PROVE  current_position - PositionAfter(d) >= 2
  <2>1. current_position + disturbances + 1 >= BOTTOM + DELTA_THRESHOLD
    BY <1>1, <1>3 DEF WatchedUp, Margin
  <2>2. disturbances + 2 < DELTA_THRESHOLD
    BY DEF Followed, FewPresses
  <2> QED BY <1>1, <1>3, <2>1, <2>2, Ranges
<1>4. CASE /\ mean_position_delta = 0 /\ door_motion = -1
           /\ current_position - door_position >= SPEED * SinceSample
  <2>1. CASE PositionAfter(d) = BOTTOM
    BY <1>3, <1>4, <2>1
  <2>2. CASE PositionAfter(d) # BOTTOM
    <3>1. MotionAfter(d) = -1
      BY <1>4, <2>2, DoorGoes
    <3>2. SinceSample + d < TIME_MOD
          /\ current_position - PositionAfter(d) >= SPEED * (SinceSample + d)
      BY <1>4, <3>1, GoesDown
    <3>3. SinceSample + d >= DOOR_SAMPLE_RATE + 1
      BY <3>2, SampleTime DEF Followed
    <3> DEFINE e == SinceSample + d - (DOOR_SAMPLE_RATE + 1)
    <3>4. e \in Nat /\ SinceSample + d = (DOOR_SAMPLE_RATE + 1) + e
      BY <1>1, <3>3, Ranges
    <3> HIDE DEF e
    <3>5. SPEED * (SinceSample + d) = SPEED * (DOOR_SAMPLE_RATE + 1) + SPEED * e
          /\ SPEED * e \in Nat /\ SPEED * (DOOR_SAMPLE_RATE + 1) \in Nat
      BY <3>4, Ranges
    <3>6. SPEED * (SinceSample + d) >= 2
      BY <3>5, NoCreepAssumption
    <3> DEFINE w == SPEED * (SinceSample + d)
    <3>7. w \in Nat /\ w >= 2 /\ current_position - PositionAfter(d) >= w
      BY <1>1, <3>2, <3>6, Ranges
    <3> HIDE DEF w
    <3> QED BY <1>1, <1>4, <3>7
  <2> QED BY <2>1, <2>2
<1>5. CASE mean_position_delta = 0 /\ door_motion < 1 /\ door_position = BOTTOM
  <2>1. PositionAfter(d) = BOTTOM
    <3>1. SPEED * d \in Nat /\ PositionAfter(d) \in BOTTOM .. TOP
      BY <1>1, Quantities, Ranges
    <3> QED BY <1>1, <1>5, <3>1, DoorGoes, Ranges
  <2> QED BY <1>3, <1>5, <2>1
<1> QED BY <1>2, <1>4, <1>5 DEF WillBeSeen

\* Before the sampling deadline.
LEMMA WatchPoll ==
    ASSUME NEW d \in STEPS, Followed(d), PollOnly(d)
    PROVE  WInv'
<1>1. /\ now' = UAdd(now, d) /\ relay_output' = RelayAfterRelease
      /\ UNCHANGED <<current_state, desired_state>>
      /\ UNCHANGED <<current_position, desired_position, mean_position_delta>>
      /\ UNCHANGED <<position_min, position_max, time_stamp>>
  BY DEF PollOnly, control, position, range, timers
<1>2. door_position' = PositionAfter(d) /\ door_motion' = MotionAfter(d)
      /\ disturbances' = disturbances
  BY <1>1 DEF Followed, DoorTurn, RelayAfterRelease
<1>3. /\ PositionAfter(d) \in BOTTOM .. TOP /\ PositionAfter(d) \in Int
      /\ current_position \in Int /\ door_position \in BOTTOM .. TOP /\ door_position \in Int
      /\ door_motion \in {-1, 0, 1} /\ d \in Nat /\ SinceSample \in Nat
      /\ SPEED * d \in Nat
  BY Quantities, Ranges
<1>4. WillBeSeen => WillBeSeen'
  <2>1. CASE door_motion >= 0 /\ door_position >= current_position
    BY <1>1, <1>2, <1>3, <2>1, DoorGoes DEF WillBeSeen
  <2>2. CASE /\ mean_position_delta = 0 /\ door_motion = -1
             /\ current_position - door_position >= SPEED * SinceSample
    <3>1. CASE MotionAfter(d) = -1
      <4>1. SinceSample + d < TIME_MOD
            /\ current_position - PositionAfter(d) >= SPEED * (SinceSample + d)
        BY <2>2, <3>1, GoesDown
      <4>2. SinceSample' = SinceSample + d
        <5>1. now \in Time /\ time_stamp \in Time
          BY DEF Followed, TypeOK
        <5> QED BY <1>1, <1>3, <4>1, <5>1, AgoOn, Ranges DEF SinceSample
      <4> QED BY <1>1, <1>2, <2>2, <3>1, <4>1, <4>2 DEF WillBeSeen
    <3>2. CASE PositionAfter(d) = BOTTOM /\ MotionAfter(d) = 0
      BY <1>1, <1>2, <2>2, <3>2 DEF WillBeSeen
    <3> QED BY <2>2, <3>1, <3>2, DoorGoes
  <2>3. CASE mean_position_delta = 0 /\ door_motion < 1 /\ door_position = BOTTOM
    <3>1. PositionAfter(d) = BOTTOM /\ MotionAfter(d) < 1
      BY <1>3, <2>3, DoorGoes, Ranges DEF MotionAfter
    <3> QED BY <1>1, <1>2, <2>3, <3>1 DEF WillBeSeen
  <2> QED BY <2>1, <2>2, <2>3 DEF WillBeSeen
<1>5. InSight' /\ MeanIsEarned' /\ TargetInReach'
  BY <1>1 DEF Followed, WInv, InSight, MeanIsEarned, TargetInReach
<1>6. Margin' = Margin
  BY <1>1 DEF Margin
<1>7. (WatchedUp => WatchedUp') /\ (WatchedDown => WatchedDown')
  BY <1>1, <1>2, <1>4, <1>6 DEF WatchedUp, WatchedDown
<1> QED BY <1>1, <1>5, <1>7 DEF Followed, WInv

\* A sample that does not end, or stay, in MONITOR.
LEMMA WatchOther ==
    ASSUME NEW d \in STEPS, Followed(d), Sample(d, door_position'),
           NEW state, Settle(state), state # "MONITOR"
    PROVE  WInv'
<1>1. current_state' = state
  BY DEF Settle
<1> QED BY <1>1, SampleEarned DEF WInv

\* START lets the door through: the mean it earned keeps it away from the end
\* it comes from.
LEMMA WatchBegins ==
    ASSUME NEW d \in STEPS, Followed(d), Sample(d, door_position'), IsMoving,
           Settle("MONITOR"), TowardsTarget(NewMean(PositionAfter(d)))
    PROVE  WInv'
<1> DEFINE p == PositionAfter(d)
           n == NewMean(p)
           c == current_position
           m == mean_position_delta
<1>1. /\ current_position' = p /\ mean_position_delta' = n /\ n \in Int
      /\ 2 * n <= m + (c - p) /\ m + (c - p) < 2 * n + 2
      /\ desired_position' = desired_position /\ disturbances' = disturbances
      /\ InSight' /\ MeanIsEarned' /\ TargetInReach'
  BY SampleEarned
<1>2. /\ p \in Int /\ c \in BOTTOM .. TOP /\ c \in Int /\ m \in Int
      /\ p - c <= REACH /\ c - p <= REACH /\ desired_position \in Int /\ disturbances \in Nat
  BY Quantities, Ranges
<1>3. BOTTOM - 1 <= c + 2 * m /\ c + 2 * m <= TOP
  BY DEF Followed, WInv, MeanIsEarned
<1>4. Margin' = p + n
  BY <1>1 DEF Margin
<1>5. m > DELTA_THRESHOLD \/ m < -DELTA_THRESHOLD
  BY DEF IsMoving
<1>6. CASE n < 0 /\ c < desired_position
  <2> HIDE DEF p, n, c, m
  <2>1. p + n >= BOTTOM + DELTA_THRESHOLD
    BY <1>1, <1>2, <1>3, <1>5, <1>6, Ranges
  <2>2. p < desired_position + REACH
    BY <1>2, <1>6, Ranges
  <2>3. p + n + disturbances >= BOTTOM + DELTA_THRESHOLD
        /\ p + n + disturbances + 1 >= BOTTOM + DELTA_THRESHOLD
    BY <1>1, <1>2, <2>1, Ranges
  <2> QED BY <1>1, <1>4, <1>6, <2>2, <2>3, Ranges DEF WatchedUp, WInv
<1>7. CASE n > 0 /\ c > desired_position
  <2> HIDE DEF p, n, c, m
  <2>1. p + n + DELTA_THRESHOLD < TOP
    BY <1>1, <1>2, <1>3, <1>5, <1>7, Ranges
  <2>2. p > desired_position - REACH
    BY <1>2, <1>7, Ranges
  <2> QED BY <1>1, <1>4, <1>7, <2>1, <2>2, Ranges DEF WatchedDown, WInv
<1> QED BY <1>6, <1>7 DEF TowardsTarget

\* A monitored door that is not at its target and not found going back.
LEMMA WatchGoesOn ==
    ASSUME NEW d \in STEPS, Followed(d), Sample(d, door_position'), Settle("MONITOR"),
           current_state = "MONITOR", desired_state = "MONITOR",
           ~AtTarget, ~AwayFromTarget(NewMean(PositionAfter(d)))
    PROVE  WInv'
<1> DEFINE p == PositionAfter(d)
           n == NewMean(p)
           c == current_position
           m == mean_position_delta
<1>1. /\ current_position' = p /\ door_position' = p /\ mean_position_delta' = n /\ n \in Int
      /\ 2 * n <= m + (c - p) /\ m + (c - p) < 2 * n + 2
      /\ desired_position' = desired_position /\ disturbances' = disturbances
      /\ SinceSample' = 0
      /\ InSight' /\ MeanIsEarned' /\ TargetInReach'
  BY SampleEarned
<1>2. /\ p \in Int /\ c \in Int /\ m \in Int /\ desired_position \in Int /\ disturbances \in Nat
      /\ p - c <= REACH /\ c - p <= REACH
  BY Quantities, Ranges
<1>3. door_motion' = MotionAfter(d) /\ MotionAfter(d) \in {-1, 0, 1}
  BY Unpressed, DoorMoves DEF Followed
<1>4. Margin = c + m /\ Margin' = p + n
  BY <1>1 DEF Margin
<1>5. c <= desired_position - DOOR_THRESHOLD \/ c >= desired_position + DOOR_THRESHOLD
  BY <1>2, Ranges DEF AtTarget
<1>6. REACH \in Nat /\ DOOR_THRESHOLD \in Nat /\ 2 * REACH < DOOR_THRESHOLD
  BY Ranges, SlowAssumption
<1>7. CASE WatchedUp
  <2>1. m <= 0 /\ c < desired_position + REACH
        /\ c + m + disturbances + 1 >= BOTTOM + DELTA_THRESHOLD
    BY <1>4, <1>7 DEF WatchedUp
  <2>2. c < desired_position
    BY <1>2, <1>5, <1>6, <2>1
  <2>3. n <= 0
    BY <1>1, <2>2 DEF AwayFromTarget
  <2>4. CASE c + m + disturbances >= BOTTOM + DELTA_THRESHOLD
    <3> HIDE DEF p, n, c, m
    <3>1. p + n + disturbances + 1 >= BOTTOM + DELTA_THRESHOLD
      BY <1>1, <1>2, <2>3, <2>4, Ranges
    <3>2. p < desired_position + REACH
      BY <1>2, <1>6, <2>2
    <3>3. n < 0 => p + n + disturbances >= BOTTOM + DELTA_THRESHOLD
      BY <1>1, <1>2, <2>4, Ranges
    <3>4. n = 0 => WillBeSeen'
      <4>1. SPEED * 0 = 0 /\ p - p = 0 /\ p >= p /\ 0 >= 0
        BY <1>2, Ranges
      <4>2. CASE MotionAfter(d) >= 0
        BY <1>1, <1>3, <4>1, <4>2 DEF WillBeSeen
      <4>3. CASE MotionAfter(d) = -1
        BY <1>1, <1>3, <4>1, <4>3 DEF WillBeSeen
      <4> QED BY <1>3, <4>2, <4>3
    <3>5. n < 0 \/ n = 0
      BY <1>1, <2>3
    <3> QED BY <1>1, <1>4, <2>3, <3>1, <3>2, <3>3, <3>4, <3>5 DEF WatchedUp, WInv
  <2>5. CASE WillBeSeen
    <3>1. p >= c /\ MotionAfter(d) >= 0
      <4>1. \/ p >= c /\ MotionAfter(d) >= 0
            \/ m = 0 /\ c - p >= 2
        BY <1>7, <2>5, SeenGoing
      <4> HIDE DEF p, n, c, m
      <4> QED BY <1>1, <1>2, <2>3, <4>1
    <3>2. WillBeSeen'
      BY <1>1, <1>2, <1>3, <3>1 DEF WillBeSeen
    <3> HIDE DEF p, n, c, m
    <3>3. p + n >= c + m
      BY <1>1, <1>2, <2>1, <2>3, <3>1
    <3>4. p + n + disturbances + 1 >= BOTTOM + DELTA_THRESHOLD
      BY <1>1, <1>2, <2>1, <3>3, Ranges
    <3>5. p < desired_position + REACH
      BY <1>2, <1>6, <2>2
    <3> QED BY <1>1, <1>4, <2>3, <3>2, <3>4, <3>5 DEF WatchedUp, WInv
  <2> QED BY <1>4, <1>7, <2>4, <2>5 DEF WatchedUp
<1>8. CASE WatchedDown
  <2>1. m >= 0 /\ c > desired_position - REACH /\ c + m + DELTA_THRESHOLD < TOP
    BY <1>4, <1>8 DEF WatchedDown
  <2>2. c > desired_position
    BY <1>2, <1>5, <1>6, <2>1
  <2>3. n >= 0
    BY <1>1, <2>2 DEF AwayFromTarget
  <2> HIDE DEF p, n, c, m
  <2>4. p + n + DELTA_THRESHOLD < TOP
    BY <1>1, <1>2, <2>1, <2>3, Ranges
  <2>5. p > desired_position - REACH
    BY <1>2, <1>6, <2>2
  <2> QED BY <1>1, <1>4, <2>3, <2>4, <2>5 DEF WatchedDown, WInv
<1> QED BY <1>7, <1>8 DEF Followed, WInv

\* What a turn of the loop makes of the control: every state it decides on is
\* one the sample settles in, and MONITOR is one of them in two places.
LEMMA WatchTurn ==
    ASSUME NEW d \in STEPS, Followed(d), Execute(d, door_position')
    PROVE  WInv'
<1>1. door_position' = PositionAfter(d) /\ desired_state \in {current_state, "ACTIVE"}
  BY DEF Followed, DoorTurn, OnlyCommandsPend
<1>2. CASE PollOnly(d)
  BY <1>2, WatchPoll
<1>3. CASE StartMoving(d, door_position')
  <2>1. current_state = "START" /\ IsMoving /\ Sample(d, door_position')
    BY <1>3 DEF StartMoving
  <2>2. CASE stablize_count' = 0 /\ TowardsTarget(NewMean(door_position'))
    <3>1. Settle("MONITOR")
      BY <1>3, <2>2 DEF StartMoving
    <3> QED BY <1>1, <2>1, <2>2, <3>1, WatchBegins
  <2>3. CASE stablize_count' = 0 /\ ~TowardsTarget(NewMean(door_position'))
    <3>1. Settle("ACTIVE")
      BY <1>3, <2>3 DEF StartMoving
    <3> QED BY <2>1, <3>1, WatchOther
  <2>4. CASE stablize_count' # 0
    <3>1. Settle(desired_state) /\ desired_state # "MONITOR"
      BY <1>1, <1>3, <2>1, <2>4 DEF StartMoving
    <3> QED BY <2>1, <3>1, WatchOther
  <2> QED BY <2>2, <2>3, <2>4
<1>4. CASE MonitorOn(d, door_position')
  <2>1. current_state = "MONITOR" /\ ~AtTarget /\ ~AwayFromTarget(NewMean(PositionAfter(d)))
        /\ Sample(d, door_position') /\ Settle(desired_state)
    BY <1>1, <1>4 DEF MonitorOn
  <2>2. CASE desired_state = "MONITOR"
    BY <2>1, <2>2, WatchGoesOn
  <2>3. CASE desired_state = "ACTIVE"
    BY <2>1, <2>3, WatchOther
  <2> QED BY <1>1, <2>1, <2>2, <2>3
<1>5. ASSUME NEW state, state # "MONITOR", Sample(d, door_position'), Settle(state)
      PROVE  WInv'
  BY <1>5, WatchOther
<1>6. CASE StartStill(d, door_position')
  <2>1. CASE TimestampElapsed(now', command_time, DOOR_COMMAND_DELAY)
    BY <1>5, <1>6, <2>1 DEF StartStill
  <2>2. CASE ~TimestampElapsed(now', command_time, DOOR_COMMAND_DELAY)
    BY <1>1, <1>5, <1>6, <2>2 DEF StartStill
  <2> QED BY <2>1, <2>2
<1>7. CASE StopStill(d, door_position')
  <2>1. CASE stablize_count' = 0
    BY <1>5, <1>7, <2>1 DEF StopStill
  <2>2. CASE stablize_count' # 0
    BY <1>1, <1>5, <1>7, <2>2 DEF StopStill
  <2> QED BY <2>1, <2>2
<1>8. CASE StopMoving(d, door_position')
  BY <1>1, <1>5, <1>8 DEF StopMoving
<1>9. CASE MonitorReached(d, door_position')
  <2>1. CASE TargetInside
    BY <1>5, <1>9, <2>1 DEF MonitorReached
  <2>2. CASE ~TargetInside
    BY <1>5, <1>9, <2>2 DEF MonitorReached
  <2> QED BY <2>1, <2>2
<1>10. CASE MonitorWrongWay(d, door_position')
  BY <1>5, <1>10 DEF MonitorWrongWay
<1>11. CASE SampleActive(d, door_position')
  <2>1. CASE AtTarget
    BY <1>5, <1>11, <2>1 DEF SampleActive
  <2>2. CASE ~AtTarget
    BY <1>5, <1>11, <2>2 DEF SampleActive
  <2> QED BY <2>1, <2>2
<1>12. CASE SampleIdle(d, door_position')
  BY <1>1, <1>5, <1>12 DEF SampleIdle
<1> QED
  BY <1>2, <1>3, <1>4, <1>6, <1>7, <1>8, <1>9, <1>10, <1>11, <1>12 DEF Execute

LEMMA WatchInit == GInit => WInv
<1> SUFFICES ASSUME GInit PROVE WInv
  OBVIOUS
<1>1. /\ current_state = "DOOR_IDLE" /\ mean_position_delta = 0
      /\ current_position \in BOTTOM .. TOP /\ desired_position = current_position
      /\ position_min = POSITION_MIN /\ position_max = POSITION_MAX
  BY DoorAssumption DEF GInit, Init
<1>2. REACH \in Nat /\ DOOR_THRESHOLD \in Nat /\ 2 * REACH < DOOR_THRESHOLD
      /\ BOTTOM \in Int /\ TOP \in Int
  BY Ranges, SlowAssumption
<1> QED BY <1>1, <1>2 DEF WInv, InSight, MeanIsEarned, TargetInReach

\* A press on the wall costs a position of the margin.
LEMMA WatchPress ==
    ASSUME DoorTyped, TypeOK, WInv, WallButton
    PROVE  WInv'
<1>1. /\ UNCHANGED <<current_state, desired_state>>
      /\ UNCHANGED <<current_position, desired_position, mean_position_delta>>
      /\ UNCHANGED <<position_min, position_max>>
      /\ disturbances' = disturbances + 1
  BY DEF WallButton, vars, control, position, range
<1>2. InSight' /\ MeanIsEarned' /\ TargetInReach' /\ Margin' = Margin
  BY <1>1 DEF WInv, InSight, MeanIsEarned, TargetInReach, Margin
<1>3. /\ disturbances \in Nat /\ mean_position_delta \in Int /\ current_position \in Int
      /\ Margin \in Int
  <2>1. disturbances \in Nat
    BY DoorAssumption DEF DoorTyped
  <2>2. mean_position_delta \in Int
    BY CountsAssumption DEF TypeOK
  <2>3. current_position \in Int
    BY Ranges DEF WInv, InSight
  <2> QED BY <2>1, <2>2, <2>3 DEF Margin
<1>4. WatchedUp => WatchedUp'
  BY <1>1, <1>2, <1>3, Ranges DEF WatchedUp
<1>5. WatchedDown => WatchedDown'
  BY <1>1, <1>2 DEF WatchedDown
<1> QED BY <1>1, <1>2, <1>4, <1>5 DEF WInv

LEMMA WatchCommand ==
    ASSUME WInv, Command
    PROVE  WInv'
<1>1. PICK p \in COMMANDS : SetPosition(p)
  BY DEF Command
<1>2. /\ desired_state' = "ACTIVE"
      /\ UNCHANGED <<current_position, mean_position_delta, position_min, position_max>>
      /\ desired_position' = LinearMap(p, 0, 100, position_min, position_max) % UINT16_MOD
  BY <1>1 DEF SetPosition, range
<1>3. position_min = POSITION_MIN /\ position_max = POSITION_MAX
  BY DEF WInv, TargetInReach
<1>4. desired_position' \in POSITION_MIN .. POSITION_MAX
  BY <1>2, <1>3, TargetType DEF Target
<1>5. /\ BOTTOM - POSITION_MIN < DOOR_THRESHOLD /\ POSITION_MAX - TOP < DOOR_THRESHOLD
  BY CalibratedAssumption DEF Near
<1>6. TargetInReach'
  BY <1>2, <1>3, <1>4, <1>5, Ranges DEF TargetInReach
<1> QED BY <1>2, <1>6 DEF WInv, InSight, MeanIsEarned

LEMMA WatchNext ==
    DoorTyped /\ IInv /\ WInv /\ SeenInTime /\ FewPresses /\ [GNext]_gvars => WInv'
<1> SUFFICES ASSUME DoorTyped, IInv, WInv, SeenInTime, FewPresses, [GNext]_gvars
             PROVE  WInv'
  OBVIOUS
<1>1. TypeOK /\ OnlyCommandsPend
  BY DEF IInv
<1>2. CASE Command
  BY <1>2, WatchCommand
<1>3. CASE WallButton
  BY <1>1, <1>3, WatchPress
<1>4. CASE TurnOfLoop
  <2>1. PICK d \in STEPS : Turn(d)
    BY <1>4 DEF TurnOfLoop
  <2>2. Followed(d) /\ Execute(d, door_position')
    BY <1>1, <2>1 DEF Turn, Followed, DoorTurn
  <2> QED BY <2>2, WatchTurn
<1>5. CASE UNCHANGED gvars
  BY <1>5 DEF gvars, vars, control, position, range, timers, door, WInv, InSight,
     MeanIsEarned, TargetInReach, WatchedUp, WatchedDown, Margin, WillBeSeen, SinceSample
<1> QED BY <1>2, <1>3, <1>4, <1>5 DEF GNext

(***************************************************************************)
(* What the mean and the position of a monitored door still owe each       *)
(* other, however often the user commands and whenever somebody presses    *)
(* the button on the wall, as long as samples come in time and the presses *)
(* are fewer than the positions of the threshold.                          *)
(***************************************************************************)
THEOREM DoorWatched == GSpec /\ [](SeenInTime /\ FewPresses) => []Watched
<1>1. GSpec => []DoorTyped
  BY DoorInit, DoorNext, PTL DEF GSpec
<1>2. GSpec => []IInv
  BY GarageIsControl, Invariance, PTL
<1>3. GSpec /\ [](SeenInTime /\ FewPresses) => []WInv
  BY <1>1, <1>2, WatchInit, WatchNext, PTL DEF GSpec
<1>4. SeenInTime /\ FewPresses /\ WInv => Watched
  BY DEF WInv, Watched
<1> QED BY <1>3, <1>4, PTL

(***************************************************************************)
(* No sample of a monitored door is one of an end it was not sent to: a    *)
(* door that is turned round is let go before.                             *)
(***************************************************************************)
THEOREM WrongEndsNotMonitored ==
    GSpec /\ [](SeenInTime /\ FewPresses) => []WrongEndNotMonitored
<1>1. GTypeOK /\ Watched => WrongEndNotMonitored
  <2> SUFFICES ASSUME GTypeOK, Watched, current_state = "MONITOR", desired_state = "MONITOR",
                      current_position \in {BOTTOM, TOP}
               PROVE  Near(current_position, desired_position)
    BY DEF WrongEndNotMonitored
  <2>1. /\ current_position \in Int /\ desired_position \in Int /\ mean_position_delta \in Int
        /\ disturbances \in Nat
    BY Ranges, CountsAssumption, DoorAssumption DEF GTypeOK, TypeOK, Watched, InSight
  <2>2. /\ REACH \in Nat /\ 2 * REACH < DOOR_THRESHOLD /\ DOOR_THRESHOLD \in Nat
        /\ DELTA_THRESHOLD \in Nat /\ BOTTOM \in Int /\ TOP \in Int
    BY Ranges, SlowAssumption
  <2>3. /\ BOTTOM - DOOR_THRESHOLD < desired_position /\ desired_position < TOP + DOOR_THRESHOLD
        /\ disturbances + 2 < DELTA_THRESHOLD
    BY DEF Watched, TargetInReach, FewPresses
  <2>4. CASE WatchedUp
    <3>1. /\ mean_position_delta <= 0 /\ current_position < desired_position + REACH
          /\ current_position + mean_position_delta + disturbances + 1
                >= BOTTOM + DELTA_THRESHOLD
      BY <2>4 DEF WatchedUp, Margin
    <3>2. current_position = TOP
      BY <2>1, <2>2, <2>3, <3>1
    <3> QED BY <2>1, <2>2, <2>3, <3>1, <3>2 DEF Near
  <2>5. CASE WatchedDown
    <3>1. /\ mean_position_delta >= 0 /\ current_position > desired_position - REACH
          /\ current_position + mean_position_delta + DELTA_THRESHOLD < TOP
      BY <2>5 DEF WatchedDown, Margin
    <3>2. current_position = BOTTOM
      BY <2>1, <2>2, <3>1
    <3> QED BY <2>1, <2>2, <2>3, <3>1, <3>2 DEF Near
  <2> QED BY <2>4, <2>5 DEF Watched
<1> QED BY <1>1, DoorWatched, GarageTyped, PTL
=============================================================================
