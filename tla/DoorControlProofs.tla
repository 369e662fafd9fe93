-------------------------- MODULE DoorControlProofs --------------------------
(***************************************************************************)
(* The control keeps its types and its invariants for every clock width,   *)
(* every delay, threshold and width of the fields, every door and every    *)
(* sequence of commands and readings.                                      *)
(***************************************************************************)
EXTENDS DoorControl, TLAPS

\* The clock stays on its face.
LEMMA UAddType == ASSUME NEW a \in Nat, NEW b \in Nat PROVE UAdd(a, b) \in Time
  BY TimeAssumption DEF UAdd, Time, MAX_TIME

\* A signed integer of mod values holds what is stored in it.
LEMMA SignedType ==
    ASSUME NEW x \in Int, NEW mod \in Nat, mod > 1, mod % 2 = 0
    PROVE  Signed(x, mod) \in -(mod \div 2) .. mod \div 2 - 1
<1> DEFINE h == mod \div 2
<1>1. h \in Nat /\ mod = h + h
  OBVIOUS
<1>2. (x + h) % mod \in 0 .. mod - 1
  BY <1>1
<1> QED
  BY <1>1, <1>2 DEF Signed

\* The position a command asks for.
LEMMA LinearMapType ==
    ASSUME NEW p \in Int, NEW lo \in Int, NEW hi \in Int
    PROVE  LinearMap(p, 0, 100, lo, hi) \in Int
<1> DEFINE n == (p - 0) * (hi - lo)
<1>1. n \in Int
  OBVIOUS
<1>2. Magnitude(n) \div 100 \in Int /\ Magnitude(100 - 0) = 100
  BY <1>1 DEF Magnitude
<1> HIDE DEF n
<1>3. CDiv(n, 100 - 0) \in Int
  BY <1>2 DEF CDiv
<1> QED
  BY <1>3 DEF LinearMap, n
-----------------------------------------------------------------------------
(***************************************************************************)
(* The inductive invariant.  Its parts hang together: VerdictOfLastCommand *)
(* needs OnlyCommandsPend, because a pending state other than ACTIVE would *)
(* be a decision that has already given its verdict.                       *)
(***************************************************************************)
IInv ==
    /\ TypeOK
    /\ OnlyCommandsPend
    /\ MonitorAfterCount
    /\ VerdictOfLastCommand

\* The initial state satisfies the invariant.
LEMMA InitInv == Init => IInv
<1> SUFFICES ASSUME Init PROVE IInv
  OBVIOUS
<1>1. TypeOK
  BY TimeAssumption, CountsAssumption, RangeAssumption, InputsAssumption
     DEF Init, TypeOK, DoorState, DoorResult, Time, MAX_TIME
<1> QED
  BY <1>1 DEF IInv, Init, OnlyCommandsPend, MonitorAfterCount, VerdictOfLastCommand

\* What a sample does to the fields it always touches.
LEMMA SampleType ==
    ASSUME TypeOK, NEW d \in STEPS, NEW adc \in ADC, Sample(d, adc)
    PROVE  /\ now' \in Time
           /\ time_stamp' \in Time
           /\ mean_position_delta' \in -(DELTA_MOD \div 2) .. DELTA_MOD \div 2 - 1
           /\ current_position' \in 0 .. UINT16_MOD - 1
           /\ desired_position' \in 0 .. UINT16_MOD - 1
           /\ position_min' \in -(UINT16_MOD \div 2) .. UINT16_MOD \div 2 - 1
           /\ position_max' \in -(UINT16_MOD \div 2) .. UINT16_MOD \div 2 - 1
<1>1. now' \in Time
  <2>1. now \in Nat /\ d \in Nat
    BY InputsAssumption DEF TypeOK, Time
  <2> QED
    BY <2>1, UAddType DEF Sample
<1>2. time_stamp' \in Time
  <2>1. now' \in Nat /\ DOOR_SAMPLE_RATE \in Nat
    BY <1>1, DelaysAssumption DEF Time
  <2> QED
    BY <2>1, UAddType DEF Sample
<1>3. mean_position_delta' \in -(DELTA_MOD \div 2) .. DELTA_MOD \div 2 - 1
  <2> DEFINE diff == Signed(current_position - adc, UINT16_MOD)
  <2>1. current_position - adc \in Int
    BY RangeAssumption DEF TypeOK
  <2>2. diff \in -(UINT16_MOD \div 2) .. UINT16_MOD \div 2 - 1
    BY <2>1, CountsAssumption, SignedType
  <2>3. diff \in Int /\ mean_position_delta \in Int
    BY <2>2, CountsAssumption DEF TypeOK
  <2> HIDE DEF diff
  <2>4. (mean_position_delta + diff) \div 2 \in Int
    BY <2>3
  <2>5. Signed((mean_position_delta + diff) \div 2, DELTA_MOD)
          \in -(DELTA_MOD \div 2) .. DELTA_MOD \div 2 - 1
    BY <2>4, CountsAssumption, SignedType
  <2> QED
    BY <2>5 DEF Sample, NewMean, diff
<1> QED
  BY <1>1, <1>2, <1>3, RangeAssumption DEF Sample, TypeOK, range

\* What the end of a sample does to the states, the relay and its timers.
LEMMA SettleType ==
    ASSUME TypeOK, now' \in Time, NEW state \in DoorState, Settle(state)
    PROVE  /\ current_state' = state
           /\ desired_state' = state
           /\ relay_output' \in 0 .. 1
           /\ command_time' \in Time
           /\ relay_time' \in Time
<1>1. now' \in Nat /\ RELAY_DELAY \in Nat /\ DOOR_COMMAND_DELAY \in Nat
  BY DelaysAssumption DEF Time
<1>2. CASE state # current_state /\ state \in {"START", "STOP"}
  <2>1. UAdd(now', DOOR_COMMAND_DELAY) \in Time /\ UAdd(now', RELAY_DELAY) \in Time
    BY <1>1, UAddType
  <2> QED
    BY <1>2, <2>1 DEF Settle
<1>3. CASE ~(state # current_state /\ state \in {"START", "STOP"})
  BY <1>3 DEF Settle, RelayAfterRelease, TypeOK
<1> QED
  BY <1>2, <1>3

\* The types are kept by a sample that ends in a state and leaves a result
\* and a count of their types.
LEMMA SampleKeepsTypes ==
    ASSUME TypeOK, NEW d \in STEPS, NEW adc \in ADC, NEW state \in DoorState,
           Sample(d, adc), Settle(state),
           result' \in DoorResult, stablize_count' \in 0 .. COUNT_MOD - 1
    PROVE  TypeOK' /\ current_state' = state /\ desired_state' = state
  BY SampleType, SettleType DEF TypeOK

\* uint8_t wraps to its own range.
LEMMA DecrementedType == TypeOK => Decremented \in 0 .. COUNT_MOD - 1
  BY CountsAssumption DEF TypeOK, Decremented

\* A command.
LEMMA SetPositionInv ==
    ASSUME IInv, NEW p \in COMMANDS, SetPosition(p)
    PROVE  IInv'
<1>1. LinearMap(p, 0, 100, position_min, position_max) \in Int
  <2>1. p \in Int /\ position_min \in Int /\ position_max \in Int
    BY InputsAssumption, CountsAssumption DEF IInv, TypeOK
  <2> QED
    BY <2>1, LinearMapType
<1>2. desired_position' \in 0 .. UINT16_MOD - 1
  BY <1>1, CountsAssumption DEF SetPosition
<1>3. TypeOK'
  BY <1>2 DEF IInv, SetPosition, TypeOK, DoorState, DoorResult, timers, range
<1> QED
  BY <1>3 DEF IInv, SetPosition, OnlyCommandsPend, MonitorAfterCount,
              VerdictOfLastCommand, timers

\* A calibration changes nothing but one end of the range.
LEMMA CalibrateInv ==
    ASSUME IInv, CalibrateMinPosition \/ CalibrateMaxPosition
    PROVE  IInv'
<1> DEFINE S == -(UINT16_MOD \div 2) .. UINT16_MOD \div 2 - 1
<1>1. /\ current_position + DOOR_THRESHOLD \in Int
      /\ current_position - DOOR_THRESHOLD \in Int
  BY CountsAssumption DEF IInv, TypeOK
<1>2. /\ Signed(current_position + DOOR_THRESHOLD, UINT16_MOD) \in S
      /\ Signed(current_position - DOOR_THRESHOLD, UINT16_MOD) \in S
  BY <1>1, CountsAssumption, SignedType
<1>3. TypeOK'
  BY <1>2 DEF IInv, TypeOK, CalibrateMinPosition, CalibrateMaxPosition, control,
              position, timers
<1> QED
  BY <1>3 DEF IInv, CalibrateMinPosition, CalibrateMaxPosition, OnlyCommandsPend,
              MonitorAfterCount, VerdictOfLastCommand, control, timers

\* A turn of the loop before the sampling deadline.
LEMMA PollOnlyInv ==
    ASSUME IInv, NEW d \in STEPS, PollOnly(d)
    PROVE  IInv'
<1>1. now' \in Time
  BY UAddType, InputsAssumption DEF IInv, TypeOK, Time, PollOnly
<1>2. TypeOK'
  BY <1>1 DEF IInv, TypeOK, PollOnly, RelayAfterRelease, control, position, range, timers
<1> QED
  BY <1>2 DEF IInv, PollOnly, RelayAfterRelease, OnlyCommandsPend, MonitorAfterCount,
              VerdictOfLastCommand, control, timers

\* A sample in START.
LEMMA StartInv ==
    ASSUME IInv, NEW d \in STEPS, NEW adc \in ADC, StartMoving(d, adc) \/ StartStill(d, adc)
    PROVE  IInv'
<1>1. CASE StartMoving(d, adc)
  <2> DEFINE state == IF stablize_count' # 0 THEN desired_state
                      ELSE IF TowardsTarget(NewMean(adc)) THEN "MONITOR" ELSE "ACTIVE"
  <2>1. state \in DoorState /\ result' \in DoorResult
    BY <1>1 DEF IInv, TypeOK, DoorState, StartMoving
  <2>2. stablize_count' \in 0 .. COUNT_MOD - 1
    BY <1>1, DecrementedType DEF IInv, StartMoving
  <2>3. TypeOK' /\ current_state' = state /\ desired_state' = state
    BY <1>1, <2>1, <2>2, SampleKeepsTypes DEF IInv, StartMoving
  <2>4. state = "MONITOR" => stablize_count' = 0
    BY <1>1 DEF IInv, OnlyCommandsPend, StartMoving
  <2>5. result # "FAIL" /\ result' = result
    BY <1>1 DEF IInv, VerdictOfLastCommand, StartMoving
  <2> QED
    BY <2>3, <2>4, <2>5 DEF IInv, OnlyCommandsPend, MonitorAfterCount, VerdictOfLastCommand
<1>2. CASE StartStill(d, adc)
  <2> DEFINE state == IF TimestampElapsed(now', command_time, DOOR_COMMAND_DELAY)
                      THEN "ACTIVE" ELSE desired_state
  <2>1. state \in DoorState /\ result' \in DoorResult
    BY <1>2 DEF IInv, TypeOK, DoorState, StartStill
  <2>2. stablize_count' \in 0 .. COUNT_MOD - 1
    BY <1>2, CountsAssumption DEF StartStill
  <2>3. TypeOK' /\ current_state' = state /\ desired_state' = state
    BY <1>2, <2>1, <2>2, SampleKeepsTypes DEF IInv, StartStill
  <2>4. state # "MONITOR"
    BY <1>2 DEF IInv, OnlyCommandsPend, StartStill
  <2>5. result # "FAIL" /\ result' = result
    BY <1>2 DEF IInv, VerdictOfLastCommand, StartStill
  <2> QED
    BY <2>3, <2>4, <2>5 DEF IInv, OnlyCommandsPend, MonitorAfterCount, VerdictOfLastCommand
<1> QED
  BY <1>1, <1>2

\* A sample in STOP.
LEMMA StopInv ==
    ASSUME IInv, NEW d \in STEPS, NEW adc \in ADC, StopStill(d, adc) \/ StopMoving(d, adc)
    PROVE  IInv'
<1> DEFINE still == IF stablize_count' = 0 THEN "ACTIVE" ELSE desired_state
<1>1. /\ still \in DoorState \ {"MONITOR"}
      /\ desired_state \in DoorState \ {"MONITOR"}
  BY DEF IInv, TypeOK, OnlyCommandsPend, DoorState, StopStill, StopMoving
<1>2. result' = result /\ result \in DoorResult \ {"FAIL"}
  BY DEF IInv, TypeOK, VerdictOfLastCommand, StopStill, StopMoving
<1>3. stablize_count' \in 0 .. COUNT_MOD - 1
  BY DecrementedType, CountsAssumption DEF IInv, StopStill, StopMoving
<1>4. CASE StopStill(d, adc)
  <2>1. TypeOK' /\ current_state' = still /\ desired_state' = still
    BY <1>1, <1>2, <1>3, <1>4, SampleKeepsTypes DEF IInv, StopStill
  <2> QED
    BY <1>1, <1>2, <2>1 DEF IInv, OnlyCommandsPend, MonitorAfterCount, VerdictOfLastCommand
<1>5. CASE StopMoving(d, adc)
  <2>1. TypeOK' /\ current_state' = desired_state /\ desired_state' = desired_state
    BY <1>1, <1>2, <1>3, <1>5, SampleKeepsTypes DEF IInv, StopMoving
  <2> QED
    BY <1>1, <1>2, <2>1 DEF IInv, OnlyCommandsPend, MonitorAfterCount, VerdictOfLastCommand
<1> QED
  BY <1>4, <1>5

\* A sample in MONITOR: the count stays at 0, a verdict lets go or stops.
LEMMA MonitorInv ==
    ASSUME IInv, NEW d \in STEPS, NEW adc \in ADC,
           MonitorReached(d, adc) \/ MonitorWrongWay(d, adc) \/ MonitorOn(d, adc)
    PROVE  IInv'
<1>1. /\ stablize_count' = 0
      /\ stablize_count' \in 0 .. COUNT_MOD - 1
      /\ desired_state \in {"MONITOR", "ACTIVE"}
      /\ result \in DoorResult \ {"FAIL"}
  BY DEF IInv, TypeOK, OnlyCommandsPend, MonitorAfterCount, VerdictOfLastCommand,
         MonitorReached, MonitorWrongWay, MonitorOn
<1>2. CASE MonitorReached(d, adc)
  <2> DEFINE state == IF TargetInside THEN "STOP" ELSE "DOOR_IDLE"
  <2>1. state \in DoorState /\ result' = "SUCCESS" /\ result' \in DoorResult
    BY <1>2 DEF DoorState, DoorResult, MonitorReached
  <2>2. TypeOK' /\ current_state' = state /\ desired_state' = state
    BY <1>1, <1>2, <2>1, SampleKeepsTypes DEF IInv, MonitorReached
  <2> QED
    BY <1>1, <2>1, <2>2 DEF IInv, OnlyCommandsPend, MonitorAfterCount, VerdictOfLastCommand
<1>3. CASE MonitorWrongWay(d, adc)
  <2>1. "DOOR_IDLE" \in DoorState /\ result' \in DoorResult
    BY <1>3 DEF DoorState, DoorResult, MonitorWrongWay
  <2>2. /\ TypeOK'
        /\ current_state' = "DOOR_IDLE" /\ desired_state' = "DOOR_IDLE"
    BY <1>1, <1>3, <2>1, SampleKeepsTypes DEF IInv, MonitorWrongWay
  <2> QED
    BY <2>2 DEF IInv, OnlyCommandsPend, MonitorAfterCount, VerdictOfLastCommand
<1>4. CASE MonitorOn(d, adc)
  <2>1. desired_state \in DoorState /\ result' = result
    BY <1>1, <1>4 DEF DoorState, MonitorOn
  <2>2. TypeOK' /\ current_state' = desired_state /\ desired_state' = desired_state
    BY <1>1, <1>4, <2>1, SampleKeepsTypes DEF IInv, MonitorOn
  <2> QED
    BY <1>1, <2>1, <2>2 DEF IInv, OnlyCommandsPend, MonitorAfterCount, VerdictOfLastCommand
<1> QED
  BY <1>2, <1>3, <1>4

\* A sample in ACTIVE or in DOOR_IDLE.
LEMMA RestInv ==
    ASSUME IInv, NEW d \in STEPS, NEW adc \in ADC,
           SampleActive(d, adc) \/ SampleIdle(d, adc)
    PROVE  IInv'
<1>1. /\ result' = result /\ result \in DoorResult
      /\ stablize_count' \in 0 .. COUNT_MOD - 1
  BY DEF IInv, TypeOK, SampleActive, SampleIdle
<1>2. CASE SampleActive(d, adc)
  <2> DEFINE state == IF AtTarget THEN "DOOR_IDLE" ELSE "START"
  <2>1. state \in DoorState \ {"MONITOR"} /\ result # "FAIL"
    BY <1>2 DEF DoorState, IInv, VerdictOfLastCommand, SampleActive
  <2>2. TypeOK' /\ current_state' = state /\ desired_state' = state
    BY <1>1, <1>2, <2>1, SampleKeepsTypes DEF IInv, SampleActive
  <2> QED
    BY <1>1, <2>1, <2>2 DEF IInv, OnlyCommandsPend, MonitorAfterCount, VerdictOfLastCommand
<1>3. CASE SampleIdle(d, adc)
  <2>1. desired_state \in {"DOOR_IDLE", "ACTIVE"} /\ desired_state \in DoorState
    BY <1>3 DEF DoorState, IInv, OnlyCommandsPend, SampleIdle
  <2>2. TypeOK' /\ current_state' = desired_state /\ desired_state' = desired_state
    BY <1>1, <1>3, <2>1, SampleKeepsTypes DEF IInv, SampleIdle
  <2> QED
    BY <1>1, <1>3, <2>1, <2>2 DEF IInv, OnlyCommandsPend, MonitorAfterCount,
                                   VerdictOfLastCommand, SampleIdle
<1> QED
  BY <1>2, <1>3

\* Every step keeps the invariant.
LEMMA NextInv == IInv /\ [Next]_vars => IInv'
<1> SUFFICES ASSUME IInv, [Next]_vars PROVE IInv'
  OBVIOUS
<1>1. ASSUME NEW p \in COMMANDS, SetPosition(p) PROVE IInv'
  BY <1>1, SetPositionInv
<1>2. CASE CalibrateMinPosition \/ CalibrateMaxPosition
  BY <1>2, CalibrateInv
<1>3. ASSUME NEW d \in STEPS, NEW adc \in ADC, Execute(d, adc) PROVE IInv'
  BY <1>3, PollOnlyInv, StartInv, StopInv, MonitorInv, RestInv DEF Execute
<1>4. CASE UNCHANGED vars
  BY <1>4 DEF vars, control, position, range, timers, IInv, TypeOK, OnlyCommandsPend,
              MonitorAfterCount, VerdictOfLastCommand
<1> QED
  BY <1>1, <1>2, <1>3, <1>4 DEF Next

\* The invariant holds in every reachable state.
THEOREM Invariance == Spec => []IInv
  BY InitInv, NextInv, PTL DEF Spec

(***************************************************************************)
(* No field of the struct ever leaves its C type, although the count and   *)
(* the mean wrap.                                                          *)
(***************************************************************************)
THEOREM TypeCorrect == Spec => []TypeOK
<1>1. IInv => TypeOK
  BY DEF IInv
<1> QED
  BY <1>1, Invariance, PTL

(***************************************************************************)
(* A state is entered only by the step that acts for it; only commands     *)
(* pend.                                                                   *)
(***************************************************************************)
THEOREM CommandsPend == Spec => []OnlyCommandsPend
<1>1. IInv => OnlyCommandsPend
  BY DEF IInv
<1> QED
  BY <1>1, Invariance, PTL

(***************************************************************************)
(* The door is monitored only after a completed count of moving samples.   *)
(***************************************************************************)
THEOREM MonitorCounted == Spec => []MonitorAfterCount
<1>1. IInv => MonitorAfterCount
  BY DEF IInv
<1> QED
  BY <1>1, Invariance, PTL

(***************************************************************************)
(* No verdict of an earlier command is reported for a later one, and FAIL  *)
(* is reported only by a control that has let go of the door.              *)
(***************************************************************************)
THEOREM VerdictsAreFresh == Spec => []VerdictOfLastCommand
<1>1. IInv => VerdictOfLastCommand
  BY DEF IInv
<1> QED
  BY <1>1, Invariance, PTL

\* A quotient of what lies between 0 and 100 times the divisor.
LEMMA Percentage ==
    ASSUME NEW n \in Nat, NEW r \in Nat \ {0}, n <= 100 * r
    PROVE  n \div r \in 0 .. 100
<1> DEFINE q == n \div r
<1>1. q \in Nat /\ r * q <= n
  OBVIOUS
<1> HIDE DEF q
<1>2. ASSUME q > 100 PROVE FALSE
  <2>1. q - 101 \in Nat /\ r * (q - 101) \in Nat
    BY <1>1, <1>2
  <2>2. r * q = r * (q - 101) + 101 * r
    BY <1>1
  <2> QED BY <1>1, <2>1, <2>2
<1>3. q \in 0 .. 100
  BY <1>1, <1>2
<1> QED BY <1>3 DEF q

\* A quotient of at least 101 times the divisor, in the uint8_t of the report.
LEMMA AbovePercentage ==
    ASSUME NEW n \in Nat, NEW r \in Nat \ {0}, 101 * r <= n, n <= 200 * r
    PROVE  n \div r \in 101 .. 200
<1> DEFINE q == n \div r
<1>1. q \in Nat /\ r * q <= n /\ n < r * q + r
  OBVIOUS
<1> HIDE DEF q
<1>2. ASSUME q < 101 PROVE FALSE
  <2>1. 100 - q \in Nat /\ r * (100 - q) \in Nat
    BY <1>1, <1>2
  <2>2. r * q + r * (100 - q) = 100 * r
    BY <1>1
  <2> QED BY <1>1, <2>1, <2>2
<1>3. ASSUME q > 200 PROVE FALSE
  <2>1. q - 201 \in Nat /\ r * (q - 201) \in Nat
    BY <1>1, <1>3
  <2>2. r * q = r * (q - 201) + 201 * r
    BY <1>1
  <2> QED BY <1>1, <2>1, <2>2
<1>4. q \in 101 .. 200
  BY <1>1, <1>2, <1>3
<1> QED BY <1>4 DEF q

\* A quotient of a negative number by C's division, at most one range below.
LEMMA BelowPercentage ==
    ASSUME NEW n \in Int, NEW r \in Nat \ {0}, n < 0, -r * 100 <= n
    PROVE  /\ -r < n => CDiv(n, r) = 0
           /\ n <= -r => CDiv(n, r) \in -100 .. -1
<1> DEFINE q == (-n) \div r
<1>1. CDiv(n, r) = -q
  BY DEF CDiv, Magnitude
<1>2. -n \in Nat /\ -n <= 100 * r
  OBVIOUS
<1>3. q \in 0 .. 100
  BY <1>2, Percentage
<1>4. -r < n => q = 0
  BY <1>2
<1>5. n <= -r => q # 0
  BY <1>2
<1> HIDE DEF q
<1> QED BY <1>1, <1>3, <1>4, <1>5

\* The map of a range on a percentage, of a value at most a range outside it.
LEMMA LinearMapPercentage ==
    ASSUME NEW p \in Int, NEW lo \in Int, NEW hi \in Int, lo < hi,
           -(hi - lo) * 100 <= (p - lo) * 100, (p - lo) * 100 <= 2 * (hi - lo) * 100
    PROVE  LET r == hi - lo
               n == (p - lo) * 100
               m == LinearMap(p, lo, hi, 0, 100)
           IN  /\ -r < n /\ n <= 100 * r => m \in 0 .. 100
               /\ 100 * r < n /\ n < 101 * r => m = 100
               /\ 101 * r <= n => m \in 101 .. 200
               /\ n <= -r => m \in -100 .. -1
<1> DEFINE n == (p - lo) * (100 - 0)
           r == hi - lo
<1>1. /\ n \in Int /\ r \in Nat \ {0} /\ -r * 100 <= n /\ n <= 200 * r
      /\ n = (p - lo) * 100
  OBVIOUS
<1>2. LinearMap(p, lo, hi, 0, 100) = CDiv(n, r) + 0
  BY DEF LinearMap
<1> HIDE DEF n, r
<1>3. CASE n >= 0
  <2>1. CDiv(n, r) = n \div r
    BY <1>1, <1>3 DEF CDiv, Magnitude
  <2>2. n <= 100 * r => n \div r \in 0 .. 100
    BY <1>1, <1>3, Percentage
  <2>3. 101 * r <= n => n \div r \in 101 .. 200
    BY <1>1, <1>3, AbovePercentage
  <2>4. 100 * r < n /\ n < 101 * r => n \div r = 100
    BY <1>1, <1>3
  <2>5. /\ n <= 100 * r => CDiv(n, r) + 0 \in 0 .. 100
        /\ 101 * r <= n => CDiv(n, r) + 0 \in 101 .. 200
        /\ 100 * r < n /\ n < 101 * r => CDiv(n, r) + 0 = 100
    BY <2>1, <2>2, <2>3, <2>4
  <2>6. ~(n <= -r)
    BY <1>1, <1>3
  <2> QED BY <1>1, <1>2, <2>5, <2>6 DEF r
<1>4. CASE n < 0
  <2>1. /\ -r < n => CDiv(n, r) = 0
        /\ n <= -r => CDiv(n, r) \in -100 .. -1
    BY <1>1, <1>4, BelowPercentage
  <2>2. ~(100 * r < n) /\ ~(101 * r <= n)
    BY <1>1, <1>4
  <2>3. /\ -r < n => CDiv(n, r) + 0 \in 0 .. 100
        /\ n <= -r => CDiv(n, r) + 0 \in -100 .. -1
    BY <2>1
  <2> QED BY <1>1, <1>2, <2>2, <2>3 DEF r
<1> QED BY <1>1, <1>3, <1>4

(***************************************************************************)
(* Whatever was calibrated, the byte reported of a position no further     *)
(* than a range outside the range is a percentage exactly if the position  *)
(* is less than one percent of the range outside it.                       *)
(***************************************************************************)
THEOREM ReportsInScale == Spec => []ReportInScale
<1>1. TypeOK => ReportInScale
  <2> DEFINE r == position_max - position_min
             n == (current_position - position_min) * 100
             m == LinearMap(current_position, position_min, position_max, 0, 100)
  <2> SUFFICES ASSUME TypeOK, r > 0, -r * 100 <= n, n <= 2 * r * 100
               PROVE  m % 256 \in 0 .. 100 <=> -r < n /\ n < 101 * r
    BY DEF ReportInScale, ReportedPosition
  <2>1. current_position \in Int /\ position_min \in Int /\ position_max \in Int
    BY CountsAssumption DEF TypeOK
  <2>2. position_min < position_max /\ r \in Int /\ n \in Int
    BY <2>1
  <2>3. /\ -r < n /\ n <= 100 * r => m \in 0 .. 100
        /\ 100 * r < n /\ n < 101 * r => m = 100
        /\ 101 * r <= n => m \in 101 .. 200
        /\ n <= -r => m \in -100 .. -1
    BY <2>1, <2>2, LinearMapPercentage
  <2> HIDE DEF r, n, m
  <2>4. /\ m \in 0 .. 100 => m % 256 \in 0 .. 100
        /\ m \in 101 .. 200 => m % 256 \in 101 .. 200
        /\ m \in -100 .. -1 => m % 256 \in 156 .. 255
    OBVIOUS
  <2>5. CASE n <= -r
    BY <2>2, <2>3, <2>4, <2>5
  <2>6. CASE -r < n /\ n < 101 * r
    BY <2>2, <2>3, <2>4, <2>6
  <2>7. CASE 101 * r <= n
    BY <2>2, <2>3, <2>4, <2>7
  <2> QED BY <2>2, <2>5, <2>6, <2>7
<1> QED
  BY <1>1, TypeCorrect, PTL
=============================================================================
