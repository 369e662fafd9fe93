--------------------------- MODULE NtpClientProofs ---------------------------
(***************************************************************************)
(* NtpClient: the alarm guards every request, and how far the clock is     *)
(* behind, for every period, resend time, width of the counters, length of *)
(* the second and moment of boot.                                          *)
(***************************************************************************)
EXTENDS NtpClient, TLAPS

\* The age of a reply is bounded by MAX_TRANSIT.
RepliesFresh == \A reply \in replies : Age(reply) <= MAX_TRANSIT

IInv == TypeOK /\ AlarmGuardsRequest /\ RepliesFresh /\ ClockRight

-----------------------------------------------------------------------------
(* Arithmetic modulo ERA. *)

Instants == 0 .. ERA - 1

LEMMA Era ==
    /\ ERA \in Nat \ {0} /\ WIDTH \in Nat \ {0} /\ SECOND \in Nat \ {0}
    /\ MAX_TRANSIT \in Nat /\ MAX_TRANSIT + SECOND < ERA
<1>1. WIDTH * SECOND \in Nat /\ WIDTH * SECOND # 0
  BY ClockAssumption
<1> QED BY <1>1, ClockAssumption DEF ERA

LEMMA Difference ==
    ASSUME NEW a \in Instants, NEW b \in Instants
    PROVE  (a - b) % ERA \in {a - b, a - b + ERA} /\ (a - b) % ERA \in Instants
BY Era DEF Instants

\* A whole era more or less makes no difference.
LEMMA EraLess ==
    ASSUME NEW x \in Int
    PROVE  (x - ERA) % ERA = x % ERA
<1> DEFINE q == x \div ERA
           r == x % ERA
           q1 == (x - ERA) \div ERA
           r1 == (x - ERA) % ERA
<1>1. q \in Int /\ r \in 0 .. ERA - 1 /\ x = ERA * q + r
  BY Era
<1>2. q1 \in Int /\ r1 \in 0 .. ERA - 1 /\ x - ERA = ERA * q1 + r1
  BY Era
<1> HIDE DEF q, r, q1, r1
<1> DEFINE k == q - 1 - q1
<1>3. k \in Int /\ ERA * k = r1 - r
  <2>1. ERA * k = ERA * q - ERA - ERA * q1
    BY <1>1, <1>2, Era
  <2> QED BY <1>1, <1>2, <2>1, Era
<1> HIDE DEF k
<1>4. ASSUME k >= 1 PROVE FALSE
  <2>1. k - 1 \in Nat
    BY <1>3, <1>4
  <2>2. ERA * (k - 1) \in Nat
    BY <2>1, Era
  <2>3. ERA * k = ERA * (k - 1) + ERA
    BY <1>3, Era
  <2> QED BY <1>1, <1>2, <1>3, <2>2, <2>3, Era
<1>5. ASSUME k <= -1 PROVE FALSE
  <2>1. -k - 1 \in Nat
    BY <1>3, <1>5
  <2>2. ERA * (-k - 1) \in Nat
    BY <2>1, Era
  <2>3. ERA * k = -(ERA * (-k - 1)) - ERA
    BY <1>3, Era
  <2> QED BY <1>1, <1>2, <1>3, <2>2, <2>3, Era
<1>6. r1 = r
  <2>1. k = 0
    BY <1>3, <1>4, <1>5
  <2>2. ERA * k = 0
    BY <2>1, Era
  <2> QED BY <1>1, <1>2, <1>3, <2>2, Era
<1> QED BY <1>6 DEF r, r1

\* The whole seconds of an instant, and what they leave.
LEMMA WholeSeconds ==
    ASSUME NEW t \in Instants
    PROVE  /\ t \div SECOND \in 0 .. WIDTH - 1
           /\ t - (t \div SECOND) * SECOND \in 0 .. SECOND - 1
<1> DEFINE q == t \div SECOND
           r == t % SECOND
<1>1. t \in Nat
  BY Era DEF Instants
<1>2. t < WIDTH * SECOND
  BY Era DEF Instants, ERA
<1>3. q \in Int /\ t = SECOND * q + r /\ r \in 0 .. SECOND - 1 /\ t \in Nat
  BY <1>1, Era
<1> HIDE DEF q, r
<1>4. ASSUME q < 0 PROVE FALSE
  <2>1. -q - 1 \in Nat /\ SECOND * (-q - 1) \in Nat
    BY <1>3, <1>4, Era
  <2>2. SECOND * q = -(SECOND * (-q - 1)) - SECOND
    BY <1>3, Era
  <2> QED BY <1>3, <2>1, <2>2, Era
<1>5. ASSUME q >= WIDTH PROVE FALSE
  <2>1. q - WIDTH \in Nat /\ SECOND * (q - WIDTH) \in Nat
    BY <1>3, <1>5, Era
  <2>2. SECOND * q = SECOND * (q - WIDTH) + WIDTH * SECOND
    BY <1>3, Era
  <2> QED BY <1>2, <1>3, <2>1, <2>2, Era
<1>6. q \in 0 .. WIDTH - 1 /\ t - q * SECOND = r
  <2>1. SECOND * q = q * SECOND
    BY <1>3, Era
  <2> QED BY <1>3, <1>4, <1>5, <2>1, Era
<1> QED BY <1>3, <1>6 DEF q

\* Converting to NTP time and back gives the whole seconds, also when the sum
\* wraps.
LEMMA EpochAcrossEra ==
    ASSUME NEW t \in Instants
    PROVE  EpochOf(WireTime(t)) = t \div SECOND
<1> DEFINE q == t \div SECOND
<1>1. q \in 0 .. WIDTH - 1
  BY WholeSeconds
<1> HIDE DEF q
<1>2. (((q + NTP_DELTA) % WIDTH) - NTP_DELTA) % WIDTH = q
  <2>1. /\ (q + NTP_DELTA) % WIDTH \in {q + NTP_DELTA, q + NTP_DELTA - WIDTH}
        /\ (q + NTP_DELTA) % WIDTH \in 0 .. WIDTH - 1
    BY <1>1, ClockAssumption
  <2> DEFINE w == (q + NTP_DELTA) % WIDTH
  <2> HIDE DEF w
  <2>2. (w - NTP_DELTA) % WIDTH = q
    BY <1>1, <2>1, ClockAssumption DEF w
  <2> QED BY <2>2 DEF w
<1> QED BY <1>2 DEF EpochOf, WireTime, q

\* What the time is ahead of the whole seconds in a reply.
LEMMA LagOfReply ==
    ASSUME NEW t \in Instants, NEW asked \in Instants, (t - asked) % ERA <= MAX_TRANSIT
    PROVE  /\ EpochOf(WireTime(asked)) * SECOND \in Int
           /\ (t - EpochOf(WireTime(asked)) * SECOND) % ERA < MAX_TRANSIT + SECOND
<1> DEFINE e == (asked \div SECOND) * SECOND
           f == asked - e
<1>1. EpochOf(WireTime(asked)) * SECOND = e
  BY EpochAcrossEra
<1>2. f \in 0 .. SECOND - 1 /\ e \in Int
  BY WholeSeconds, Era
<1>3. asked \in Int /\ t \in Int
  BY Era DEF Instants
<1> DEFINE a == (t - asked) % ERA
<1>4. a \in {t - asked, t - asked + ERA} /\ a \in Instants /\ a <= MAX_TRANSIT
  BY Difference
<1> HIDE DEF a, e, f
<1>5. t - e = (t - asked) + f
  BY <1>2, <1>3 DEF f
<1>6. (a + f) % ERA = a + f
  BY <1>2, <1>4, Era DEF Instants
<1>7. (t - e) % ERA = a + f
  <2>1. CASE a = t - asked
    BY <1>5, <1>6, <2>1
  <2>2. CASE a = t - asked + ERA
    <3>1. a + f \in Int
      BY <1>2, <1>4, Era DEF Instants
    <3>2. t - e = (a + f) - ERA
      BY <1>2, <1>3, <1>5, <2>2, Era
    <3> QED BY <1>6, <3>1, <3>2, EraLess
  <2> QED BY <1>4, <2>1, <2>2
<1> QED BY <1>1, <1>2, <1>4, <1>7, Era DEF Instants

\* A unit of time adds one to the age of a stamp that has not reached the bound.
LEMMA AgeOfNext ==
    ASSUME NEW t \in Instants, NEW u \in Instants, u = t + 1 \/ u = t + 1 - ERA,
           NEW asked \in Instants, (t - asked) % ERA < MAX_TRANSIT
    PROVE  (u - asked) % ERA <= MAX_TRANSIT
<1> DEFINE a == (t - asked) % ERA
           b == (u - asked) % ERA
<1>1. a \in {t - asked, t - asked + ERA} /\ a \in Instants /\ a < MAX_TRANSIT
  BY Difference
<1>2. b \in {u - asked, u - asked + ERA} /\ b \in Instants
  BY Difference
<1> HIDE DEF a, b
<1>3. b <= MAX_TRANSIT
  BY <1>1, <1>2, Era DEF Instants
<1> QED BY <1>3 DEF b

\* A unit of time leaves getTime as far behind as it was, and a wrap of the
\* milliseconds leaves it WIDTH further behind.
LEMMA LagOfNext ==
    ASSUME IInv, Tick
    PROVE  ClockRight'
<1> DEFINE x == utc - GetTime - wraps * WIDTH
<1>1. /\ utc \in Instants /\ uptime \in 0 .. WIDTH - 1 /\ hardwareOffset \in Int
      /\ wraps \in 0 .. MAX_WRAPS /\ MAX_WRAPS \in Nat
  BY ClockAssumption DEF IInv, TypeOK, Instants
<1>2. /\ utc' = utc + 1 \/ utc' = utc + 1 - ERA
      /\ \/ uptime' = uptime + 1 /\ uptime' # 0
         \/ uptime' = 0 /\ uptime = WIDTH - 1
      /\ hardwareOffset' = hardwareOffset /\ answered' = answered
  BY <1>1, Era DEF Tick, Instants
<1>3. SUFFICES ASSUME answered, wraps' < MAX_WRAPS
               PROVE  x' % ERA < MAX_TRANSIT + SECOND
  BY <1>2 DEF ClockRight
<1>4. wraps < MAX_WRAPS /\ wraps' = IF uptime' = 0 THEN wraps + 1 ELSE wraps
  BY <1>1, <1>3 DEF Tick
<1>5. x \in Int /\ x % ERA < MAX_TRANSIT + SECOND
  BY <1>1, <1>3, <1>4, Era DEF IInv, ClockRight, GetTime, Instants
<1>6. uptime' + wraps' * WIDTH = uptime + 1 + wraps * WIDTH
  <2>1. CASE uptime' = 0
    <3>1. (wraps + 1) * WIDTH = wraps * WIDTH + WIDTH
      BY <1>1, Era
    <3> QED BY <1>1, <1>2, <1>4, <2>1, <3>1, Era
  <2>2. CASE uptime' # 0
    BY <1>1, <1>2, <1>4, <2>2
  <2> QED BY <2>1, <2>2
<1>7. wraps' * WIDTH \in Int /\ wraps * WIDTH \in Int /\ uptime' \in Int
  BY <1>1, <1>2, <1>4, Era
<1>8. x' = x + (utc' - utc - 1)
  BY <1>1, <1>2, <1>6, <1>7, Era DEF GetTime, Instants
<1>9. utc' - utc - 1 = 0 \/ utc' - utc - 1 = -ERA
  BY <1>1, <1>2, Era DEF Instants
<1>10. x' = x \/ x' = x - ERA
  BY <1>5, <1>8, <1>9, Era
<1> QED BY <1>5, <1>10, EraLess

-----------------------------------------------------------------------------
LEMMA InitIInv == Init => IInv
<1> SUFFICES ASSUME Init PROVE IInv
  OBVIOUS
<1> USE ClockAssumption, Era DEF Init, Instants
<1>1. utc \in 0 .. ERA - 1 /\ uptime \in 0 .. WIDTH - 1 /\ hardwareOffset \in Int
      /\ wraps \in 0 .. MAX_WRAPS
  OBVIOUS
<1>2. syncIn \in NONE .. PERIOD /\ alarmIn \in NONE .. RESEND /\ alarmIn = NONE
  BY DEF NONE
<1>3. answered \in BOOLEAN /\ lost \in BOOLEAN /\ dns_request_sent \in BOOLEAN /\ dnsPending \in BOOLEAN
  BY Zenon
<1>4. TypeOK
  BY <1>1, <1>2, <1>3 DEF TypeOK
<1>5. AlarmGuardsRequest /\ RepliesFresh /\ ClockRight
  BY DEF AlarmGuardsRequest, RepliesFresh, ClockRight
<1> QED BY <1>4, <1>5 DEF IInv

\* An attempt that ends without a time, in a step that leaves utc and the
\* replies alone or drops replies.
LEMMA NoTimeStep ==
    ASSUME IInv, NoTime, UNCHANGED time, replies' \subseteq replies,
           pc' \in {"idle", "tested"} \/ pc' = pc, lost' \in BOOLEAN,
           dnsPending' \in BOOLEAN,
           UNCHANGED <<requests, ntp_server_address>>
    PROVE  IInv'
<1> USE ClockAssumption
<1>1. TypeOK'
  <2>1. syncIn' \in NONE .. PERIOD /\ alarmIn' \in NONE .. RESEND
    BY DEF NoTime, EndOfAttempt, NONE
  <2>2. dns_request_sent' \in BOOLEAN
    BY Zenon DEF NoTime, EndOfAttempt
  <2> QED BY <2>1, <2>2 DEF IInv, TypeOK, NoTime, time, clock
<1>2. AlarmGuardsRequest'
  BY DEF IInv, AlarmGuardsRequest, NoTime, EndOfAttempt
<1>3. RepliesFresh'
  BY DEF IInv, RepliesFresh, Age, time
<1>4. ClockRight'
  BY DEF IInv, ClockRight, GetTime, NoTime, time, clock
<1> QED BY <1>1, <1>2, <1>3, <1>4 DEF IInv

\* Steps that change neither the clock, nor the timers, nor the replies.
LEMMA QuietStep ==
    ASSUME IInv, UNCHANGED time, UNCHANGED clock, UNCHANGED replies,
           TypeOK', AlarmGuardsRequest'
    PROVE  IInv'
BY DEF IInv, RepliesFresh, ClockRight, GetTime, Age, time, clock

LEMMA NextIInv == IInv /\ [Next]_vars => IInv'
<1> SUFFICES ASSUME IInv, [Next]_vars PROVE IInv'
  OBVIOUS
<1> USE ClockAssumption
<1>0. TypeOK /\ AlarmGuardsRequest /\ RepliesFresh /\ ClockRight
  BY DEF IInv
<1>1. CASE SyncTestStamp
  BY <1>0, <1>1, QuietStep DEF SyncTestStamp, TypeOK, AlarmGuardsRequest, client, network, time, clock
<1>2. CASE SyncTestSent
  BY <1>0, <1>2, QuietStep DEF SyncTestSent, TypeOK, AlarmGuardsRequest, client, network, time, clock
<1>3. CASE SyncStart
  <2>1. CASE NoTime /\ UNCHANGED network
    BY <1>0, <1>3, <2>1, NoTimeStep DEF SyncStart, network, TypeOK
  <2>2. CASE /\ Arm /\ dns_request_sent' = TRUE
             /\ UNCHANGED <<clock, syncIn>>
    <3>1. AlarmGuardsRequest'
      BY <1>3, <2>2 DEF SyncStart, Arm, AlarmGuardsRequest, NONE
    <3>2. TypeOK'
      <4>1. alarmIn' \in NONE .. RESEND /\ syncIn' \in NONE .. PERIOD
        BY <1>0, <2>2 DEF Arm, NONE, TypeOK
      <4>2. dns_request_sent' \in BOOLEAN /\ lost' \in BOOLEAN
        BY <1>3, <2>2, Zenon DEF SyncStart
      <4>3. dns_request_sent' = TRUE /\ (NoTime => dns_request_sent' = FALSE)
        BY <2>2 DEF NoTime, EndOfAttempt
      <4>4. \/ dnsPending' = TRUE /\ UNCHANGED <<ntp_server_address, requests>>
            \/ \E server \in SERVERS : /\ ntp_server_address' = server
                                       /\ Request(server)
                                       /\ UNCHANGED dnsPending
        BY <1>3, <4>3 DEF SyncStart
      <4>5. /\ dnsPending' \in BOOLEAN /\ requests' \subseteq SERVERS
            /\ ntp_server_address' \in SERVERS \union {NOBODY}
        BY <1>0, <4>4 DEF Request, TypeOK
      <4> QED BY <1>0, <1>3, <2>2, <4>1, <4>2, <4>5 DEF SyncStart, TypeOK, time, clock
    <3> QED BY <1>3, <2>2, <3>1, <3>2, QuietStep DEF SyncStart
  <2> QED BY <1>3, <2>1, <2>2 DEF SyncStart
<1>4. CASE DnsFound
  <2>1. CASE NoTime /\ UNCHANGED <<ntp_server_address, requests>>
    <3>1. dnsPending' \in BOOLEAN /\ lost' = lost
      BY <1>4, Zenon DEF DnsFound
    <3>2. UNCHANGED time /\ replies' = replies /\ pc' = pc /\ lost \in BOOLEAN
      BY <1>0, <1>4 DEF DnsFound, TypeOK
    <3>3. lost' \in BOOLEAN
      BY <3>1, <3>2, Zenon
    <3>4. NoTime /\ UNCHANGED <<requests, ntp_server_address>>
      BY <2>1
    <3>5. replies' \subseteq replies
      BY <3>2
    <3> QED BY <3>1, <3>2, <3>3, <3>4, <3>5, NoTimeStep, Zenon
  <2>2. CASE \E server \in SERVERS :
                 ntp_server_address' = server /\ Request(server) /\ UNCHANGED client
    <3>1. dnsPending' \in BOOLEAN
      BY <1>4, Zenon DEF DnsFound
    <3>2. UNCHANGED time /\ UNCHANGED <<replies, pc, lost>> /\ UNCHANGED client
      BY <1>4, <2>2 DEF DnsFound
    <3>3. ntp_server_address' \in SERVERS \union {NOBODY} /\ requests' \subseteq SERVERS
      BY <1>0, <2>2 DEF Request, TypeOK
    <3>4. UNCHANGED clock /\ UNCHANGED <<syncIn, alarmIn, dns_request_sent>>
      BY <3>2 DEF client
    <3>5. TypeOK'
      <4>1. lost' \in BOOLEAN /\ dns_request_sent' \in BOOLEAN /\ answered' \in BOOLEAN
        BY <1>0, <3>2, <3>4, Zenon DEF TypeOK, clock
      <4>2. /\ utc' \in 0 .. ERA - 1 /\ uptime' \in 0 .. WIDTH - 1 /\ hardwareOffset' \in Int
            /\ wraps' \in 0 .. MAX_WRAPS
            /\ syncIn' \in NONE .. PERIOD /\ alarmIn' \in NONE .. RESEND
            /\ replies' \subseteq [server : SERVERS, asked : 0 .. ERA - 1]
            /\ pc' \in {"idle", "tested", "start"}
        BY <1>0, <3>2, <3>4 DEF TypeOK, time, clock
      <4> QED BY <3>1, <3>3, <4>1, <4>2, Zenon DEF TypeOK
    <3>6. AlarmGuardsRequest'
      BY <1>0, <3>2, <3>4 DEF AlarmGuardsRequest
    <3> QED BY <1>0, <3>2, <3>4, <3>5, <3>6, QuietStep
  <2> QED BY <1>4, <2>1, <2>2 DEF DnsFound
<1>5. CASE Alarm
  BY <1>0, <1>5, NoTimeStep DEF Alarm, network, TypeOK
<1>6. CASE Tick
  <2>1. utc' \in Instants /\ (utc' = utc + 1 \/ utc' = utc + 1 - ERA)
    BY <1>0, <1>6, Era DEF Tick, TypeOK, Instants
  <2>2. TypeOK'
    <3>1. utc' \in 0 .. ERA - 1 /\ uptime' \in 0 .. WIDTH - 1 /\ wraps' \in 0 .. MAX_WRAPS
      BY <1>0, <1>6, <2>1, Era DEF Tick, TypeOK, Instants
    <3> QED BY <1>0, <1>6, <3>1 DEF Tick, TypeOK, NONE, network
  <2>3. AlarmGuardsRequest'
    BY <1>0, <1>6 DEF Tick, AlarmGuardsRequest, TypeOK, NONE
  <2>4. ASSUME NEW reply \in replies, Age(reply) < MAX_TRANSIT
        PROVE  Age(reply)' <= MAX_TRANSIT
    <3>1. reply.asked \in Instants /\ utc \in Instants
      BY <1>0 DEF TypeOK, Instants
    <3> QED BY <2>1, <2>4, <3>1, AgeOfNext DEF Age
  <2>5. RepliesFresh'
    BY <1>6, <2>4 DEF Tick, RepliesFresh
  <2>6. ClockRight'
    BY <1>6, LagOfNext
  <2> QED BY <2>2, <2>3, <2>5, <2>6 DEF IInv
<1>7. ASSUME NEW reply \in replies, NEW wellFormed \in BOOLEAN, NEW again \in BOOLEAN,
             Receive(reply, wellFormed, again)
      PROVE  IInv'
  <2>0. replies' \subseteq replies /\ UNCHANGED <<time, network, pc>> /\ pc = "idle"
    BY <1>7 DEF Receive
  <2>1. CASE NoTime /\ UNCHANGED lost
    BY <1>0, <2>0, <2>1, NoTimeStep DEF network, TypeOK
  <2>2. CASE TimeIs(EpochOf(WireTime(reply.asked))) /\ lost' = FALSE
    <3> DEFINE e == EpochOf(WireTime(reply.asked)) * SECOND
    <3>1. /\ reply.asked \in Instants /\ utc \in Instants /\ uptime \in 0 .. WIDTH - 1
          /\ (utc - reply.asked) % ERA <= MAX_TRANSIT
      BY <1>0 DEF TypeOK, RepliesFresh, Age, Instants
    <3>2. e \in Int /\ (utc - e) % ERA < MAX_TRANSIT + SECOND
      BY <3>1, LagOfReply
    <3>3. /\ hardwareOffset' = e - uptime /\ wraps' = 0
          /\ utc' = utc /\ uptime' = uptime
      BY <2>0, <2>2 DEF TimeIs, time
    <3> HIDE DEF e
    <3>4. ClockRight'
      <4>1. utc' - GetTime' - wraps' * WIDTH = utc - e
        BY <3>1, <3>2, <3>3, Era DEF GetTime, Instants
      <4> QED BY <3>2, <4>1 DEF ClockRight
    <3>5. TypeOK'
      <4>1. syncIn' \in NONE .. PERIOD /\ alarmIn' \in NONE .. RESEND
        BY <2>2 DEF TimeIs, EndOfAttempt, NONE
      <4>2. dns_request_sent' \in BOOLEAN /\ answered' \in BOOLEAN /\ lost' \in BOOLEAN
        BY <2>2, Zenon DEF TimeIs, EndOfAttempt
      <4>3. hardwareOffset' \in Int /\ wraps' \in 0 .. MAX_WRAPS
        BY <3>1, <3>2, <3>3, Era
      <4> QED BY <1>0, <2>0, <4>1, <4>2, <4>3 DEF TypeOK, network, time
    <3>6. AlarmGuardsRequest'
      BY <2>0, <2>2 DEF TimeIs, EndOfAttempt, AlarmGuardsRequest
    <3>7. RepliesFresh'
      BY <1>0, <2>0 DEF RepliesFresh, Age, time
    <3> QED BY <3>4, <3>5, <3>6, <3>7 DEF IInv
  <2> QED BY <1>7, <2>1, <2>2 DEF Receive
<1>8. ASSUME NEW server \in SERVERS, Answer(server) \/ LoseRequest(server)
      PROVE  IInv'
  <2>1. CASE LoseRequest(server)
    BY <1>0, <2>1, QuietStep DEF LoseRequest, TypeOK, AlarmGuardsRequest, client, time, clock
  <2>2. CASE Answer(server)
    <3> DEFINE new == [server |-> server, asked |-> utc]
    <3>1. utc \in 0 .. ERA - 1 /\ new \in [server : SERVERS, asked : 0 .. ERA - 1]
      BY <1>0 DEF TypeOK
    <3>2. Age(new) = 0
      BY <3>1, Era DEF Age
    <3>3. TypeOK' /\ AlarmGuardsRequest'
      BY <1>0, <2>2, <3>1 DEF Answer, TypeOK, AlarmGuardsRequest, client, time, clock
    <3>4. RepliesFresh' /\ ClockRight'
      BY <1>0, <2>2, <3>2 DEF Answer, RepliesFresh, Age, ClockRight, GetTime, client, time, clock
    <3> QED BY <3>3, <3>4 DEF IInv
  <2> QED BY <1>8, <2>1, <2>2
<1>9. CASE UNCHANGED vars
  BY <1>0, <1>9, QuietStep DEF vars, client, network, time, clock, TypeOK, AlarmGuardsRequest
<1> QED BY <1>1, <1>2, <1>3, <1>4, <1>5, <1>6, <1>7, <1>8, <1>9 DEF Next, Sync

-----------------------------------------------------------------------------
\* Every outstanding request has its alarm and no alarm outlives its request.
THEOREM RequestsGuarded == Spec => []AlarmGuardsRequest
<1>1. IInv => AlarmGuardsRequest
  BY DEF IInv
<1> QED BY <1>1, InitIInv, NextIInv, PTL DEF Spec

\* The clock is never ahead, and behind by at most the transit of a reply, less
\* than a second, and WIDTH for every wrap of the milliseconds since the reply.
THEOREM ClockIsRight == Spec => []ClockRight
<1>1. IInv => ClockRight
  BY DEF IInv
<1> QED BY <1>1, InitIInv, NextIInv, PTL DEF Spec

\* Types, for any servers, times and width.
THEOREM NtpTyping == Spec => []TypeOK
<1>1. IInv => TypeOK
  BY DEF IInv
<1> QED BY <1>1, InitIInv, NextIInv, PTL DEF Spec
=============================================================================
