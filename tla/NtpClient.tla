------------------------------ MODULE NtpClient ------------------------------
(***************************************************************************)
(* lib/ntp/NtpClient.cpp and the part of PicoSparkplugClient.cpp that uses *)
(* it: the clock is set from a server every PERIOD, and while a request is *)
(* outstanding, or overdue, the client counts as not connected.            *)
(*                                                                         *)
(* sync() is called by the main loop, the callbacks of lwIP run between    *)
(* two calls (the build polls lwIP), and failed() is an alarm interrupt,   *)
(* which can come between any two steps: so the two tests of sync() are    *)
(* two steps.  The comparison with syncStamp reads 64 bits in two halves;  *)
(* whichever stamp it mixes them from, its outcome is that before or after *)
(* the interrupt.  Requests and replies are lost, delayed, duplicated and  *)
(* answered by a server that is no longer asked.                           *)
(*                                                                         *)
(* Time is in units, the milliseconds of the code, SECOND to a second.     *)
(* Two counters of WIDTH (2^32) values wrap: the seconds of an NTP time    *)
(* stamp, and the milliseconds since power-up that us_to_ms returns (after *)
(* 49.7 days).  time_t does not wrap: it is a 64-bit integer.  Clocks do   *)
(* not drift; add_alarm_in_ms and pbuf_alloc succeed.                      *)
(***************************************************************************)
EXTENDS Integers

CONSTANTS
    SERVERS,        \* addresses the name of the server resolves to
    PERIOD,         \* syncTime, in units
    RESEND,         \* NTP_RESEND_TIME
    SECOND,         \* SECONDS_TO_MS
    WIDTH,          \* 2^32
    NTP_DELTA,      \* seconds from 1900 to 1970
    BOOT,           \* the time the program started
    MAX_TRANSIT,    \* bound: the time from the stamp of a reply to its delivery
    MAX_WRAPS       \* bound: the wraps of the milliseconds that are counted

\* The time that 32-bit seconds can tell apart: 1970 to 2106.
ERA == WIDTH * SECOND

ASSUME ClockAssumption ==
    /\ PERIOD \in Nat \ {0} /\ RESEND \in Nat \ {0} /\ MAX_TRANSIT \in Nat
    /\ WIDTH \in Nat \ {0} /\ SECOND \in Nat \ {0} /\ MAX_WRAPS \in Nat
    /\ MAX_TRANSIT + SECOND < ERA
    /\ NTP_DELTA \in 0 .. WIDTH - 1 /\ BOOT \in 0 .. ERA - 1

NONE == -1
NOBODY == "nobody"
ASSUME NobodyAssumption == NOBODY \notin SERVERS

VARIABLES
    utc,                    \* the true time since 1970, modulo ERA
    uptime,                 \* us_to_ms(time_us_64()), a uint32_t
    hardwareOffset,
    syncIn,                 \* time to syncStamp, negative when it has passed
    alarmIn,                \* time to the resend alarm, or NONE
    dns_request_sent,
    ntp_server_address,
    dnsPending,             \* a name is being resolved
    requests,               \* servers that a request is on its way to
    replies,                \* replies on their way: server, and when it was asked
    pc,                     \* where sync() is: idle, tested or start
    answered,               \* history: the time was set at least once
    wraps,                  \* history: how often uptime wrapped since, at most MAX_WRAPS
    lost                    \* history: the alarm has reported a loss, and
                            \* nothing was asked and nothing learnt since

time    == <<utc, uptime>>
clock   == <<hardwareOffset, answered, wraps>>
client  == <<clock, syncIn, alarmIn, dns_request_sent>>
network == <<dnsPending, ntp_server_address, requests>>
vars    == <<time, client, network, replies, pc, lost>>

Init ==
    /\ utc = BOOT /\ uptime = 0 /\ hardwareOffset = 0
    /\ syncIn = 0 /\ alarmIn = NONE /\ dns_request_sent = FALSE
    /\ ntp_server_address = NOBODY /\ dnsPending = FALSE
    /\ requests = {} /\ replies = {}
    /\ pc = "idle" /\ answered = FALSE /\ wraps = 0 /\ lost = FALSE

GetTime == uptime + hardwareOffset

\* What a server puts in its reply, whole seconds, and how receive converts
\* them, in unsigned arithmetic.
WireTime(t) == (t \div SECOND + NTP_DELTA) % WIDTH
EpochOf(wire) == (wire - NTP_DELTA) % WIDTH

\* synced(), and isConnected of the Sparkplug client above it.
Synced == syncIn >= 0 /\ ~dns_request_sent
IsConnected(mqtt) == Synced /\ mqtt

-----------------------------------------------------------------------------
\* result(): whatever the outcome, the alarm is cancelled and the next attempt
\* is a period away.
EndOfAttempt ==
    /\ alarmIn' = NONE
    /\ syncIn' = PERIOD
    /\ dns_request_sent' = FALSE

NoTime ==
    /\ EndOfAttempt
    /\ UNCHANGED clock

MutTimeIs(epoch) ==     \* the offset is taken for the time
    /\ EndOfAttempt
    /\ hardwareOffset' = epoch * SECOND
    /\ answered' = TRUE /\ wraps' = 0
TimeIs(epoch) ==
    /\ EndOfAttempt
    /\ hardwareOffset' = epoch * SECOND - uptime
    /\ answered' = TRUE /\ wraps' = 0

\* request()
Request(server) == requests' = requests \union {server}

\* sync(), the first test: the stamp has passed, or the call does nothing.
SyncTestStamp ==
    /\ pc = "idle" /\ syncIn < 0
    /\ pc' = "tested"
    /\ UNCHANGED <<time, client, network, replies, lost>>

\* The second test: no request is outstanding.
MutSyncTestSent ==      \* the second test is missing
    /\ pc = "tested"
    /\ pc' = "start"
    /\ UNCHANGED <<time, client, network, replies, lost>>
SyncTestSent ==
    /\ pc = "tested"
    /\ pc' = IF dns_request_sent THEN "idle" ELSE "start"
    /\ UNCHANGED <<time, client, network, replies, lost>>

Arm == alarmIn' = RESEND

\* The alarm, and the name: cached, being resolved, or an error.
SyncStart ==
    /\ pc = "start"
    /\ pc' = "idle"
    /\ lost' = FALSE
    /\ \/ /\ Arm /\ dns_request_sent' = TRUE
          /\ UNCHANGED <<clock, syncIn>>
          /\ \/ dnsPending' = TRUE /\ UNCHANGED <<ntp_server_address, requests>>
             \/ \E server \in SERVERS :
                    /\ ntp_server_address' = server
                    /\ Request(server)
                    /\ UNCHANGED dnsPending
       \/ NoTime /\ UNCHANGED network
    /\ UNCHANGED <<time, replies>>

\* dnsFound(), with an address or without.
DnsFound ==
    /\ pc = "idle" /\ dnsPending
    /\ dnsPending' = FALSE
    /\ \/ \E server \in SERVERS :
              /\ ntp_server_address' = server
              /\ Request(server)
              /\ UNCHANGED client
       \/ NoTime /\ UNCHANGED <<ntp_server_address, requests>>
    /\ UNCHANGED <<time, replies, pc, lost>>

\* receive(): a reply is good if it comes from the server last resolved and is
\* well formed.  Any other ends the attempt as well.
Receive(reply, wellFormed, again) ==
    /\ pc = "idle"
    /\ replies' = IF again THEN replies ELSE replies \ {reply}
    /\ IF wellFormed /\ reply.server = ntp_server_address
       THEN TimeIs(EpochOf(WireTime(reply.asked))) /\ lost' = FALSE
       ELSE NoTime /\ UNCHANGED lost
    /\ UNCHANGED <<time, network, pc>>

\* failed(): the alarm interrupt.
MutAlarm ==             \* the flag is not cleared: result is not called
    /\ alarmIn = 0
    /\ alarmIn' = NONE
    /\ lost' = TRUE
    /\ UNCHANGED <<time, network, replies, pc, clock, syncIn, dns_request_sent>>
Alarm ==
    /\ alarmIn = 0
    /\ NoTime
    /\ lost' = TRUE
    /\ UNCHANGED <<time, network, replies, pc>>

-----------------------------------------------------------------------------
(* The network and time. *)

\* A server is asked, and stamps the time into its reply.
Answer(server) ==
    /\ server \in requests
    /\ requests' = requests \ {server}
    /\ replies' = replies \union {[server |-> server, asked |-> utc]}
    /\ UNCHANGED <<time, client, dnsPending, ntp_server_address, pc, lost>>

LoseRequest(server) ==
    /\ server \in requests
    /\ requests' = requests \ {server}
    /\ UNCHANGED <<time, client, dnsPending, ntp_server_address, replies, pc, lost>>

Age(reply) == (utc - reply.asked) % ERA

\* A unit of time passes, but not past an alarm.  Replies do not get older
\* than MAX_TRANSIT: they are lost.
Tick ==
    /\ alarmIn # 0
    /\ utc' = (utc + 1) % ERA
    /\ uptime' = (uptime + 1) % WIDTH
    /\ wraps' = IF uptime' = 0 /\ wraps < MAX_WRAPS THEN wraps + 1 ELSE wraps
    /\ syncIn' = IF syncIn < 0 THEN syncIn ELSE syncIn - 1
    /\ alarmIn' = IF alarmIn = NONE THEN NONE ELSE alarmIn - 1
    /\ replies' = {reply \in replies : Age(reply) < MAX_TRANSIT}
    /\ UNCHANGED <<hardwareOffset, answered, dns_request_sent, network, pc, lost>>

Sync == SyncTestStamp \/ SyncTestSent \/ SyncStart

Next ==
    \/ Sync \/ DnsFound \/ Alarm \/ Tick
    \/ \E reply \in replies, wellFormed, again \in BOOLEAN : Receive(reply, wellFormed, again)
    \/ \E server \in SERVERS : Answer(server) \/ LoseRequest(server)

Spec == Init /\ [][Next]_vars

\* Time passes, the alarm interrupts, and the main loop calls sync for ever.
FairSpec == Spec /\ WF_vars(Tick) /\ WF_vars(Alarm) /\ WF_vars(Sync)

-----------------------------------------------------------------------------
\* Every variable has its type.
TypeOK ==
    /\ utc \in 0 .. ERA - 1 /\ uptime \in 0 .. WIDTH - 1 /\ hardwareOffset \in Int
    /\ syncIn \in NONE .. PERIOD /\ alarmIn \in NONE .. RESEND
    /\ dns_request_sent \in BOOLEAN /\ dnsPending \in BOOLEAN
    /\ ntp_server_address \in SERVERS \union {NOBODY}
    /\ requests \subseteq SERVERS
    /\ replies \subseteq [server : SERVERS, asked : 0 .. ERA - 1]
    /\ pc \in {"idle", "tested", "start"}
    /\ answered \in BOOLEAN /\ wraps \in 0 .. MAX_WRAPS /\ lost \in BOOLEAN

\* A request is outstanding exactly while its alarm is armed, whichever of the
\* reply, a late or foreign packet, the resolver and the alarm comes first, and
\* also when the alarm comes between the two tests of sync: so no request waits
\* for ever, and no alarm is left over to end a later one.
AlarmGuardsRequest ==
    /\ dns_request_sent <=> alarmIn # NONE
    /\ pc = "start" => ~dns_request_sent

\* What the clock is worth.  Set, it is never ahead, and behind by less than a
\* second more than a reply was on its way, also for a late reply of an earlier
\* attempt and when the seconds of NTP wrap in between (2036).  But the
\* milliseconds since power-up wrap, getTime adds them to an offset that knows
\* nothing of it, and from then on the clock is WIDTH of them (49.7 days) further
\* behind for every wrap, until the next good reply.
ClockRight ==
    answered /\ wraps < MAX_WRAPS
        => (utc - GetTime - wraps * WIDTH) % ERA < MAX_TRANSIT + SECOND

\* With MQTT connected, a client that counts as disconnected, because the time
\* is being asked for or overdue, is connected again in the end.
ConnectedAgain == ~IsConnected(TRUE) ~> IsConnected(TRUE)

\* "Set alarm in case udp requests are lost": when the alarm has reported a
\* loss, the next call of sync asks again.
LostRequestResent == lost /\ pc = "idle" => syncIn < 0
=============================================================================
