# Home Pico projects: a verification development

TLA+ models, TLC runs and TLAPS proofs for the programs of this repository:
three Raspberry Pi Pico W applications (garage door, garden shed, garden bed)
that publish sensors and take commands over Sparkplug (MQTT), and the client
libraries they share. The models are translated from the source; `PROJECT.json`
maps every definition to its lines.

Modelled are the garage door as a whole (the control on core 1, the door and the
opener it controls, the queues between the cores, the connection loop of
core 0), the TCP, NTP and Sparkplug clients that all projects share, and the
parser of the shed's solar charger at the end of its serial line.

## The system

### Components

| component | state | operations |
| --- | --- | --- |
| door control (`garage_door/src/door_control.c`) | `DoorControl`: current and desired state, result, positions, range, mean movement, relay, three deadlines, sample count | `initialize`, `set_position`, `calibrate_min/max_position`, `get`, `execute` |
| cores and queues (`garage_door/src/main.cpp`) | `sparkplugQueue`, `doorQueue` (capacity 1 each), the metrics | `door_main` on core 1; the inner loop and the command callback on core 0 |
| connection loop (`mqtt_test` / `sparkplugExecute` of the three projects) | place in the loop, `retries` | join the WiFi, wait for the node, execute it, look at the link again |
| TCP client (`lib/tcp_client`) | control block, write queue, receive queue, `availableData`, connection flags | `connect`, `write`, `read`, `close`, and the lwIP callbacks `sent`, `received`, `onConnected`, `onError` |
| NTP client (`lib/ntp`) | `syncStamp`, `dns_request_sent`, resend alarm, `hardwareOffset` | `sync`, `dnsFound`, `receive`, `failed` (alarm interrupt), `result`, `synced`, `getTime` |
| Sparkplug client (`lib/sparkplug_client`) | the two clients above | `sync`, `isConnected`, `getTime`, `useNtpServer` |
| Victron parser (`garden_shed/src/VictronParser.cpp`, `Fields.h`) | character state, label, field, checksum, queue of fields, metrics | `parse`, `processEntry`, `processFields`, `dumpFields` |
| shed device (`garden_shed/src/Shed.cpp`) | door and light metrics, PWM level | `sync`, the intensity command |

The Sparkplug node and MQTT client, lwIP and the Pico SDK are outside the
repository. `lwipopts.h` holds constants of lwIP, `enum.h` is a vendored
header.

### How they interact

A command reaches the node inside `node.execute()` on core 0; the callback of
the position metric puts its value into `sparkplugQueue` if that queue is
empty. Core 1 takes it, gives it to `door_control_set_position`, calls
`door_control_execute` in every turn of its loop and, when a sample was taken
and `doorQueue` is empty, queues the data of the door. Core 0 takes the data
and sets the metrics, which the node publishes. The cores share nothing but the
queues. All network callbacks run inside `cyw43_arch_poll` or `node.execute` on
core 0 (the build uses the polling architecture); the only code that preempts
core 0 is the resend alarm of the NTP client.

The door control acts on the world by one button. A press on a standing door
moves it opposite to its last movement, a press on a moving door stops it. The
control learns the direction only from the potentiometer: it presses, waits
until the mean movement was large for `STABLIZE_COUNT_MAX` samples (START),
monitors the door if it moves the right way (MONITOR), otherwise presses again
(ACTIVE, START). An end of the range is left to the limit switch, a target
inside the range is stopped by a press (STOP), followed by a look at where the
door came to rest (ACTIVE).

### What is hard here

- Three deadlines of a 32-bit microsecond clock that wraps every 71.6 minutes,
  compared by a guard that refuses to fire across the wrap.
- Commands in any state of the control, between a decision and the sample that
  would act on it, and while the door moves for another reason.
- A feedback loop with a delay: every decision uses the position of the previous
  sample and the mean of the one before, and the press is only a toggle.
- Narrow integers: an 8-bit mean that overflows when a reading jumps, an 8-bit
  count that is decremented from 0, an 8-bit report of a signed map.
- Queue tests and blocking calls with the other core in between; commands and
  data that are dropped when a queue is occupied.
- A connection that comes and goes at any place of the loop.
- A parser whose state and indices are used before they are set, on a line that
  loses bytes and interrupts the text with binary frames.
- Milliseconds since power-up that wrap after 49.7 days, added to a time that
  does not.

### What makes each component correct

- *Door control*: pulses long enough, and over in time unless their deadline is
  lost at the wrap of the clock; no press without a state
  that stands for it; the door monitored only after a full debounce; a verdict
  that belongs to the last command and is true; every command obeyed, and the
  door eventually let go, under the assumptions about the user stated below.
- *Cores and queues*: no core ever waits in a queue; commands and data arrive at
  most once and in order; what was accepted is applied; the last data are
  published.
- *Connection loop*: as long as link and node stay up, the node is served.
- *TCP client*: the connected flag and the control block agree through every
  error; the bytes given to lwIP are the bytes written, once and in order; the
  bytes read are the bytes received, once and in order, and `available` is exact.
- *NTP and Sparkplug client*: a request is outstanding exactly while its alarm is
  armed; the clock, once set, is as far behind as the reply was old, and a wrap of
  the milliseconds more for each one since; the client becomes connected again
  after every synchronisation; a lost request is sent again (it is not, see
  `resend`).
- *Victron parser*: no byte written outside an array, if the memory at the start
  does not make it so; what a block says is what the metrics show, whatever was
  lost before it; the checksum of an intact block is zero.
- *Shed*: light only while the door is open, at the commanded intensity (not
  modelled, see below).

## Modules

| module | models |
| --- | --- |
| `Timestamp` | the clock and `timestamp_elapsed` |
| `DoorControl` | all of `door_control.c` for any readings, commands and calibrations |
| `DoorHistory` | `DoorControl` with a stopwatch: ages of press and sample, run of moving samples |
| `GarageDoor` | `DoorControl` with the door, the opener, a user and the button on the wall |
| `GarageApproach` | what the door and the delays must be for the control to work; the invariants of an undisturbed approach, and of a door that is disturbed while it is monitored |
| `NodeLoop` | the connection loop |
| `Mailbox` | abstract: what a queue between the cores promises |
| `DoorQueues` | both cores, the queues and `NodeLoop`; each queue shown to implement `Mailbox` |
| `TcpClient` | `PicoTcpClient.cpp` with the part of lwIP and of the peer that it sees |
| `ByteStream` | abstract: what `available` and `read` of the interface `Client` promise |
| `NtpClient` | `NtpClient.cpp` and the part of `PicoSparkplugClient.cpp` above it, with resolver, servers, network and time |
| `VictronParser` | `VictronParser.cpp` and `Fields.h` on any input |
| `VictronSerial` | `VictronParser` with the charger, the serial line and the loop of the shed that reads it |
| `...Proofs` | theorems about the module they are named after |
| `MC...` | readings, commands, clock steps and bounds for TLC |

`DoorHistory` and `GarageDoor` extend `DoorControl` and use its actions
unchanged; `GarageApproach` extends `GarageDoor` with definitions only; `DoorQueues` extends `NodeLoop` and represents the door control by
what its caller sees; `VictronSerial` extends `VictronParser`. A definition
called `Mut...` is a plausible bug; nothing uses it, and each is caught by a
property when it takes the place of the definition below it.

### State and actions

`DoorControl` has a variable for every field of the struct but `hold_transition`
(never read) and one, `now`, for `time_us_32()`. `door_control_execute` is
split by state and outcome: `PollOnly` for the early return, `StartMoving`,
`StartStill`, `StopStill`, `StopMoving`, `MonitorReached`, `MonitorWrongWay`,
`MonitorOn`, `SampleActive`, `SampleIdle`. Each is the whole call: release of
the relay (`RelayAfterRelease`), new deadline, mean and position (`Sample`),
the case of the switch, and the press of the button with the state change
(`Settle`). Arithmetic keeps the widths of C: `Signed` and `%` on every store,
`CDiv` for division towards zero, `>> 1` as rounding down.

The clock is read once per call. The code reads it up to five times, but a call
takes microseconds and every delay is tens of milliseconds or more.

`GarageDoor` moves the door for the time of a turn and then lets the control
read it. A press of the relay is a rising edge; the limit switches stop the
door at both ends, `BOTTOM` and `TOP`, which need not be those of the range that
`door_control_initialize` was given.

`DoorQueues` makes a step of each test of a queue and of each operation on it.
Data of the door are numbered by change, so *older* and *lost* can be told.
`node.execute()` may call the callback any number of times before it returns.
The 50 ms pauses, the formatting of client ids and the options of the
node are left out: no property depends on them.

`TcpClient` numbers the bytes in the order they are written (received), so a
buffer is the number of its first byte and a length, and *lost*, *repeated* and
*out of order* can be told. The loops of `writeDataBuffer`, `sent` and `read`
take a step for each iteration (`pc`). lwIP accepts at most `SND_BUF` bytes that
are not acknowledged, may refuse a `tcp_write`, and acknowledges any number of
bytes at a time. `write` does not ask whether there is a connection; `CallerWrites`
is the assumption that its caller, the MQTT client, does. So `tcp_write` always has
a connection, and the case ERR_CONN of `writeDataBuffer` is never reached.

`NtpClient` keeps `syncStamp` and the alarm as the time that is left to them. Time
goes in units, the milliseconds of the code, `SECOND` to a second. `uptime` is what
`us_to_ms` returns and wraps at `WIDTH`, and so do the seconds of an NTP time stamp;
`hardwareOffset` and what `getTime` returns do not. The
alarm is an interrupt and may come between the two tests of `sync` (`pc`). The
true time `utc` and the replies on their way, each with its server and time
stamp, are the environment. `lost`, `answered` and `wraps` are history.

`VictronParser` parses tokens: half a label, a value, or one of the characters
`parse` looks for. `labelData` and `fieldData` are the arrays without the zeros at
their end, `labelIndex` and `fieldIndex` are variables of their own. What the
constructor leaves unset is arbitrary at the start, also a state that `parse` does
not know (CHECKSUM stands for all of them) and an index outside its array. `Sane`
says that neither is so, and `sane` remembers what it said at the start. A negative
index passes the tests of `parse` and something before the array is overwritten
(`Stray`: the whole parser is arbitrary again, but for the queue). A text is copied
with the byte behind it, `CopyLength`, and ends in the heap if that is not a zero
(`Copied`).
`VictronSerial` sends a block token by token (`line` and `place` say which), adds
up its own `sum`, and sends for a checksum any byte that makes it zero. A `frame`
may begin between any two tokens and goes first, token by token. `lose` counts the tokens that are still to be
lost: a gap may begin anywhere and may span a block's end or a frame. What the
charger sends is either received and parsed in the same step or lost.

## Runs

Properties that hold:

| run | question | states |
| --- | --- | --- |
| `control` | What holds for the control whatever the potentiometer reads? (`TypeOK`, `OnlyCommandsPend`, `VerdictOfLastCommand`) For which readings is the reported position a percentage, and for which does it wrap? (`ReportInScale`) | 626 thousand |
| `history` | Are pulses, retries and samples far enough apart and is the debounce real? (`PulseNeverShort`, `RetryNeverEarly`, `SampleNeverEarly`, `UninterruptedDebounce`) Does the relay open in time? (`RelayNotOverdue`) | 1.35 million |
| `garage` | Is every command of a patient user obeyed, the door let go, and SUCCESS true? (`CommandObeyed`, `ControlReleased`, `SuccessIsTrue`) Is an undisturbed door monitored only on its way to the target, and never reported as FAIL? (`Approach`) | 108 thousand |
| `impatient` | What remains with commands and presses on the wall at any moment? Is a monitored door that is turned round let go in time? (`WrongEndNotMonitored`, `Watched`) Is a standing door the only one that is held for ever? (`HeldOnlyWhileStanding`) | 1.6 million |
| `queues` | Do the cores and the connection loop work together? (`NeverBlocks`, `CommandsDelivered`, `DataDelivered`, `AcceptedIsApplied`, `LastDataPublished`, `NodeServed`) | 101 thousand |
| `tcp` | Do the flag, the control block and the two queues stay in step, through partial sends and reads, refused writes, resets and reconnections? (`Usable`, `AvailableIsUnread`, `ReadInOrder`, `SendInOrder`, `WrittenIsGiven`) Is `read` one step of a stream to its caller? (`ReadsAsStream`) | 97 thousand |
| `ntp` | Can replies, the alarm and `sync` come in an order that leaves the client stuck, or the clock off by more than the wraps of the milliseconds make it? (`AlarmGuardsRequest`, `ClockRight`, `ConnectedAgain`) | 1.1 million |
| `victron` | Does a block show in the metrics whatever was lost before it, and with frames? (`IntactBlockShown`, `ChecksumIsZero`) What can the line do to the arrays of the parser, from any memory? (`InBounds`) | 8.7 million |

`Approach` is the inductive invariant from which the proofs below derive
`SuccessIsTrue`, and `Watched` the one from which they derive
`WrongEndNotMonitored`. Their conjuncts `InTime`, `Undisturbed`, `SeenInTime` and
`FewPresses` are the hypotheses of those proofs, so the runs also show that these
are met.

`WrongEndNotMonitored` speaks of the position the control knows, that of its last
sample. The door itself may be at the wrong end earlier: the control compares
samples, and a door that covers more than 13 readings between two samples (with
the thresholds of the code) can be turned round and reach the end between the one
that shows it on its way and the next, which ends the monitoring.

`UninterruptedDebounce` says when the count of START is a debounce: unless a
command interrupted an earlier count. `CommandsDelivered` and `DataDelivered`
say that each queue implements `Mailbox`. `LastDataPublished` shows why `execute`
has to return true for every sample and not only, as its comment says, when "the
door has detected any change": a change that found the queue occupied would never
be published.

`RelayNotOverdue` measures a pulse by a stopwatch, not by the test of the code. A
deadline in the last `LONGEST_TURN` ticks before the wrap is excepted: no turn of the
loop need fall between it and the wrap, and then the relay stays closed for a turn of
the clock (71 minutes), or for ever if the deadline is the last value. It is the same
loss as that of the sampling in `stall`.

`ReportInScale` is an equivalence. The code does not clip: from one hundredth of the
range below it the report is 255 and less, and from one hundredth above it is 101 and
more. It speaks of readings at most a whole range outside, for every calibration that
leaves a range.

`ClockRight` says what the clock is worth, and that it is not what it should be:
`getTime` adds a 32-bit count to an offset that knows nothing of its wrap, so the time
falls back by 49.7 days when the count wraps, until the next good reply, an hour
later at the latest if none is lost. The fraction of a second in a reply is ignored.

`SendInOrder` has two parts. In every pass over the write queue, on every connection
and whatever was acknowledged, cut or refused before, the bytes given to lwIP come
before all that the pass has yet to come to, so each pass gives them in order and
none twice. From one pass to the next it holds, and `WrittenIsGiven` holds at all,
while a connection is *undisturbed*: it
started with an empty write queue, every buffer fitted into the send buffer and
was accepted, and no acknowledgement covered only a part of what was queued.
The premise is what the code needs. Outside of it (every case was met while
modelling):

- a buffer cut short to fit is not remembered as cut, so the acknowledgement of
  its first part frees as much of the rest, which is never sent;
- a partial acknowledgement shortens a buffer at the wrong end, and the head of
  the queue is given again;
- with two buffers given, the acknowledgement of the first gives the second
  again;
- a refused buffer (ERR_MEM) is followed by the next one;
- a queue that survives a lost connection is not offered to the next one: a new
  write waits behind it for an acknowledgement that does not come.

Bytes received on one connection and not read are read on the next
(`ReadInOrder` and `ReadsAsStream` count across connections). `ReadsAsStream` is a
refinement: the loop of `read`, the queue of segments and the counter, which is
lowered only when the loop has ended, implement `ByteStream`, where a read is one
step that takes as many bytes as were asked for, or all there are. The stream has
returned what was copied without what a loop that still runs has copied so far
(`Returned`).

`IntactBlockShown` needs two whole blocks in a row: one is not enough, since
entries left in the queue by a block that was cut off are handled last and win
over those of the next block. Its frames are those where a label should begin; a
frame anywhere else spoils its block, and the next two whole blocks show again. The
memory at the start is `Sane`: without that premise the property is false, since a
parser that starts in a state it does not know is dead for ever (see below).
The checksum is compared nowhere (the comparison is commented out);
`ChecksumIsZero` says it could be, except for blocks with a frame and those
whose checksum byte is CR, which ends the line before it is counted. Shown wrong
even for intact blocks: the serial number (FIRMWARE falls through to
SERIAL_NUMBER) and day sequences above 127 (read through an `int8_t`).

Disagreements between the code and what its comments say, each a run that ends
in a counterexample:

| run | what happens |
| --- | --- |
| `stall` | A sampling deadline of 0xFFFFFFFF never elapses, since `now > stamp` is never true: `door_control_execute` returns 0 for ever. (A deadline a few ticks lower is missed for 71 minutes if no turn of the loop falls between it and the wrap.) The chance per wrap is small and the wrap comes every 71.6 minutes. |
| `stopped` | Somebody presses the button on the wall while the door is monitored. The door stands, its mean movement is 0 or -1, no branch of MONITOR applies, and the control never lets go, although the comment of that case says it stops "if unexpected behaviour occurs (e.g. door unexpectably stops)". A command repeated while START counts ends the same way: the second press stops the door, and the stale count lets a last moving sample through. |
| `success` | The door has just left an end and a command asks for that end: the position is still within `DOOR_THRESHOLD`, the result is SUCCESS, the control lets go, and the door runs to the other end. |
| `resend` | The alarm "in case udp requests are lost" ends the attempt like a reply: the next one is a whole period (an hour) away, and until then `synced()` is true. A device whose first request is lost publishes time stamps since power-up. |

Six more behaviours met on the way are not filed as disagreements. A command
while START counts leaves `stablize_count` where it was, and one moving sample
of the next START is then enough to monitor the door. A command that reverses a
monitored door is taken for unexpected movement; the control reports FAIL and
lets go. And `setupUart` says "Turn off FIFO's" above the call that enables
them, which the shed needs, since it reads the line only every few
milliseconds. The other three are the parser's, and its model takes them as the code
has them:

- The constructor does not set `state`, nor the indices, and the parser is a local
  variable. From a value that `parse` does not know no byte ever leads to another
  state, and no block is shown; from a negative index memory before the array is
  written. The properties of the parser say what holds from memory that is `Sane`,
  and of the queue what holds from any.
- Only LABEL looks for the colon of a binary frame. One that begins after a value,
  before its CR, becomes a part of the value, and spoils a number, a text or the label
  that follows. `whole` is FALSE for such a block.
- A text is copied with `fieldIndex + 1` bytes, the value and the zero behind it. A
  value of `MAX_FIELD_LENGTH` characters is accepted and fills `fieldData`, so that the
  byte behind the array is copied and the text has no end of its own (`Copied`).

### Bounds, and why they are enough

- *Clock.* `TIME_MOD` is 8 to 64 instead of 2^32, longer than the
  longest delay (twice as long but in `impatient`), so that the wrap falls between any two events of a pulse, a sample and
  a retry.
- *Delays* keep their order: sample < relay < command. In `garage` and
  `impatient` a turn takes two ticks, the clock is odd and the deadlines are
  even, so that a turn falls between every deadline and the wrap: the hazard of
  the wrap is the subject of `history` and `stall`, and would only hide what
  these runs are about. The clock still wraps.
- *Readings.* The potentiometer jumps between two places in `control`, and
  between the ends, the middle and just below the range in `history`, at every
  sample; `control` uses narrow counters, so that the mean and the count
  overflow, commands both inside and at an end of the range, and calibrates
  either end anywhere.
- *Door.* It moves 4 positions per sample (2 per tick) over 60, with a
  `DELTA_THRESHOLD` of 2 and a `DOOR_THRESHOLD` of 17, which is more than the
  door covers while START counts. The code relies on the same relation: with a
  threshold below that distance a door near its target runs past it before it is
  monitored. Two samples end START and three end STOP instead of 5 and 8. In
  `garage` samples of a moving door are at most two ticks apart (`MAX_GAP`), and the
  pulse of the relay, three ticks, is over before START has counted, as it is in the
  code (100 ms, and 5 samples of 35 ms). In `impatient` the door is twice as fast
  and `DELTA_THRESHOLD` is 5, the least that leaves room for two presses.
- *User.* Three commands in `garage`, to both ends and the middle: the first
  finds the opener in either direction, the second starts from wherever the
  first ended, the third from a door that may have been stopped and restarted.
  In `impatient` two commands, and two presses on the wall before the first, between
  the two and after the second: a command can interrupt any state another one
  caused, one press stops a door and two turn it round.
- *Queues.* Three commands, so that one is applied, one queued and one dropped;
  three data, so that one is published, one queued and one missed; two retries.
- *TCP.* A send buffer of three bytes holds a long and a short buffer, or three
  short ones, and cuts a second long one; four bytes written and three received
  make every partial send, acknowledgement and read; the second of two
  connections may find both queues of the first occupied.
- *NTP.* Two servers, so that a reply of the one asked before meets a request to
  the other; a request is under way for any time and a reply for as long as the
  period and more, so that replies to one attempt meet later ones. A second has two
  units; milliseconds and NTP seconds wrap at 4, so that either wraps between any two
  events; up to two wraps of the milliseconds are counted between good replies.
- *Victron.* Four lines and the checksum make a block, the queue holds five
  entries as the real one holds a little more than a block (22), labels are two
  halves and values up to three tokens. Two disturbances, gaps, or frames between any
  two tokens: one
  cuts off a block and one its successor, or the line after it. Two gaps of one
  token take the CR and LF between two lines, a gap of eleven a line and the
  checksum, or more. The memory at the start holds a number in every array, which may
  be full of it, an index in or before the array, and any state. Sums modulo 3, with
  two readings that need different last bytes; the byte may be LF, CR or neither.

Deadlock is checked in every run; no component stops.

### Fairness

- The loop of core 1 never stops polling (`WF` of the turn). It has no exit, and
  `NeverBlocks` shows that it never waits in a queue.
- `queues` adds `WF` of core 0, whose loop has no exit either, and `SF` of a
  sample: the clock lets `execute` take one again and again. The run `stall` shows
  the one exception.
- `tcp`: the loops of the client run to their end (`WF`), and lwIP goes on to
  acknowledge what it holds until the connection is lost (`SF`, since calls of
  the client come in between): TCP retransmits, and the program polls lwIP for
  ever. Nothing is assumed of connecting, writing or reading.
- `ntp`: time passes, the alarm of the hardware interrupts, and the loop calls
  `sync` for ever (`WF` of each). Nothing is assumed of the resolver, the
  servers or the network.
- Nothing is assumed of the user, the button on the wall, the network or the node.
  `LastDataPublished` and `NodeServed` have as a premise that link and node stay
  up from some time on.

## Theorems

TLAPS proves, for every value of the constants that satisfies the named
assumptions:

| theorem | establishes |
| --- | --- |
| `DoorControlProofs!TypeCorrect` | `TypeOK`: every field keeps its C type |
| `DoorControlProofs!CommandsPend` | `OnlyCommandsPend` |
| `DoorControlProofs!MonitorCounted` | `MonitorAfterCount` |
| `DoorControlProofs!VerdictsAreFresh` | `VerdictOfLastCommand` |
| `DoorControlProofs!ReportsInScale` | `ReportInScale`, for every calibration |
| `DoorHistoryProofs!PulsesNeverShort` | `PulseNeverShort` |
| `DoorHistoryProofs!RelayReleased` | `RelayNotOverdue` |
| `DoorHistoryProofs!RetriesNeverEarly` | `RetryNeverEarly` |
| `DoorHistoryProofs!SamplesNeverEarly` | `SampleNeverEarly` |
| `DoorHistoryProofs!DebounceCounts` | `UninterruptedDebounce` |
| `GarageDoorProofs!GarageIsControl` | `GarageDoor` implements `DoorControl` |
| `GarageDoorProofs!GarageTyped` | `GTypeOK`: also, the door stays between its ends |
| `GarageDoorProofs!DoorApproaches` | `Approach` of an undisturbed door, if no deadline is lost |
| `GarageDoorProofs!SuccessesAreTrue` | `SuccessIsTrue` of an undisturbed door, if no deadline is lost |
| `GarageDoorProofs!NeverAlarmed` | `NoFalseAlarm` of an undisturbed door, if no deadline is lost |
| `GarageDoorProofs!DoorWatched` | `Watched`, whatever is commanded, for a bounded number of presses on the wall per command, if samples come in time |
| `GarageDoorProofs!WrongEndsNotMonitored` | `WrongEndNotMonitored`, under the same conditions |
| `DoorQueuesProofs!QueuesTyped` | `TypeOK` |
| `DoorQueuesProofs!CoresNeverBlock` | `NeverBlocks` |
| `DoorQueuesProofs!CommandQueueIsMailbox` | `CommandsDelivered` |
| `DoorQueuesProofs!DataQueueIsMailbox` | `DataDelivered` |
| `TcpClientProofs!Typing` | `TypeOK`, with the capacity of lwIP |
| `TcpClientProofs!AlwaysUsable` | `Usable` |
| `TcpClientProofs!AvailableExact` | `AvailableIsUnread` |
| `TcpClientProofs!ReadsInOrder` | `ReadInOrder` |
| `TcpClientProofs!ReadsTheStream` | `ReadsAsStream`: the receiving side implements `ByteStream` |
| `TcpClientProofs!SendsInOrder` | `SendInOrder`: of every pass, and across passes if undisturbed |
| `NtpClientProofs!NtpTyping` | `TypeOK` |
| `NtpClientProofs!RequestsGuarded` | `AlarmGuardsRequest` |
| `NtpClientProofs!ClockIsRight` | `ClockRight` |
| `VictronParserProofs!AlwaysInBounds` | `InBounds`, for any input and any memory |
| `VictronSerialProofs!SerialIsParser` | `VictronSerial` implements the parser on any input |
| `VictronSerialProofs!SerialInBounds` | `InBounds`, on the serial line |
| `VictronSerialProofs!BlockShown` | `IntactBlockShown`, from sane memory |
| `VictronSerialProofs!ChecksumsAreZero` | `ChecksumIsZero`, from sane memory |

*Door control.* Assumed: widths positive and even where signed, thresholds and
delays natural numbers, counts within their width, readings within 16 bits,
commands within 8. The invariants of behaviour are proved as one conjunction
(`Invariance`); none of them is inductive alone. That FAIL is only reported by an idle control needs that only commands
wait: otherwise a decision of an earlier call could follow. Lemmas state once
what `UAdd`, `Signed`, `NewMean` and `LinearMap % 2^w` return, that `Sample` and
`Settle` keep types. `ReportInScale` is arithmetic: `AbovePercentage` and
`BelowPercentage` say what the division towards zero and the cut to 8 bits make of a
reading on either side of `position_min`.

*Stopwatch.* The clock is tied to the history (`Tied` in `HInv`): as long as the
stopwatch of a press or a sample has not saturated, the clock is the deadline
minus the delay plus the age, modulo its width. The cases (deadline and clock
before or after the wrap) then decide the four theorems. For `RelayNotOverdue` it
takes a turn that falls between a deadline and the wrap (`NoDeadlineMissed`): turns
are at most `LONGEST_TURN` ticks long, which the clock must hold beside a pulse
(`TurnAssumption`). The stopwatch must
saturate before it comes round (`AGE_CAP < TIME_MOD`), which is an assumption
about the history only.

*Debounce.* `Counted`: unless a command interrupted a count, START either began
with a count of 0 and has seen no moving sample, or what is left of the count and
the moving samples together reach `STABLIZE_COUNT_MAX`; the states that do not
count keep a count that is 0 or long enough (`RunDown`). A count of 0 wraps to the greatest value,
which is long enough too. One assumption is needed beyond the widths: a standing
door is counted at least as long as a moving one (`CountOrderAssumption`, 8 and 5
samples in the code), because STOP hands its count to the next START.

*Garage door.* Every turn of the door is an `Execute` with the position of the
door as the reading, which lies in `ADC` because the limit switches keep the door
between its ends; a press on the wall is a stutter of the control. So
`GSpec => Spec`, and every theorem about `DoorControl` is one about the door.

*Approach of the door.* `DoorApproaches`, `SuccessesAreTrue` and `NeverAlarmed` have
the form `GSpec /\ [](InTime /\ Undisturbed) => []P`. `Undisturbed` says that the
user waits until the door rests and that nobody presses the button on the wall (the
runs `success` and `stopped` show what happens otherwise). `InTime` says that turns of the loop that find
the door moving are at most `MAX_GAP` after the last sample and that the relay is let
go when its time is over. The code does not guarantee it: a deadline just below the
wrap can be lost (run `stall`), and then the door runs on unobserved. The other
assumptions are on the constants and named in `GarageApproach`:

- a command is a percentage (`PercentAssumption`);
- the ends of the door are within `DOOR_THRESHOLD` of the range, and targets inside
  the range are more than two samples of travel from the ends of the door
  (`CalibratedAssumption`);
- what the door covers in a sample (`REACH`) is at most twice `DELTA_THRESHOLD` and
  less than half of `DOOR_THRESHOLD`, and fits the widths (`SlowAssumption`);
- the relay opens before START can have counted, and the clock is wide enough for
  both (`PaceAssumption`);
- a moving door covers more than one reading in a sample (`NoCreepAssumption`; only
  the disturbed door below needs it).

The constants of the code meet them, in ticks of 3.5 ms (`DOOR_SAMPLE_RATE` 10,
`RELAY_DELAY` 29, count 5, thresholds 8 and 90), for a door that covers up to 16
readings of the potentiometer between two samples, and targets more than 32 from
the ends; a door of 17 is too fast for `DELTA_THRESHOLD`.

The argument: since the last sample the door has made one movement, in the direction
it moved last (`OneMovement`), so after the first sample in START a mean beyond the
threshold tells the true direction, whatever was left in it (`MeanIsTrue`).
START therefore lets a door through only when it moves towards the target, and by
then the relay is open (`PulseBeforeCount`: each sample that was counted took more
than `DOOR_SAMPLE_RATE` ticks), so that the press at the target is a new edge and
stops the door. A monitored door is less than a sample's travel past the target when
it is last looked at (`WhileMonitored`), and less than two when it stops, which is
below `DOOR_THRESHOLD` (`AfterSuccess`). A door that is sent to an end is on this
side of it or on its way there (`ThisSide`); the control lets go near the end, and
the door goes on to it. MONITOR's branch for unexpected movement is never taken
(`NoFalseAlarm`): the position and the mean of a monitored door never point away from
each other before the door is at its target, since samples of a rising door keep
the mean at 0 or below and samples of a falling one, rounded down, at 0 or above.

*A disturbed door.* `DoorWatched` and `WrongEndsNotMonitored` have the form
`GSpec /\ [](SeenInTime /\ FewPresses) => []P`, with the same assumptions on the
constants. Nothing is assumed of the user: commands come in any state, and the
first press may move the door either way. `SeenInTime` says that wherever a turn of
the loop finds the door, it is within `REACH` of the last sample; `FewPresses`, that
the button on the wall was pressed fewer than `DELTA_THRESHOLD - 2` times since the
last command (at most 5 times, with the threshold of the code). The argument, for a
door on its way up:

- A mean has been earned: it is half of what the mean was and half of the way of
  the last sample, so the door has come a way of twice its size (`MeanIsEarned`).
  START lets a door through with a mean beyond the threshold, hence farther than
  the threshold from the end it comes from: its position and its mean together,
  `Margin`, are that far from the end.
- As long as the mean keeps its sign, no sample lowers the margin: what the door
  loses in position, the mean loses twice, and a mean of the other sign makes
  `MonitorWrongWay` let go.
- But the mean is rounded down, so a door that turns to go down can lose one
  position with a mean of 0. It loses it once: a door that goes on down covers two
  positions or more until the next sample (`NoCreepAssumption`), which the mean
  shows (`WillBeSeen`). To lose another position it has to be pressed again. So the
  margin is at most one position lower than at the start for every press
  (`WatchedUp`), and the end is not reached while the presses are few.
- A door on its way down loses nothing by rounding (`WatchedDown`).

A monitored door has not run far past its target either, so the only end a sample
finds it at is the one it was sent to. Without the bound the property fails: a door
that is pressed again after every sample creeps to the wrong end unseen.

*Queues.* The inductive invariant adds to the types and to `NeverBlocks` the
order of the numbers: the command applied last is not newer than the one queued,
which is not newer than the last that arrived, and likewise for metrics, queued
data and current data. Each step of the two cores is then a `Put`, a `Take` or a
stutter of `Mailbox`.

*TCP client.* Both queues are `Contiguous`: each buffer starts where the one
before it ends. Lemmas say what `Append`, `Tail` and cutting the first buffer
make of a contiguous queue. The receive queue is contiguous at all times and
covers exactly the bytes received and not read (`ReadCovered`). So the loop of `read`
copies, turn by turn, what it takes off its rest, and ends with no rest
(`Reading`); with what the request came to (`Asked`) the end of the loop is the read
of `ByteStream`, an arriving segment its arrival, and everything else a stutter. For the write
queue the invariant speaks of an undisturbed connection: the bytes in flight are
those at the head of the queue, and the next byte to give is at the cursor
(`InFlightAtHead`), so the next `tcp_write` continues the stream. Of every connection
it says that positions ascend in the queue (`QueueAscends`), also when buffers were
shortened at the wrong end: so whatever a pass gives comes before the rest of it.

*NTP client.* `AlarmGuardsRequest` is inductive with the types. `ClockRight`
follows from what the clock is behind, less the wraps that are counted. It does not
change with time: the true time and the milliseconds advance together, and a wrap of
these is counted. When a reply is taken it is the age of the reply and the fraction
of a second that the stamp leaves out, and replies on their way are at most
`MAX_TRANSIT` old (`RepliesFresh`). All of it is arithmetic modulo `ERA`, in lemmas of
their own.

*Parser.* `InBounds` is inductive with the type of an entry: every action either
resets an index or tests it before it writes (`SaneNext`), which keeps sane memory
sane; `Queue` makes room for an entry from any memory.

*Serial line.* The invariant `SInv` says where the parser is for each place of the
line that is sent, in a block that has arrived whole so far. A first whole block may
meet the parser in the middle of anything (`Adrift`): its first CR and LF may end up
in a label, its first label may be dropped. But the value of its first line ends
with a CR that sends every state to IDLE, so that from the second LF on the parser
is in step (`InStep`), and a block after a whole one is in step from its first
token. From the second whole block on the queue holds the entries of exactly the
lines that have ended (`QueueExact`): the checksum of the block before emptied it.
`Collected` says what such a queue is, in both directions, and that firmware comes
before serial number; `CollectedNext` adds a line to it, and `CollectedShown` is what
`processFields` makes of it (the oldest of several entries of a metric exists by
well-foundedness of the naturals, `Oldest`). That the numbers survive their casts is
`NumberFits`. `SumsAgree` ties the parser's checksum to the charger's sum. Nothing is
claimed once a block has a gap, or a frame elsewhere than before a label (`whole`),
nor from memory that was not sane. In step, an index is behind the last token of its
array (`Follows`), so that a text is copied with the zero behind it.

Assumed of the charger: labels and values have no control characters, a block and its
checksum fit into the queue (`MAX_FIELDS_COUNT`, as its comment has it), firmware is
sent before serial number, numbers are in the range the protocol gives them, and a
frame begins with a colon and has one LF, at its end. Labels, readings, frames, gaps,
weights of the bytes, the modulus and the arrays at the start are otherwise arbitrary.
A value has room for the zero behind it (`LinesAssumption`).

The proofs rest on nothing but the named assumptions of the modules, which TLC
evaluates in the runs.

## Only model-checked

- Liveness (`CommandObeyed`, `ControlReleased`, `HeldOnlyWhileStanding`,
  `AcceptedIsApplied`, `LastDataPublished`, `NodeServed`, `WrittenIsGiven`,
  `ConnectedAgain`): fairness and ENABLED are out of the prover's reach.
- That samples come in time (`InTime`, `SeenInTime`), which the code does not
  guarantee: a deadline can be lost at the wrap. They hold in every state of
  `garage` and of `impatient`, and are hypotheses of the theorems.

## Not modelled

- The Sparkplug library, lwIP and the SDK: external, represented by the events
  the code in this repository sees.
- What lwIP does to a control block that it has freed and `onError` closes, and
  allocations that fail (`initializeDataBuffer` does not test them).
- `Shed::sync`: one assignment of the door sensor and of the light in every turn
  of the connection loop, which `NodeLoop` models. The light follows the door
  only while the node is active.
- What a write outside the arrays does to anything but the parser, and numbers read
  from a value that has no zero behind it.
- A command above 100, which asks for a position beyond the range, and a
  calibration that empties the range (a division by zero in
  `door_control_get`). No project calls the calibration functions.
- `lwipopts.h`, `enum.h`, build files.

## Order of work

1. Door control, door, queues, connection loop; their invariants and the mailbox
   refinement proved.
2. The stopwatch and the debounce of the door control proved, so that every
   property of `control` and `history` is a theorem; the garage door proved to
   implement the control.
3. TCP client, then NTP and Sparkplug client, with their proofs.
4. Parser and serial line; the bounds of the parser proved.
5. The serial line proved: what a whole block shows, and its checksum.
6. The approach of the door proved: SUCCESS is true and FAIL never reported of an
   undisturbed door.
7. The door that is turned round proved: it is let go before a sample finds it at
   the wrong end.
8. The receiving side of the TCP client shown, and proved, to implement an abstract
   stream.
9. The wraps of the relay's deadline and of the milliseconds, passes over a disturbed
   write queue, unset memory and frames inside a line: modelled as the code has them,
   and the theorems restated for them.

Left: an abstract specification of the synchronised clock for `NtpClient` to
implement; the sending side as a stream, outside of an undisturbed connection, once
the code keeps what it has cut.
