------------------------------ MODULE TcpClient ------------------------------
(***************************************************************************)
(* lib/tcp_client/PicoTcpClient.cpp: a client with a queue of buffers to   *)
(* write and a queue of buffers received, above the raw interface of lwIP. *)
(*                                                                         *)
(* Bytes are numbered in the order they are written (received); a buffer   *)
(* is the number of its first byte that is left and how many are left, so  *)
(* position += n adds n to the number.  The loops of writeDataBuffer, sent *)
(* and read take one step per iteration; nothing interleaves with them:    *)
(* the build polls lwIP, whose callbacks run only between two calls.       *)
(*                                                                         *)
(* lwIP (external) accepts at most SND_BUF bytes not yet acknowledged, and *)
(* may refuse a tcp_write for want of memory.  isConfigured, isConnecting, *)
(* waitingReply and receivedData are written and never read.               *)
(***************************************************************************)
EXTENDS Integers, Sequences

CONSTANTS
    SND_BUF,            \* TCP_SND_BUF
    LENGTHS,            \* lengths of the buffers that are written
    SEGMENTS,           \* lengths of the segments that are received
    READS,              \* lengths that are asked of read
    MAX_WRITTEN,        \* bound: bytes written
    MAX_RECEIVED,       \* bound: bytes received
    MAX_CONNECTIONS     \* bound: calls of connect that do something

ASSUME SizesAssumption ==
    /\ SND_BUF \in Nat \ {0}
    /\ LENGTHS \subseteq Nat \ {0} /\ SEGMENTS \subseteq Nat \ {0} /\ READS \subseteq Nat
    /\ MAX_WRITTEN \in Nat /\ MAX_RECEIVED \in Nat /\ MAX_CONNECTIONS \in Nat

VARIABLES
    tcpControlBlock,    \* none, closed, connecting or established
    isConnected,
    writeQueue, receiveQueue,
    availableData,
    pc,                 \* the loop that runs: idle, give, sent or read
    cursor,             \* writeDataBuffer: index of the buffer queue points to
    left,               \* its availableLength; remaining in sent and read
    dataRead,           \* what read will return
    inflight,           \* bytes lwIP holds and the peer has not acknowledged
    connections,
    written, given,     \* numbers of the last byte written, and given to lwIP
    received, copied,   \* numbers of the last byte received, and read
    clean               \* history, see Undisturbed

tcp    == <<tcpControlBlock, isConnected, connections>>
loop   == <<pc, cursor, left, dataRead>>
output == <<writeQueue, inflight, written, given, clean>>
input  == <<receiveQueue, availableData, received, copied>>
vars   == <<tcp, loop, output, input>>

Buffer(position, length) == [position |-> position, length |-> length]

Init ==
    /\ tcpControlBlock = "none" /\ isConnected = FALSE /\ connections = 0
    /\ pc = "idle" /\ cursor = 1 /\ left = 0 /\ dataRead = 0
    /\ writeQueue = <<>> /\ inflight = 0 /\ written = 0 /\ given = 0 /\ clean = FALSE
    /\ receiveQueue = <<>> /\ availableData = 0 /\ received = 0 /\ copied = 0

-----------------------------------------------------------------------------
(* The connection. *)

\* connect(): a control block if there is none, then tcp_connect, which may
\* fail and leave the block closed.  On a block that connects already it
\* returns ERR_ISCONN and nothing changes.
Connect ==
    /\ pc = "idle" /\ ~isConnected /\ connections < MAX_CONNECTIONS
    /\ tcpControlBlock \in {"none", "closed"}
    /\ tcpControlBlock' \in {"connecting", "closed"}
    /\ connections' = connections + 1
    /\ UNCHANGED <<isConnected, loop, output, input>>

\* onConnected(ERR_OK): whatever an earlier connection left in the queues
\* stays there.
OnConnected ==
    /\ pc = "idle" /\ tcpControlBlock = "connecting"
    /\ tcpControlBlock' = "established"
    /\ isConnected' = TRUE
    /\ clean' = (writeQueue = <<>>)
    /\ given' = IF writeQueue = <<>> THEN written ELSE given
    /\ UNCHANGED <<connections, loop, writeQueue, inflight, written, input>>

\* close(): the callbacks are cleared and the block is given up; the queues
\* are not.
Close ==
    /\ tcpControlBlock' = "none"
    /\ inflight' = 0
    /\ clean' = FALSE
    /\ UNCHANGED <<connections, loop, writeQueue, written, given, input>>

\* onError(): a reset, a time-out or a refused connection.
MutOnError ==           \* the flag is not cleared
    /\ pc = "idle" /\ tcpControlBlock \in {"connecting", "established"}
    /\ Close
    /\ UNCHANGED isConnected
OnError ==
    /\ pc = "idle" /\ tcpControlBlock \in {"connecting", "established"}
    /\ Close
    /\ isConnected' = FALSE

\* received() without a buffer: the peer has closed.  tcp_abort calls onError
\* before it returns, with the block already freed; what tcp_close does to a
\* freed block is not modelled.
PeerClosed ==
    /\ pc = "idle" /\ tcpControlBlock = "established"
    /\ Close
    /\ isConnected' = FALSE

\* stop()
Stop ==
    /\ pc = "idle"
    /\ Close
    /\ isConnected' = FALSE

-----------------------------------------------------------------------------
(* Writing. *)

\* Entry of writeDataBuffer(writeQueue): tcp_sndbuf, and the head of the queue.
StartGiving ==
    /\ pc' = "give"
    /\ cursor' = 1
    /\ left' = SND_BUF - inflight'
    /\ UNCHANGED dataRead

\* write(): only an empty queue makes it give anything to lwIP now.  It does
\* not ask for a connection, see CallerWrites.
Write(n) ==
    /\ pc = "idle" /\ written + n <= MAX_WRITTEN
    /\ writeQueue' = Append(writeQueue, Buffer(written + 1, n))
    /\ written' = written + n
    /\ UNCHANGED inflight
    /\ IF writeQueue = <<>> THEN StartGiving ELSE UNCHANGED loop
    /\ UNCHANGED <<tcp, given, clean, input>>

Giving == pc = "give" /\ left > 0 /\ cursor <= Len(writeQueue)

\* tcp_write of the n bytes at position, accepted or refused (ERR_MEM).
TcpWrite(position, n, accepted) ==
    IF accepted
    THEN given' = position + n - 1 /\ inflight' = inflight + n
    ELSE UNCHANGED <<given, inflight>>

\* A buffer that fits.  The loop goes on to the next one, refused or not.
GiveWhole(accepted) ==
    LET buffer == writeQueue[cursor] IN
    /\ Giving /\ left >= buffer.length
    /\ TcpWrite(buffer.position, buffer.length, accepted)
    /\ left' = left - buffer.length
    /\ cursor' = cursor + 1
    /\ clean' = (clean /\ accepted)
    /\ UNCHANGED <<tcp, pc, dataRead, writeQueue, written, input>>

\* A buffer that does not fit is cut short: the part given is no longer in
\* the queue, so its acknowledgement will free as much of the rest.
MutGivePart(accepted) ==    \* the position stays, as in sent
    LET buffer == writeQueue[cursor] IN
    /\ Giving /\ left < buffer.length
    /\ TcpWrite(buffer.position, left, accepted)
    /\ writeQueue' = [writeQueue EXCEPT ![cursor].length = @ - left]
    /\ left' = 0
    /\ clean' = FALSE
    /\ UNCHANGED <<tcp, pc, cursor, dataRead, written, input>>
GivePart(accepted) ==
    LET buffer == writeQueue[cursor] IN
    /\ Giving /\ left < buffer.length
    /\ TcpWrite(buffer.position, left, accepted)
    /\ writeQueue' = [writeQueue EXCEPT ![cursor] =
                          Buffer(buffer.position + left, buffer.length - left)]
    /\ left' = 0
    /\ clean' = FALSE
    /\ UNCHANGED <<tcp, pc, cursor, dataRead, written, input>>

\* tcp_output, or nothing after ERR_MEM.  ERR_CONN cannot happen: see Usable.
GiveEnd ==
    /\ pc = "give" /\ ~Giving
    /\ pc' = "idle"
    /\ UNCHANGED <<tcp, cursor, left, dataRead, output, input>>

\* The peer acknowledges n bytes and lwIP calls sent(n).
Acknowledge(n) ==
    /\ pc = "idle" /\ tcpControlBlock = "established"
    /\ n \in 1 .. inflight
    /\ inflight' = inflight - n
    /\ pc' = "sent"
    /\ left' = n
    /\ UNCHANGED <<tcp, cursor, dataRead, writeQueue, written, given, clean, input>>

Freeing == pc = "sent" /\ left > 0 /\ writeQueue # <<>>

SentWhole ==
    /\ Freeing /\ left >= Head(writeQueue).length
    /\ left' = left - Head(writeQueue).length
    /\ writeQueue' = Tail(writeQueue)
    /\ UNCHANGED <<tcp, pc, cursor, dataRead, inflight, written, given, clean, input>>

\* The length shrinks and the position stays: the wrong end is cut.
SentPart ==
    /\ Freeing /\ left < Head(writeQueue).length
    /\ writeQueue' = [writeQueue EXCEPT ![1] =
                          Buffer(Head(writeQueue).position, Head(writeQueue).length - left)]
    /\ left' = 0
    /\ clean' = FALSE
    /\ UNCHANGED <<tcp, pc, cursor, dataRead, inflight, written, given, input>>

\* What is queued is given from the head, also what lwIP holds already.
MutSentEnd ==           \* the rest of the queue is left to the next write
    /\ pc = "sent" /\ ~Freeing
    /\ pc' = "idle"
    /\ UNCHANGED <<tcp, cursor, left, dataRead, output, input>>
SentEnd ==
    /\ pc = "sent" /\ ~Freeing
    /\ UNCHANGED inflight
    /\ IF writeQueue # <<>>
       THEN StartGiving
       ELSE pc' = "idle" /\ UNCHANGED <<cursor, left, dataRead>>
    /\ clean' = (clean /\ (writeQueue = <<>> \/ inflight = 0))
    /\ UNCHANGED <<tcp, writeQueue, written, given, input>>

-----------------------------------------------------------------------------
(* Reading. *)

\* received() with a buffer of n bytes.
Receive(n) ==
    /\ pc = "idle" /\ tcpControlBlock = "established"
    /\ received + n <= MAX_RECEIVED
    /\ receiveQueue' = Append(receiveQueue, Buffer(received + 1, n))
    /\ received' = received + n
    /\ availableData' = availableData + n
    /\ UNCHANGED <<tcp, loop, output, copied>>

\* read(): also of a client that is not connected any more.
MutRead(n) ==           \* what was asked for is taken to be there
    /\ pc = "idle"
    /\ dataRead' = n
    /\ left' = dataRead'
    /\ pc' = "read"
    /\ UNCHANGED <<tcp, cursor, output, input>>
Read(n) ==
    /\ pc = "idle"
    /\ dataRead' = IF n < availableData THEN n ELSE availableData
    /\ left' = dataRead'
    /\ pc' = "read"
    /\ UNCHANGED <<tcp, cursor, output, input>>

Copying == pc = "read" /\ left > 0 /\ receiveQueue # <<>>

ReadWhole ==
    LET buffer == Head(receiveQueue) IN
    /\ Copying /\ left >= buffer.length
    /\ left' = left - buffer.length
    /\ copied' = buffer.position + buffer.length - 1
    /\ receiveQueue' = Tail(receiveQueue)
    /\ UNCHANGED <<tcp, pc, cursor, dataRead, output, availableData, received>>

MutReadPart ==          \* as sent does it: the position stays
    LET buffer == Head(receiveQueue) IN
    /\ Copying /\ left < buffer.length
    /\ copied' = buffer.position + left - 1
    /\ receiveQueue' = [receiveQueue EXCEPT ![1].length = @ - left]
    /\ left' = 0
    /\ UNCHANGED <<tcp, pc, cursor, dataRead, output, availableData, received>>
ReadPart ==
    LET buffer == Head(receiveQueue) IN
    /\ Copying /\ left < buffer.length
    /\ copied' = buffer.position + left - 1
    /\ receiveQueue' = [receiveQueue EXCEPT ![1] =
                            Buffer(buffer.position + left, buffer.length - left)]
    /\ left' = 0
    /\ UNCHANGED <<tcp, pc, cursor, dataRead, output, availableData, received>>

ReadEnd ==
    /\ pc = "read" /\ ~Copying
    /\ availableData' = availableData - dataRead
    /\ pc' = "idle"
    /\ UNCHANGED <<tcp, cursor, left, dataRead, output, receiveQueue, received, copied>>

-----------------------------------------------------------------------------
\* External: the MQTT client above asks connected() before it writes.
CallerWrites == isConnected /\ \E n \in LENGTHS : Write(n)

Give == \E accepted \in BOOLEAN : GiveWhole(accepted) \/ GivePart(accepted)
Loop == Give \/ GiveEnd \/ SentWhole \/ SentPart \/ SentEnd \/ ReadWhole \/ ReadPart \/ ReadEnd
Ack  == \E n \in 1 .. SND_BUF : Acknowledge(n)

Next ==
    \/ Connect \/ OnConnected \/ OnError \/ PeerClosed \/ Stop
    \/ CallerWrites
    \/ \E n \in SEGMENTS : Receive(n)
    \/ \E n \in READS : Read(n)
    \/ Ack \/ Loop

Spec == Init /\ [][Next]_vars

\* The loops run to their end.  TCP retransmits until the peer acknowledges or
\* the connection is lost, and the program polls lwIP for ever; strong, because
\* calls of the client come between two polls.
FairSpec == Spec /\ WF_vars(Loop) /\ SF_vars(Ack)

-----------------------------------------------------------------------------
\* Buffers q hold exactly the bytes after lo, up to hi, in order, each once.
Contiguous(q, lo, hi) ==
    /\ q = <<>> => lo = hi
    /\ q # <<>> => /\ q[1].position = lo + 1
                   /\ q[Len(q)].position + q[Len(q)].length = hi + 1
    /\ \A i \in 1 .. Len(q) - 1 : q[i + 1].position = q[i].position + q[i].length

Buffers == [position : Nat \ {0}, length : Nat \ {0}]

\* Every variable has its type, and lwIP never holds more than its buffer.
TypeOK ==
    /\ tcpControlBlock \in {"none", "closed", "connecting", "established"}
    /\ isConnected \in BOOLEAN /\ connections \in 0 .. MAX_CONNECTIONS
    /\ writeQueue \in Seq(Buffers) /\ receiveQueue \in Seq(Buffers)
    /\ availableData \in Nat
    /\ pc \in {"idle", "give", "sent", "read"}
    /\ cursor \in Nat \ {0} /\ left \in Nat /\ dataRead \in Nat
    /\ inflight \in 0 .. SND_BUF
    /\ pc = "give" => left <= SND_BUF - inflight
    /\ written \in 0 .. MAX_WRITTEN /\ given \in Nat
    /\ received \in 0 .. MAX_RECEIVED /\ copied \in 0 .. received
    /\ clean \in BOOLEAN

\* connected() is true exactly of an established connection, so tcp_sndbuf and
\* tcp_write are never called without a control block or before it connects by
\* a caller that asks first, through errors, closes by the peer, stop and failed
\* calls of connect; and bytes are in flight only there.
Usable ==
    /\ isConnected <=> tcpControlBlock = "established"
    /\ pc \in {"give", "sent"} \/ inflight > 0 => isConnected

\* available() counts what the receive queue holds, the queue holds the bytes
\* that were received and not read, each once, and read can always copy as
\* many bytes as it will say it did.
AvailableIsUnread ==
    /\ Contiguous(receiveQueue, copied, received)
    /\ availableData = received - copied + (IF pc = "read" THEN dataRead - left ELSE 0)
    /\ pc = "read" /\ receiveQueue = <<>> => left = 0

\* The caller reads the bytes in the order they arrived, none twice and none
\* left out, whatever the lengths of the segments and of the reads, and across
\* connections.
ReadInOrder == [][pc = "read" => copied' = copied + (left - left')]_vars

\* read() is one step for its caller: a loop over segments of any lengths, with
\* a counter that is not lowered before it ends, amounts to taking the next bytes
\* of a stream, as many as were asked for or all there are, also when they came
\* from different connections.
Returned == IF pc = "read" THEN copied - (dataRead - left) ELSE copied
Stream == INSTANCE ByteStream
              WITH arrived <- received, returned <- Returned, available <- availableData
ReadsAsStream == Stream!Spec

\* A pass of writeDataBuffer gives lwIP nothing but bytes that were written, and
\* gives them before all that the pass has yet to come to: in the order they
\* were written and none twice, after whatever refusals, cuts, acknowledgements
\* of parts and lost connections.  Two passes may repeat bytes or leave some out,
\* but not in a connection that is Undisturbed: it started with an empty queue,
\* every buffer given fitted in the send buffer and was accepted, and no
\* acknowledgement covered a part of a buffer, or some of the buffers given while
\* others stay queued.
Undisturbed == clean
SendInOrder ==
    [][pc = "give" =>
          /\ given' <= written
          /\ given' # given => \A i \in cursor' .. Len(writeQueue') : given' < writeQueue'[i].position
          /\ Undisturbed => given' - given = inflight' - inflight]_vars

\* In such a connection whatever is written is given to lwIP in the end.
WrittenIsGiven ==
    \A n \in 1 .. MAX_WRITTEN : written >= n /\ Undisturbed ~> given >= n \/ ~Undisturbed
=============================================================================
