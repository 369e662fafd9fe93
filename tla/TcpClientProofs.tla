--------------------------- MODULE TcpClientProofs ---------------------------
(***************************************************************************)
(* TcpClient keeps the bytes it reads in order, and those that each pass   *)
(* of writeDataBuffer gives to lwIP, for every length of buffers, segments *)
(* and reads and every size of the send buffer.                            *)
(***************************************************************************)
EXTENDS TcpClient, TLAPS

\* The received bytes that the loop of read has not copied are counted by
\* availableData, and cover what is left to copy.
ReadCovered == pc = "read" => left <= dataRead /\ dataRead <= availableData

\* No buffer of q ends after byte hi.
Within(q, hi) == \A i \in 1 .. Len(q) : q[i].position + q[i].length <= hi + 1

\* The buffers of q lie one behind the other, maybe with gaps.
Ascending(q) ==
    \A i, j \in 1 .. Len(q) : i < j => q[i].position + q[i].length <= q[j].position

\* What is queued was written, and in this order, in any connection.
QueueAscends == Ascending(writeQueue) /\ Within(writeQueue, written) /\ given <= written

\* The bytes in flight of an undisturbed connection are at the head of the
\* write queue, followed by those not given yet, the next of which is first in
\* the buffer the loop is at.
Oldest == given - inflight - (IF pc = "sent" THEN left ELSE 0)
InFlightAtHead ==
    clean => /\ Contiguous(writeQueue, Oldest, written)
             /\ pc = "give" /\ cursor <= Len(writeQueue)
                    => writeQueue[cursor].position = given + 1

KInv == TypeOK /\ Usable /\ AvailableIsUnread /\ ReadCovered /\ InFlightAtHead

IInv == KInv /\ QueueAscends

-----------------------------------------------------------------------------
\* What a queue holds are buffers.
LEMMA Element ==
    ASSUME NEW q \in Seq(Buffers), NEW i \in 1 .. Len(q)
    PROVE  /\ q[i] \in Buffers
           /\ q[i].position \in Nat \ {0} /\ q[i].length \in Nat \ {0}
<1>1. q[i] \in Buffers
  OBVIOUS
<1> QED BY <1>1 DEF Buffers

LEMMA HeadElement ==
    ASSUME NEW q \in Seq(Buffers), q # <<>>
    PROVE  /\ 1 \in 1 .. Len(q) /\ Head(q) = q[1] /\ Head(q) \in Buffers
           /\ Head(q).position \in Nat \ {0} /\ Head(q).length \in Nat \ {0}
<1>1. 1 \in 1 .. Len(q) /\ Head(q) = q[1]
  OBVIOUS
<1> QED BY <1>1, Element

\* A buffer that starts after the last byte extends a contiguous queue.
LEMMA ContiguousAppend ==
    ASSUME NEW q \in Seq(Buffers), NEW lo \in Int, NEW hi \in Nat, NEW n \in Nat \ {0},
           Contiguous(q, lo, hi)
    PROVE  /\ Append(q, Buffer(hi + 1, n)) \in Seq(Buffers)
           /\ Contiguous(Append(q, Buffer(hi + 1, n)), lo, hi + n)
<1> DEFINE b == Buffer(hi + 1, n)
           r == Append(q, b)
<1>1. b \in Buffers /\ b.position = hi + 1 /\ b.length = n
  BY DEF Buffer, Buffers
<1>2. r \in Seq(Buffers) /\ Len(r) = Len(q) + 1 /\ r[Len(r)] = b
  BY <1>1
<1>3. \A i \in 1 .. Len(q) : r[i] = q[i]
  BY <1>1
<1>4. r # <<>> /\ (q = <<>> <=> Len(q) = 0) /\ Len(q) \in Nat
  BY <1>2
<1>5. r[1].position = lo + 1
  <2>1. CASE q = <<>>
    BY <2>1, <1>1, <1>2, <1>4 DEF Contiguous
  <2>2. CASE q # <<>>
    BY <2>2, <1>3, <1>4 DEF Contiguous
  <2> QED BY <2>1, <2>2
<1>6. ASSUME NEW i \in 1 .. Len(r) - 1
      PROVE  r[i + 1].position = r[i].position + r[i].length
  <2>1. CASE i = Len(q)
    BY <2>1, <1>1, <1>2, <1>3, <1>4 DEF Contiguous
  <2>2. CASE i < Len(q)
    BY <2>2, <1>2, <1>3, <1>4 DEF Contiguous
  <2> QED BY <2>1, <2>2, <1>2, <1>4
<1>7. r[Len(r)].position + r[Len(r)].length = (hi + n) + 1
  BY <1>1, <1>2
<1> HIDE DEF r, b
<1>8. Contiguous(r, lo, hi + n)
  BY <1>4, <1>5, <1>6, <1>7 DEF Contiguous
<1> QED BY <1>2, <1>8 DEF r, b

\* Without its head a contiguous queue starts after the head's last byte.
LEMMA ContiguousTail ==
    ASSUME NEW q \in Seq(Buffers), NEW lo \in Int, NEW hi \in Nat,
           Contiguous(q, lo, hi), q # <<>>
    PROVE  /\ Tail(q) \in Seq(Buffers)
           /\ Head(q) \in Buffers
           /\ Head(q).position = lo + 1
           /\ Contiguous(Tail(q), lo + Head(q).length, hi)
<1>1. /\ Tail(q) \in Seq(Buffers) /\ Len(Tail(q)) = Len(q) - 1
      /\ Head(q) = q[1] /\ Len(q) \in Nat \ {0}
      /\ \A i \in 1 .. Len(q) : q[i] \in Buffers
      /\ \A i \in 1 .. Len(Tail(q)) : Tail(q)[i] = q[i + 1]
      /\ q[1].position = lo + 1 /\ q[Len(q)].position + q[Len(q)].length = hi + 1
  BY DEF Contiguous
<1>2. /\ Head(q) \in Buffers /\ Head(q).position = lo + 1 /\ Head(q).length \in Nat
  BY <1>1 DEF Contiguous, Buffers
<1>3. Tail(q) = <<>> => lo + Head(q).length = hi
  <2> SUFFICES ASSUME Tail(q) = <<>> PROVE lo + Head(q).length = hi
    OBVIOUS
  <2>0. Len(<<>>) = 0
    OBVIOUS
  <2>1. Len(Tail(q)) = 0
    BY <2>0, Zenon
  <2>2. Len(q) = 1
    BY <2>1, <1>1
  <2>3. q[1].position + q[1].length = hi + 1
    BY <2>2, <1>1
  <2>4. (lo + 1) + Head(q).length = hi + 1
    BY <2>3, <1>1
  <2> QED BY <2>4, <1>2
<1>4. ASSUME Tail(q) # <<>>
      PROVE  /\ Tail(q)[1].position = lo + Head(q).length + 1
             /\ Tail(q)[Len(Tail(q))].position + Tail(q)[Len(Tail(q))].length = hi + 1
  <2>1. Len(q) > 1
    BY <1>1, <1>4
  <2>2. Tail(q)[1] = q[2] /\ Tail(q)[Len(Tail(q))] = q[Len(q)]
    BY <1>1, <2>1
  <2>3. q[2].position = q[1].position + q[1].length
    BY <1>1, <2>1 DEF Contiguous
  <2>4. Tail(q)[1].position = (lo + 1) + Head(q).length
    BY <1>1, <2>2, <2>3
  <2>5. (lo + 1) + Head(q).length = lo + Head(q).length + 1
    BY SMTT(30), <1>2
  <2> QED BY <1>1, <2>2, <2>4, <2>5
<1>5. \A i \in 1 .. Len(Tail(q)) - 1 :
          Tail(q)[i + 1].position = Tail(q)[i].position + Tail(q)[i].length
  <2> TAKE i \in 1 .. Len(Tail(q)) - 1
  <2>1. Tail(q)[i] = q[i + 1] /\ Tail(q)[i + 1] = q[i + 2] /\ i + 1 \in 1 .. Len(q) - 1
    BY <1>1
  <2>2. q[(i + 1) + 1].position = q[i + 1].position + q[i + 1].length
    BY <2>1 DEF Contiguous
  <2> QED BY <2>1, <2>2
<1> QED BY <1>1, <1>2, <1>3, <1>4, <1>5 DEF Contiguous

\* A head that loses its first bytes leaves the queue contiguous after them.
LEMMA ContiguousCut ==
    ASSUME NEW q \in Seq(Buffers), NEW lo \in Int, NEW hi \in Nat,
           Contiguous(q, lo, hi), q # <<>>,
           NEW n \in Nat \ {0}, n < Head(q).length
    PROVE  LET r == [q EXCEPT ![1] = Buffer(Head(q).position + n, Head(q).length - n)]
           IN  r \in Seq(Buffers) /\ Contiguous(r, lo + n, hi)
<1> DEFINE b == Buffer(Head(q).position + n, Head(q).length - n)
           r == [q EXCEPT ![1] = b]
<1>1. /\ Head(q) = q[1] /\ Len(q) \in Nat \ {0} /\ q \in [1 .. Len(q) -> Buffers]
      /\ \A i \in 1 .. Len(q) : q[i] \in Buffers
      /\ q[1].position = lo + 1 /\ q[Len(q)].position + q[Len(q)].length = hi + 1
  BY DEF Contiguous
<1>2. /\ b \in Buffers /\ b.position = q[1].position + n /\ b.length = q[1].length - n
      /\ q[1].position \in Nat /\ q[1].length \in Nat
  <2>1. q[1] \in Buffers
    BY <1>1
  <2>2. /\ q[1].position \in Nat \ {0} /\ q[1].length \in Nat \ {0}
        /\ n < q[1].length
    BY <2>1, <1>1 DEF Buffers
  <2>3. q[1].position + n \in Nat \ {0} /\ q[1].length - n \in Nat \ {0}
    BY SMTT(30), <2>2
  <2> QED BY <2>2, <2>3, <1>1 DEF Buffer, Buffers
<1>3. /\ r \in Seq(Buffers) /\ Len(r) = Len(q) /\ r[1] = b /\ r # <<>>
      /\ \A i \in 2 .. Len(q) : r[i] = q[i]
  BY <1>1, <1>2
<1> HIDE DEF b, r
<1>4. r[1].position = lo + n + 1
  BY <1>1, <1>2, <1>3
<1>5. r[Len(r)].position + r[Len(r)].length = hi + 1
  <2>1. CASE Len(q) = 1
    <3>1. q[1].position + q[1].length = hi + 1
      BY <2>1, <1>1
    <3> QED BY SMTT(30), <2>1, <3>1, <1>2, <1>3
  <2>2. CASE Len(q) > 1
    BY <2>2, <1>1, <1>3
  <2> QED BY <2>1, <2>2, <1>1
<1>6. \A i \in 1 .. Len(r) - 1 : r[i + 1].position = r[i].position + r[i].length
  <2> TAKE i \in 1 .. Len(r) - 1
  <2>0. i + 1 \in 2 .. Len(q) /\ q[i + 1].position = q[i].position + q[i].length
    BY <1>1, <1>3 DEF Contiguous
  <2>1. CASE i = 1
    <3>1. r[2] = q[2] /\ q[2].position = q[1].position + q[1].length
      BY <2>0, <2>1, <1>3
    <3>2. q[1].position + q[1].length = (q[1].position + n) + (q[1].length - n)
      BY SMTT(30), <1>2
    <3> QED BY <2>1, <3>1, <3>2, <1>2, <1>3
  <2>2. CASE i # 1
    BY <2>0, <2>2, <1>3
  <2> QED BY <2>1, <2>2
<1>7. Contiguous(r, lo + n, hi)
  BY <1>3, <1>4, <1>5, <1>6 DEF Contiguous
<1> QED BY <1>3, <1>7 DEF b, r

\* A buffer of bytes written later may follow.
LEMMA AscendingAppend ==
    ASSUME NEW q \in Seq(Buffers), NEW hi \in Nat, NEW n \in Nat \ {0},
           Ascending(q), Within(q, hi)
    PROVE  /\ Ascending(Append(q, Buffer(hi + 1, n)))
           /\ Within(Append(q, Buffer(hi + 1, n)), hi + n)
<1> DEFINE b == Buffer(hi + 1, n)
           r == Append(q, b)
<1>1. /\ b.position = hi + 1 /\ b.length = n
      /\ Len(r) = Len(q) + 1 /\ Len(q) \in Nat /\ r[Len(q) + 1] = b
      /\ \A i \in 1 .. Len(q) : r[i] = q[i]
  BY DEF Buffer
<1>2. \A i \in 1 .. Len(q) : /\ q[i].position \in Nat /\ q[i].length \in Nat
                             /\ q[i].position + q[i].length <= hi + 1
  BY Element DEF Within
<1> HIDE DEF b, r
<1>3. ASSUME NEW i \in 1 .. Len(r), NEW j \in 1 .. Len(r), i < j
      PROVE  r[i].position + r[i].length <= r[j].position
  <2>1. i \in 1 .. Len(q)
    BY <1>1, <1>3
  <2>2. CASE j = Len(q) + 1
    BY <1>1, <1>2, <2>1, <2>2
  <2>3. CASE j \in 1 .. Len(q)
    BY <1>1, <1>3, <2>1, <2>3 DEF Ascending
  <2> QED BY <1>1, <2>2, <2>3
<1>4. ASSUME NEW i \in 1 .. Len(r)
      PROVE  r[i].position + r[i].length <= (hi + n) + 1
  <2>1. CASE i = Len(q) + 1
    BY <1>1, <2>1
  <2>2. CASE i \in 1 .. Len(q)
    <3>1. /\ r[i] = q[i] /\ q[i].position \in Nat /\ q[i].length \in Nat
          /\ q[i].position + q[i].length <= hi + 1
      BY <1>1, <1>2, <2>2
    <3>2. q[i].position + q[i].length <= (hi + n) + 1
      BY <3>1
    <3> QED BY <3>1, <3>2
  <2> QED BY <1>1, <2>1, <2>2
<1> QED BY <1>3, <1>4 DEF Ascending, Within, b, r

LEMMA AscendingTail ==
    ASSUME NEW q \in Seq(Buffers), NEW hi \in Nat, q # <<>>, Ascending(q), Within(q, hi)
    PROVE  Ascending(Tail(q)) /\ Within(Tail(q), hi)
<1>1. \A i \in 1 .. Len(Tail(q)) : Tail(q)[i] = q[i + 1] /\ i + 1 \in 1 .. Len(q)
  OBVIOUS
<1>2. \A i, j \in 1 .. Len(Tail(q)) : i < j => i + 1 < j + 1
  OBVIOUS
<1> QED BY <1>1, <1>2 DEF Ascending, Within

\* A buffer may shrink, at either end.
LEMMA AscendingShrink ==
    ASSUME NEW q \in Seq(Buffers), NEW hi \in Nat, Ascending(q), Within(q, hi),
           NEW k \in 1 .. Len(q), NEW b \in Buffers,
           q[k].position <= b.position,
           b.position + b.length <= q[k].position + q[k].length
    PROVE  Ascending([q EXCEPT ![k] = b]) /\ Within([q EXCEPT ![k] = b], hi)
<1> DEFINE r == [q EXCEPT ![k] = b]
<1>1. /\ Len(r) = Len(q) /\ Len(q) \in Nat /\ r[k] = b
      /\ \A i \in 1 .. Len(q) : i # k => r[i] = q[i]
  OBVIOUS
<1>2. /\ \A i \in 1 .. Len(q) : /\ q[i].position \in Nat /\ q[i].length \in Nat
                                /\ q[i].position + q[i].length <= hi + 1
      /\ b.position \in Nat /\ b.length \in Nat
  BY Element DEF Within, Buffers
<1> HIDE DEF r
<1>3. ASSUME NEW i \in 1 .. Len(r), NEW j \in 1 .. Len(r), i < j
      PROVE  r[i].position + r[i].length <= r[j].position
  <2>1. /\ i \in 1 .. Len(q) /\ j \in 1 .. Len(q)
        /\ q[i].position + q[i].length <= q[j].position
    BY <1>1, <1>3 DEF Ascending
  <2>2. r[i].position + r[i].length <= q[i].position + q[i].length
    <3>1. q[i].position \in Nat /\ q[i].length \in Nat
      BY <1>2, <2>1
    <3>2. CASE i = k
      BY <1>1, <3>2
    <3>3. CASE i # k
      <4>1. r[i] = q[i]
        BY <1>1, <2>1, <3>3
      <4>2. q[i].position + q[i].length <= q[i].position + q[i].length
        BY <3>1
      <4> QED BY <4>1, <4>2
    <3> QED BY <3>2, <3>3
  <2>3. q[j].position <= r[j].position
    BY <1>1, <1>2, <2>1
  <2>4. /\ r[i].position \in Nat /\ r[i].length \in Nat /\ r[j].position \in Nat
        /\ q[i].position \in Nat /\ q[i].length \in Nat /\ q[j].position \in Nat
    BY <1>1, <1>2, <2>1
  <2> DEFINE a == r[i].position + r[i].length
             c == q[i].position + q[i].length
             d == q[j].position
             e == r[j].position
  <2>5. a <= c /\ c <= d /\ d <= e
    BY <2>1, <2>2, <2>3, Zenon
  <2>6. a \in Nat /\ c \in Nat
    <3>1. \A x, y \in Nat : x + y \in Nat
      OBVIOUS
    <3> QED BY <2>4, <3>1, Zenon
  <2>7. d \in Nat /\ e \in Nat
    BY <2>4, Zenon
  <2> HIDE DEF a, c, d, e
  <2>8. a <= e
    BY <2>5, <2>6, <2>7
  <2> QED BY <2>8 DEF a, e
<1>4. ASSUME NEW i \in 1 .. Len(r)
      PROVE  r[i].position + r[i].length <= hi + 1
  <2>1. CASE i = k
    BY <1>1, <1>2, <2>1
  <2>2. CASE i # k
    <3>1. r[i] = q[i] /\ q[i].position + q[i].length <= hi + 1
      BY <1>1, <1>2, <2>2
    <3> QED BY <3>1
  <2> QED BY <2>1, <2>2
<1> QED BY <1>3, <1>4 DEF Ascending, Within, r
-----------------------------------------------------------------------------
LEMMA InitIInv == Init => IInv
<1> SUFFICES ASSUME Init PROVE IInv
  OBVIOUS
<1> USE SizesAssumption DEF Init
<1>1. Contiguous(receiveQueue, copied, received)
  BY DEF Contiguous
<1>2. TypeOK
  <2>1. <<>> \in Seq(Buffers)
    OBVIOUS
  <2>2. inflight \in 0 .. SND_BUF /\ written \in 0 .. MAX_WRITTEN
    OBVIOUS
  <2>3. received \in 0 .. MAX_RECEIVED /\ copied \in 0 .. received
    OBVIOUS
  <2>4. connections \in 0 .. MAX_CONNECTIONS
    OBVIOUS
  <2>5. isConnected \in BOOLEAN /\ clean \in BOOLEAN
    BY Zenon
  <2>6. pc # "give" /\ pc \in {"idle", "give", "sent", "read"}
    OBVIOUS
  <2>7. tcpControlBlock \in {"none", "closed", "connecting", "established"}
    OBVIOUS
  <2>8. availableData \in Nat /\ cursor \in Nat \ {0} /\ left \in Nat /\ dataRead \in Nat
        /\ given \in Nat /\ writeQueue = <<>> /\ receiveQueue = <<>>
    OBVIOUS
  <2> HIDE DEF Init
  <2> QED BY <2>1, <2>2, <2>3, <2>4, <2>5, <2>6, <2>7, <2>8 DEF TypeOK
<1>3. Usable /\ AvailableIsUnread /\ ReadCovered /\ InFlightAtHead
  BY <1>1 DEF Usable, AvailableIsUnread, ReadCovered, InFlightAtHead
<1>4. QueueAscends
  <2>1. Len(writeQueue) = 0
    OBVIOUS
  <2> QED BY <2>1 DEF QueueAscends, Ascending, Within
<1> QED BY <1>2, <1>3, <1>4 DEF IInv, KInv

\* The actions of the connection leave the queues alone.
LEMMA ConnectionStep ==
    ASSUME IInv, Connect \/ OnConnected \/ OnError \/ PeerClosed \/ Stop
    PROVE  KInv'
<1> USE SizesAssumption
<1> USE DEF IInv, KInv, TypeOK, Usable, AvailableIsUnread, ReadCovered, InFlightAtHead, Oldest,
        tcp, loop, output, input, Close
<1>1. CASE Connect
  BY <1>1 DEF Connect, Contiguous
<1>2. CASE OnConnected
  <2>1. CASE writeQueue = <<>>
    BY <1>2, <2>1 DEF OnConnected, Contiguous
  <2>2. CASE writeQueue # <<>>
    BY <1>2, <2>2 DEF OnConnected, Contiguous
  <2> QED BY <2>1, <2>2
<1>c. ASSUME Close, pc = "idle", pc' = "idle", isConnected' = FALSE,
             UNCHANGED <<input, cursor, left, dataRead>>
      PROVE  KInv'
  <2>0. inflight' \in 0 .. SND_BUF
    BY <1>c
  <2>1. TypeOK'
    BY <1>c, <2>0
  <2>2. AvailableIsUnread' /\ ReadCovered'
    BY <1>c
  <2> QED BY <1>c, <2>1, <2>2
<1>3. CASE OnError
  BY <1>3, <1>c DEF OnError
<1>4. CASE PeerClosed
  BY <1>4, <1>c DEF PeerClosed
<1>5. CASE Stop
  BY <1>5, <1>c DEF Stop
<1> QED BY <1>1, <1>2, <1>3, <1>4, <1>5

\* The receive queue and its counters.
LEMMA ReadStep ==
    ASSUME IInv,
           \/ \E n \in SEGMENTS : Receive(n)
           \/ \E n \in READS : Read(n)
           \/ ReadWhole \/ ReadPart \/ ReadEnd
    PROVE  KInv'
<1> USE SizesAssumption
<1>0. TypeOK /\ Usable /\ AvailableIsUnread /\ ReadCovered /\ InFlightAtHead
  BY DEF IInv, KInv
<1>1. InFlightAtHead'
  BY <1>0 DEF InFlightAtHead, Oldest, Contiguous, Receive, Read, ReadWhole, ReadPart,
     ReadEnd, Copying, output, tcp, loop
<1>2. Usable'
  BY <1>0 DEF Usable, Receive, Read, ReadWhole, ReadPart, ReadEnd, Copying, output, tcp, loop
<1>3. ASSUME NEW n \in SEGMENTS, Receive(n)
      PROVE  TypeOK' /\ AvailableIsUnread' /\ ReadCovered'
  <2>1. /\ receiveQueue' \in Seq(Buffers)
        /\ Contiguous(receiveQueue', copied, received + n)
    BY <1>0, <1>3, ContiguousAppend DEF Receive, TypeOK, AvailableIsUnread
  <2> QED BY <1>0, <1>3, <2>1
          DEF Receive, TypeOK, AvailableIsUnread, ReadCovered, tcp, loop, output
<1>4. ASSUME NEW n \in READS, Read(n)
      PROVE  TypeOK' /\ AvailableIsUnread' /\ ReadCovered'
  <2>1. n \in Nat
    OBVIOUS
  <2>2. receiveQueue = <<>> => availableData = 0
    BY <1>0, <1>4 DEF AvailableIsUnread, Contiguous, Read, TypeOK
  <2>3. Contiguous(receiveQueue, copied, received)'
    BY <1>0, <1>4 DEF AvailableIsUnread, Contiguous, Read, input
  <2> QED BY <1>0, <1>4, <2>1, <2>2, <2>3
          DEF Read, TypeOK, AvailableIsUnread, ReadCovered, tcp, output, input
<1>5. ASSUME ReadWhole
      PROVE  TypeOK' /\ AvailableIsUnread' /\ ReadCovered'
  <2>1. /\ receiveQueue' \in Seq(Buffers)
        /\ Head(receiveQueue) \in Buffers
        /\ Head(receiveQueue).position = copied + 1
        /\ Contiguous(receiveQueue', copied + Head(receiveQueue).length, received)
    BY <1>0, <1>5, ContiguousTail DEF ReadWhole, Copying, TypeOK, AvailableIsUnread
  <2>2. copied' = copied + Head(receiveQueue).length /\ Head(receiveQueue).length \in Nat \ {0}
    <3>1. Head(receiveQueue).length \in Nat \ {0} /\ copied \in Nat
      BY <1>0, <2>1 DEF TypeOK, Buffers
    <3>2. copied' = (copied + 1) + Head(receiveQueue).length - 1
      BY <1>5, <2>1 DEF ReadWhole
    <3> QED BY <3>1, <3>2
  <2>3. receiveQueue' = <<>> => received' = copied'
    BY <2>1, <2>2, <1>5 DEF Contiguous, ReadWhole
  <2>4. Contiguous(receiveQueue, copied, received)'
    BY <2>1, <2>2, <1>5 DEF ReadWhole
  <2>5. /\ pc = "read" /\ pc' = "read" /\ left' = left - Head(receiveQueue).length
        /\ left' \in Nat /\ left' < left
        /\ dataRead' = dataRead /\ availableData' = availableData /\ received' = received
    <3>1. /\ pc = "read" /\ pc' = "read" /\ left' = left - Head(receiveQueue).length
          /\ left >= Head(receiveQueue).length
          /\ dataRead' = dataRead /\ availableData' = availableData /\ received' = received
      BY <1>5 DEF ReadWhole, Copying
    <3>2. left \in Nat
      BY <1>0 DEF TypeOK
    <3> QED BY <2>2, <3>1, <3>2
  <2>6. availableData' = received' - copied' + (dataRead' - left') /\ ReadCovered'
    BY <1>0, <2>2, <2>5 DEF AvailableIsUnread, ReadCovered, TypeOK
  <2>t. /\ left' \in Nat /\ dataRead' \in Nat /\ availableData' \in Nat
        /\ received' \in Nat /\ copied' \in Nat
    BY <1>0, <2>2, <2>5 DEF TypeOK
  <2>7. AvailableIsUnread'
    <3>1. receiveQueue' = <<>> => left' = 0
      BY <2>3, <2>5, <2>6, <2>t DEF ReadCovered
    <3> QED BY <2>4, <2>5, <2>6, <3>1 DEF AvailableIsUnread
  <2>8. TypeOK'
    <3>1. copied' \in 0 .. received'
      BY <2>5, <2>6, <2>t DEF ReadCovered
    <3> QED BY <1>0, <1>5, <2>1, <2>5, <2>t, <3>1 DEF ReadWhole, TypeOK, tcp, output
  <2> QED BY <2>6, <2>7, <2>8
<1>6. ASSUME ReadPart
      PROVE  TypeOK' /\ AvailableIsUnread' /\ ReadCovered'
  <2>1. /\ Head(receiveQueue) \in Buffers
        /\ Head(receiveQueue).position = copied + 1
    BY <1>0, <1>6, ContiguousTail DEF ReadPart, Copying, TypeOK, AvailableIsUnread
  <2>2. left \in Nat \ {0} /\ left < Head(receiveQueue).length
    BY <1>0, <1>6 DEF ReadPart, Copying, TypeOK
  <2>3. /\ receiveQueue' \in Seq(Buffers)
        /\ Contiguous(receiveQueue', copied + left, received)
    <3> DEFINE Rest(q) == [q EXCEPT ![1] =
                               Buffer(Head(q).position + left, Head(q).length - left)]
    <3>1. /\ receiveQueue \in Seq(Buffers) /\ receiveQueue # <<>>
          /\ copied \in Int /\ received \in Nat
          /\ Contiguous(receiveQueue, copied, received)
      BY <1>0, <1>6 DEF ReadPart, Copying, TypeOK, AvailableIsUnread
    <3>2. receiveQueue' = Rest(receiveQueue)
      BY <1>6 DEF ReadPart
    <3>3. /\ Rest(receiveQueue) \in Seq(Buffers)
          /\ Contiguous(Rest(receiveQueue), copied + left, received)
      BY <2>2, <3>1, ContiguousCut
    <3> QED BY <3>2, <3>3
  <2>4. /\ copied' = copied + left /\ left' = 0
        /\ pc = "read" /\ pc' = "read" /\ dataRead' = dataRead
        /\ availableData' = availableData /\ received' = received
    BY <1>0, <1>6, <2>1, <2>2 DEF ReadPart, Copying, TypeOK
  <2>5. AvailableIsUnread' /\ ReadCovered'
    BY <1>0, <2>2, <2>3, <2>4 DEF AvailableIsUnread, ReadCovered, TypeOK
  <2>6. TypeOK'
    BY <1>0, <1>6, <2>2, <2>3, <2>4, <2>5
    DEF ReadPart, AvailableIsUnread, ReadCovered, TypeOK, tcp, output
  <2> QED BY <2>5, <2>6
<1>7. ASSUME ReadEnd
      PROVE  TypeOK' /\ AvailableIsUnread' /\ ReadCovered'
  <2>1. left = 0
    BY <1>0, <1>7 DEF ReadEnd, Copying, TypeOK, AvailableIsUnread
  <2>2. Contiguous(receiveQueue, copied, received)'
    BY <1>0, <1>7 DEF AvailableIsUnread, Contiguous, ReadEnd
  <2> QED BY <1>0, <1>7, <2>1, <2>2
          DEF ReadEnd, TypeOK, AvailableIsUnread, ReadCovered, tcp, output
<1> QED BY <1>0, <1>1, <1>2, <1>3, <1>4, <1>5, <1>6, <1>7 DEF KInv

\* The write queue.
LEMMA WriteStep ==
    ASSUME IInv,
           \/ CallerWrites
           \/ Give \/ GiveEnd \/ Ack \/ SentWhole \/ SentPart \/ SentEnd
    PROVE  KInv'
<1> USE SizesAssumption
<1>0. /\ TypeOK /\ Usable /\ AvailableIsUnread /\ ReadCovered /\ InFlightAtHead
      /\ given <= written
  BY DEF IInv, KInv, QueueAscends
<1> USE DEF input
<1>1. AvailableIsUnread' /\ ReadCovered'
  BY <1>0 DEF AvailableIsUnread, ReadCovered, CallerWrites, Write, Give, GiveWhole, GivePart, GiveEnd, Ack,
     Acknowledge, SentWhole, SentPart, SentEnd, StartGiving, Giving, Freeing, loop
<1>2. ASSUME NEW n \in LENGTHS, isConnected, Write(n)
      PROVE  TypeOK' /\ Usable' /\ InFlightAtHead'
  <2>1. /\ n \in Nat \ {0}
        /\ writeQueue' = Append(writeQueue, Buffer(written + 1, n))
        /\ written' = written + n
        /\ writeQueue \in Seq(Buffers) /\ written \in Nat
        /\ Buffer(written + 1, n) \in Buffers
    BY <1>0, <1>2 DEF Write, TypeOK, Buffer, Buffers
  <2>2. writeQueue' \in Seq(Buffers)
    BY <2>1
  <2>3. TypeOK' /\ Usable'
    BY <1>0, <1>2, <2>1, <2>2 DEF Write, StartGiving, TypeOK, Usable, tcp, loop
  <2>4. ASSUME clean'
        PROVE  /\ Contiguous(writeQueue, Oldest, written)'
    <3>1. clean /\ Contiguous(writeQueue, Oldest, written) /\ Oldest \in Int /\ Oldest' = Oldest
      <4>1. clean' = clean /\ given' = given /\ inflight' = inflight
            /\ pc = "idle" /\ pc' \in {"idle", "give"}
        BY <1>2 DEF Write, StartGiving, loop
      <4>2. clean /\ Contiguous(writeQueue, Oldest, written)
        BY <1>0, <2>4, <4>1 DEF InFlightAtHead
      <4>3. given \in Nat /\ inflight \in Int /\ Oldest = given - inflight - 0
            /\ Oldest' = given' - inflight' - 0
        BY <1>0, <4>1 DEF Oldest, TypeOK
      <4> QED BY <4>1, <4>2, <4>3
    <3>2. Contiguous(writeQueue', Oldest, written + n)
      BY <2>1, <3>1, ContiguousAppend
    <3> QED BY <2>1, <3>1, <3>2
  <2>5. ASSUME clean', pc' = "give", cursor' <= Len(writeQueue')
        PROVE  writeQueue'[cursor'].position = given' + 1
    <3>1. /\ clean /\ writeQueue = <<>> /\ cursor' = 1 /\ given' = given
          /\ pc = "idle"
      BY <1>2, <2>5 DEF Write, StartGiving, loop
    <3>2. given - inflight = written /\ given <= written
      BY <1>0, <3>1 DEF InFlightAtHead, Contiguous, Oldest, TypeOK
    <3>3. given = written
      BY <1>0, <3>2 DEF TypeOK
    <3>4. writeQueue'[1] = Buffer(written + 1, n)
      BY <2>1, <3>1
    <3> QED BY <3>1, <3>3, <3>4 DEF Buffer
  <2> QED BY <2>3, <2>4, <2>5 DEF InFlightAtHead
<1>3. ASSUME NEW accepted \in BOOLEAN, GiveWhole(accepted)
      PROVE  TypeOK' /\ Usable' /\ InFlightAtHead'
  <2> DEFINE buffer == writeQueue[cursor]
  <2>1. /\ buffer \in Buffers /\ buffer.position \in Nat \ {0} /\ buffer.length \in Nat \ {0}
        /\ buffer.length <= left /\ cursor \in 1 .. Len(writeQueue)
        /\ pc = "give" /\ pc' = "give" /\ writeQueue' = writeQueue
    <3>1. /\ writeQueue \in Seq(Buffers) /\ cursor \in 1 .. Len(writeQueue)
          /\ buffer.length <= left /\ pc = "give" /\ pc' = "give" /\ writeQueue' = writeQueue
      BY <1>0, <1>3 DEF GiveWhole, Giving, TypeOK
    <3> QED BY <3>1, Element
  <2>2. \/ given' = buffer.position + buffer.length - 1 /\ inflight' = inflight + buffer.length
        \/ given' = given /\ inflight' = inflight /\ ~accepted
    BY <1>3 DEF GiveWhole, TcpWrite
  <2> HIDE DEF buffer
  <2>3. TypeOK' /\ Usable'
    <3>1. /\ left' = left - buffer.length /\ cursor' = cursor + 1
          /\ clean' \in BOOLEAN
          /\ UNCHANGED <<tcp, dataRead, written, input>>
      BY <1>3, <1>0 DEF GiveWhole, buffer, TypeOK
    <3>a. /\ SND_BUF \in Nat /\ left \in Nat /\ inflight \in 0 .. SND_BUF
          /\ left <= SND_BUF - inflight
      BY <1>0, <2>1 DEF TypeOK
    <3>2. left' \in Nat /\ inflight' \in 0 .. SND_BUF /\ left' <= SND_BUF - inflight'
      BY SMTT(30), <2>1, <2>2, <3>a, <3>1
    <3>3. given' \in Nat /\ cursor' \in Nat \ {0}
      BY SMTT(30), <1>0, <2>1, <2>2, <3>1 DEF TypeOK
    <3>4. TypeOK'
      BY <1>0, <2>1, <3>1, <3>2, <3>3 DEF TypeOK, tcp
    <3> QED BY <1>0, <2>1, <3>1, <3>4 DEF Usable, tcp
  <2>4. ASSUME clean'
        PROVE  /\ Contiguous(writeQueue, Oldest, written)'
               /\ cursor' <= Len(writeQueue') => writeQueue'[cursor'].position = given' + 1
    <3>1. clean /\ accepted
      BY <1>3, <2>4 DEF GiveWhole
    <3>2. /\ given' = buffer.position + buffer.length - 1 /\ inflight' = inflight + buffer.length
          /\ buffer.position = given + 1
          /\ Contiguous(writeQueue, Oldest, written)
          /\ cursor' = cursor + 1 /\ written' = written
      BY <1>0, <1>3, <2>1, <2>2, <3>1 DEF InFlightAtHead, GiveWhole, buffer
    <3>3. Oldest' = Oldest
      <4>1. given \in Int /\ inflight \in Int /\ buffer.length \in Int
        BY <1>0, <2>1 DEF TypeOK
      <4>2. Oldest = given - inflight - 0 /\ Oldest' = given' - inflight' - 0
        BY <2>1 DEF Oldest
      <4> QED BY <3>2, <4>1, <4>2
    <3>5. cursor' <= Len(writeQueue') => writeQueue'[cursor'].position = given' + 1
      <4> SUFFICES ASSUME cursor + 1 <= Len(writeQueue)
                   PROVE  writeQueue[cursor + 1].position = given' + 1
        BY <2>1, <3>2
      <4>1. writeQueue[cursor + 1].position = buffer.position + buffer.length
        <5>1. cursor \in 1 .. Len(writeQueue) - 1
          BY <1>0, <2>1 DEF TypeOK
        <5> QED BY <3>2, <5>1 DEF Contiguous, buffer
      <4> QED BY <2>1, <3>2, <4>1
    <3> QED BY <2>1, <3>2, <3>3, <3>5
  <2> QED BY <2>3, <2>4 DEF InFlightAtHead
<1>4. ASSUME NEW accepted \in BOOLEAN, GivePart(accepted)
      PROVE  TypeOK' /\ Usable' /\ InFlightAtHead'
  <2> DEFINE buffer == writeQueue[cursor]
             rest == Buffer(buffer.position + left, buffer.length - left)
  <2>1. /\ buffer.position \in Nat \ {0} /\ buffer.length \in Nat \ {0}
        /\ left \in Nat \ {0} /\ left < buffer.length /\ cursor \in 1 .. Len(writeQueue)
        /\ pc = "give" /\ pc' = "give"
    <3>1. /\ writeQueue \in Seq(Buffers) /\ cursor \in 1 .. Len(writeQueue)
          /\ left \in Nat \ {0} /\ left < buffer.length /\ pc = "give" /\ pc' = "give"
      BY <1>0, <1>4 DEF GivePart, Giving, TypeOK
    <3> QED BY <3>1, Element
  <2>2. rest \in Buffers
    BY <2>1 DEF Buffer, Buffers
  <2>3. writeQueue' \in Seq(Buffers)
    BY <1>0, <1>4, <2>1, <2>2 DEF GivePart, TypeOK
  <2>4. \/ given' = buffer.position + left - 1 /\ inflight' = inflight + left
        \/ given' = given /\ inflight' = inflight
    BY <1>4 DEF GivePart, TcpWrite
  <2>5. TypeOK' /\ Usable'
    <3>1. /\ left' = 0 /\ clean' = FALSE
          /\ UNCHANGED <<tcp, dataRead, cursor, written, input>>
      BY <1>4 DEF GivePart
    <3>2. inflight' \in 0 .. SND_BUF /\ left' <= SND_BUF - inflight' /\ given' \in Nat
      <4>1. /\ SND_BUF \in Nat /\ left \in Nat /\ inflight \in 0 .. SND_BUF /\ given \in Nat
            /\ pc = "give" => left <= SND_BUF - inflight
        BY <1>0 DEF TypeOK
      <4> QED BY SMTT(30), <2>1, <2>4, <3>1, <4>1
    <3>3. TypeOK'
      BY <1>0, <2>1, <2>3, <3>1, <3>2 DEF TypeOK, tcp
    <3> QED BY <1>0, <2>1, <3>1, <3>3 DEF Usable, tcp
  <2> QED BY <1>4, <2>5 DEF InFlightAtHead, GivePart
<1>5. ASSUME GiveEnd
      PROVE  TypeOK' /\ Usable' /\ InFlightAtHead'
  BY <1>0, <1>5 DEF GiveEnd, TypeOK, Usable, InFlightAtHead, Oldest, tcp, output
<1>6. ASSUME NEW n \in 1 .. SND_BUF, Acknowledge(n)
      PROVE  TypeOK' /\ Usable' /\ InFlightAtHead'
  <2>1. Oldest' = Oldest
    BY <1>0, <1>6 DEF Acknowledge, Oldest, TypeOK
  <2>2. TypeOK' /\ Usable'
    BY <1>0, <1>6 DEF Acknowledge, TypeOK, Usable, tcp
  <2> QED BY <1>0, <1>6, <2>1, <2>2 DEF Acknowledge, InFlightAtHead
<1>7. ASSUME SentWhole
      PROVE  TypeOK' /\ Usable' /\ InFlightAtHead'
  <2>1. /\ writeQueue \in Seq(Buffers) /\ writeQueue # <<>> /\ Head(writeQueue) \in Buffers
        /\ Head(writeQueue).length \in Nat \ {0} /\ Head(writeQueue).length <= left
        /\ writeQueue' = Tail(writeQueue) /\ writeQueue' \in Seq(Buffers)
        /\ left' = left - Head(writeQueue).length
        /\ pc = "sent" /\ pc' = "sent"
    <3>1. /\ writeQueue \in Seq(Buffers) /\ writeQueue # <<>>
          /\ Head(writeQueue).length <= left
          /\ writeQueue' = Tail(writeQueue)
          /\ left' = left - Head(writeQueue).length
          /\ pc = "sent" /\ pc' = "sent"
      BY <1>0, <1>7 DEF SentWhole, Freeing, TypeOK
    <3>2. Tail(writeQueue) \in Seq(Buffers)
      BY <3>1
    <3> QED BY <3>1, <3>2, HeadElement
  <2>2. left' \in Nat
    BY <1>0, <2>1 DEF TypeOK
  <2>3. TypeOK' /\ Usable'
    BY <1>0, <1>7, <2>1, <2>2 DEF SentWhole, TypeOK, Usable, tcp
  <2>4. ASSUME clean'
        PROVE  /\ Contiguous(writeQueue, Oldest, written)'
    <3>1. Contiguous(writeQueue, Oldest, written) /\ written' = written
      BY <1>0, <1>7, <2>4 DEF SentWhole, InFlightAtHead
    <3>2. Oldest' = Oldest + Head(writeQueue).length /\ Oldest \in Int
      BY <1>0, <1>7, <2>1 DEF SentWhole, Oldest, TypeOK
    <3>3. Contiguous(Tail(writeQueue), Oldest + Head(writeQueue).length, written)
      BY <1>0, <2>1, <3>1, <3>2, ContiguousTail DEF TypeOK
    <3> QED BY <2>1, <3>1, <3>2, <3>3
  <2> QED BY <2>1, <2>3, <2>4 DEF InFlightAtHead
<1>8. ASSUME SentPart
      PROVE  TypeOK' /\ Usable' /\ InFlightAtHead'
  <2>0. /\ writeQueue \in Seq(Buffers) /\ writeQueue # <<>>
        /\ left \in Nat /\ left < Head(writeQueue).length
    BY <1>0, <1>8 DEF SentPart, Freeing, TypeOK
  <2>1. /\ 1 \in 1 .. Len(writeQueue)
        /\ Head(writeQueue).position \in Nat \ {0} /\ Head(writeQueue).length \in Nat \ {0}
    BY <2>0, HeadElement
  <2>2. Buffer(Head(writeQueue).position, Head(writeQueue).length - left) \in Buffers
    BY <2>0, <2>1 DEF Buffer, Buffers
  <2>3. writeQueue' \in Seq(Buffers)
    BY <1>0, <1>8, <2>1, <2>2 DEF SentPart, TypeOK
  <2>4. TypeOK' /\ Usable'
    BY <1>0, <1>8, <2>3 DEF SentPart, Freeing, TypeOK, Usable, tcp
  <2> QED BY <1>8, <2>4 DEF InFlightAtHead, SentPart
<1>9. ASSUME SentEnd
      PROVE  TypeOK' /\ Usable' /\ InFlightAtHead'
  <2>1. TypeOK' /\ Usable'
    BY <1>0, <1>9 DEF SentEnd, StartGiving, TypeOK, Usable, tcp
  <2>2. ASSUME clean'
        PROVE  /\ Contiguous(writeQueue, Oldest, written)'
               /\ pc' = "give" => writeQueue'[1].position = given' + 1 /\ cursor' = 1
    <3>a. clean /\ (writeQueue = <<>> \/ inflight = 0)
      BY <1>9, <2>2, Zenon DEF SentEnd
    <3>b. /\ pc = "sent" /\ (left = 0 \/ writeQueue = <<>>)
          /\ UNCHANGED <<writeQueue, inflight, written, given>>
      BY <1>0, <1>9 DEF SentEnd, Freeing, TypeOK
    <3>c. pc' = IF writeQueue = <<>> THEN "idle" ELSE "give"
      BY <1>9 DEF SentEnd, StartGiving
    <3>1. /\ clean /\ (writeQueue = <<>> \/ inflight = 0)
          /\ pc = "sent" /\ (left = 0 \/ writeQueue = <<>>)
          /\ UNCHANGED <<writeQueue, inflight, written, given>>
          /\ pc' = IF writeQueue = <<>> THEN "idle" ELSE "give"
      BY <3>a, <3>b, <3>c
    <3>2. Contiguous(writeQueue, Oldest, written)
      BY <1>0, <3>1 DEF InFlightAtHead
    <3>3. Oldest = given - inflight - left
      BY <3>1 DEF Oldest
    <3>4. left = 0
      BY <1>0, <3>1, <3>2, <3>3 DEF Contiguous, TypeOK
    <3>5. Oldest' = Oldest
      BY <1>0, <3>1, <3>3, <3>4 DEF Oldest, TypeOK
    <3>6. pc' = "give" => writeQueue[1].position = given + 1 /\ cursor' = 1
      BY <1>0, <1>9, <3>1, <3>2, <3>3, <3>4 DEF Contiguous, SentEnd, StartGiving, TypeOK
    <3> QED BY <3>1, <3>2, <3>5, <3>6
  <2> QED BY <2>1, <2>2 DEF InFlightAtHead
<1> QED BY <1>0, <1>1, <1>2, <1>3, <1>4, <1>5, <1>6, <1>7, <1>8, <1>9
       DEF KInv, CallerWrites, Give, Ack

\* The write queue stays in order, whatever happens to it.
LEMMA QueueStep ==
    ASSUME IInv, Next
    PROVE  QueueAscends'
<1> USE SizesAssumption
<1>0. /\ TypeOK /\ Ascending(writeQueue) /\ Within(writeQueue, written) /\ given <= written
      /\ writeQueue \in Seq(Buffers) /\ written \in Nat /\ given \in Nat
  BY DEF IInv, KInv, QueueAscends, TypeOK
<1>1. CASE UNCHANGED <<writeQueue, written>> /\ given' <= written
  BY <1>0, <1>1 DEF QueueAscends, Ascending, Within
<1>2. CASE Connect \/ OnConnected \/ OnError \/ PeerClosed \/ Stop
  <2>1. UNCHANGED <<writeQueue, written>> /\ given' <= written
    BY <1>0, <1>2 DEF Connect, OnConnected, OnError, PeerClosed, Stop, Close, output
  <2> QED BY <1>1, <2>1
<1>3. CASE CallerWrites
  <2> PICK n \in LENGTHS : Write(n)
    BY <1>3 DEF CallerWrites
  <2>1. /\ n \in Nat \ {0} /\ written' = written + n /\ given' = given
        /\ writeQueue' = Append(writeQueue, Buffer(written + 1, n))
    BY DEF Write
  <2>2. Ascending(writeQueue') /\ Within(writeQueue', written')
    BY <1>0, <2>1, AscendingAppend
  <2> QED BY <1>0, <2>1, <2>2 DEF QueueAscends
<1>4. ASSUME NEW accepted \in BOOLEAN, GiveWhole(accepted)
      PROVE  QueueAscends'
  <2>1. cursor \in 1 .. Len(writeQueue) /\ UNCHANGED <<writeQueue, written>>
    BY <1>0, <1>4 DEF GiveWhole, Giving, TypeOK
  <2>2. /\ writeQueue[cursor].position \in Nat /\ writeQueue[cursor].length \in Nat
        /\ writeQueue[cursor].position + writeQueue[cursor].length <= written + 1
    BY <1>0, <2>1, Element DEF Within
  <2>3. given' = writeQueue[cursor].position + writeQueue[cursor].length - 1 \/ given' = given
    BY <1>4 DEF GiveWhole, TcpWrite
  <2>4. given' <= written
    BY <1>0, <2>2, <2>3
  <2> QED BY <1>1, <2>1, <2>4
<1>5. ASSUME NEW accepted \in BOOLEAN, GivePart(accepted)
      PROVE  QueueAscends'
  <2> DEFINE buffer == writeQueue[cursor]
             rest == Buffer(buffer.position + left, buffer.length - left)
  <2>1. /\ cursor \in 1 .. Len(writeQueue) /\ left \in Nat \ {0} /\ left < buffer.length
        /\ written' = written /\ writeQueue' = [writeQueue EXCEPT ![cursor] = rest]
    BY <1>0, <1>5 DEF GivePart, Giving, TypeOK
  <2>2. /\ buffer.position \in Nat \ {0} /\ buffer.length \in Nat \ {0}
        /\ buffer.position + buffer.length <= written + 1
    BY <1>0, <2>1, Element DEF Within
  <2>3. /\ rest \in Buffers /\ rest.position = buffer.position + left
        /\ rest.length = buffer.length - left
    BY <2>1, <2>2 DEF Buffer, Buffers
  <2>4. given' = buffer.position + left - 1 \/ given' = given
    BY <1>5 DEF GivePart, TcpWrite
  <2> HIDE DEF buffer, rest
  <2>5. given' <= written
    BY <1>0, <2>1, <2>2, <2>4
  <2>6. buffer.position <= rest.position
        /\ rest.position + rest.length <= buffer.position + buffer.length
    BY <2>1, <2>2, <2>3
  <2>7. Ascending(writeQueue') /\ Within(writeQueue', written)
    BY <1>0, <2>1, <2>3, <2>6, AscendingShrink DEF buffer
  <2> QED BY <2>1, <2>5, <2>7 DEF QueueAscends
<1>6. CASE SentWhole
  <2>1. /\ writeQueue # <<>> /\ writeQueue' = Tail(writeQueue)
        /\ written' = written /\ given' = given
    BY <1>6 DEF SentWhole, Freeing
  <2> QED BY <1>0, <2>1, AscendingTail DEF QueueAscends
<1>7. CASE SentPart
  <2> DEFINE rest == Buffer(Head(writeQueue).position, Head(writeQueue).length - left)
  <2>1. /\ writeQueue # <<>> /\ left \in Nat /\ left < Head(writeQueue).length
        /\ written' = written /\ given' = given
        /\ writeQueue' = [writeQueue EXCEPT ![1] = rest]
    BY <1>0, <1>7 DEF SentPart, Freeing, TypeOK
  <2>2. /\ 1 \in 1 .. Len(writeQueue) /\ Head(writeQueue) = writeQueue[1]
        /\ Head(writeQueue).position \in Nat \ {0} /\ Head(writeQueue).length \in Nat \ {0}
    BY <1>0, <2>1, HeadElement
  <2>3. /\ rest \in Buffers /\ rest.position = Head(writeQueue).position
        /\ rest.length = Head(writeQueue).length - left
    BY <2>1, <2>2 DEF Buffer, Buffers
  <2> HIDE DEF rest
  <2>4. /\ writeQueue[1].position <= rest.position
        /\ rest.position + rest.length <= writeQueue[1].position + writeQueue[1].length
    BY <2>1, <2>2, <2>3
  <2>5. Ascending(writeQueue') /\ Within(writeQueue', written)
    BY <1>0, <2>1, <2>2, <2>3, <2>4, AscendingShrink
  <2> QED BY <1>0, <2>1, <2>5 DEF QueueAscends
<1>8. CASE GiveEnd \/ Ack \/ SentEnd \/ ReadWhole \/ ReadPart \/ ReadEnd
           \/ (\E n \in SEGMENTS : Receive(n)) \/ (\E n \in READS : Read(n))
  <2>1. UNCHANGED <<writeQueue, written, given>>
    BY <1>8 DEF GiveEnd, Ack, Acknowledge, SentEnd, ReadWhole, ReadPart, ReadEnd, Receive, Read,
       output
  <2> QED BY <1>0, <1>1, <2>1
<1> QED BY <1>2, <1>3, <1>4, <1>5, <1>6, <1>7, <1>8 DEF Next, Loop, Give

LEMMA NextIInv == IInv /\ [Next]_vars => IInv'
<1> SUFFICES ASSUME IInv, [Next]_vars PROVE IInv'
  OBVIOUS
<1>1. CASE UNCHANGED vars
  BY <1>1 DEF vars, tcp, loop, output, input, IInv, KInv, TypeOK, Usable, AvailableIsUnread,
     ReadCovered, QueueAscends, Ascending, Within, InFlightAtHead, Oldest, Contiguous
<1>2. CASE Next
  <2>1. KInv'
    BY <1>2, ConnectionStep, ReadStep, WriteStep DEF Next, Loop
  <2> QED BY <1>2, <2>1, QueueStep DEF IInv
<1> QED BY <1>1, <1>2

-----------------------------------------------------------------------------
\* Types: lwIP never holds more than its buffer, and no length or counter goes
\* below zero, for any sizes.
THEOREM Typing == Spec => []TypeOK
<1>1. IInv => TypeOK
  BY DEF IInv, KInv
<1> QED BY <1>1, InitIInv, NextIInv, PTL DEF Spec

\* connected() is exact, so lwIP is never called without a connection.
THEOREM AlwaysUsable == Spec => []Usable
<1>1. IInv => Usable
  BY DEF IInv, KInv
<1> QED BY <1>1, InitIInv, NextIInv, PTL DEF Spec

\* available() is exact and the receive queue holds each unread byte once.
THEOREM AvailableExact == Spec => []AvailableIsUnread
<1>1. IInv => AvailableIsUnread
  BY DEF IInv, KInv
<1> QED BY <1>1, InitIInv, NextIInv, PTL DEF Spec

\* Bytes are read in the order of their arrival, without gap or repetition.
THEOREM ReadsInOrder == Spec => ReadInOrder
<1>1. IInv /\ [Next]_vars => [pc = "read" => copied' = copied + (left - left')]_vars
  <2> SUFFICES ASSUME IInv, Next, pc = "read" PROVE copied' = copied + (left - left')
    BY DEF vars
  <2>0. TypeOK /\ AvailableIsUnread
    BY DEF IInv, KInv
  <2>1. ReadWhole \/ ReadPart \/ ReadEnd
    BY DEF Next, Connect, OnConnected, OnError, PeerClosed, Stop, CallerWrites, Write, Receive, Read, Ack,
       Acknowledge, Loop, Give, GiveWhole, GivePart, Giving, GiveEnd, SentWhole, SentPart,
       Freeing, SentEnd
  <2>2. CASE ReadEnd
    BY <2>0, <2>2 DEF ReadEnd, TypeOK
  <2>3. CASE ReadWhole \/ ReadPart
    <3>1. /\ Head(receiveQueue).position = copied + 1
          /\ Head(receiveQueue) \in Buffers
      BY <2>0, <2>3, ContiguousTail DEF ReadWhole, ReadPart, Copying, TypeOK, AvailableIsUnread
    <3>2. Head(receiveQueue).length \in Nat /\ left \in Nat /\ copied \in Nat
      BY <2>0, <3>1 DEF Buffers, TypeOK
    <3> QED BY SMTT(30), <2>3, <3>1, <3>2 DEF ReadWhole, ReadPart
  <2> QED BY <2>1, <2>2, <2>3
<1> QED BY <1>1, InitIInv, NextIInv, PTL DEF Spec, ReadInOrder

\* Each pass gives bytes that were written, in their order and none twice,
\* whatever came before it; in an undisturbed connection all passes together do,
\* and without a gap.
THEOREM SendsInOrder == Spec => SendInOrder
<1> DEFINE Gives ==
               /\ given' <= written
               /\ given' # given => \A i \in cursor' .. Len(writeQueue') :
                                        given' < writeQueue'[i].position
               /\ Undisturbed => given' - given = inflight' - inflight
<1>1. IInv /\ [Next]_vars => [pc = "give" => Gives]_vars
  <2> SUFFICES ASSUME IInv, Next, pc = "give" PROVE Gives
    BY DEF vars
  <2>0. TypeOK /\ InFlightAtHead /\ QueueAscends
    BY DEF IInv, KInv
  <2>1. GiveEnd \/ \E accepted \in BOOLEAN : GiveWhole(accepted) \/ GivePart(accepted)
    BY DEF Next, Connect, OnConnected, OnError, PeerClosed, Stop, CallerWrites, Write, Receive,
       Read, Ack, Acknowledge, Loop, Give, ReadWhole, ReadPart, Copying, ReadEnd, SentWhole,
       SentPart, Freeing, SentEnd
  <2>2. CASE GiveEnd
    BY <2>0, <2>2 DEF GiveEnd, output, TypeOK, QueueAscends
  <2>3. ASSUME NEW accepted \in BOOLEAN, GiveWhole(accepted) \/ GivePart(accepted)
        PROVE  Gives
    <3> DEFINE buffer == writeQueue[cursor]
    <3>0. /\ cursor \in 1 .. Len(writeQueue) /\ left \in Nat \ {0}
          /\ given \in Nat /\ inflight \in Nat /\ writeQueue \in Seq(Buffers)
          /\ Len(writeQueue) \in Nat
      BY <2>0, <2>3 DEF GiveWhole, GivePart, Giving, TypeOK
    <3>1. buffer.position \in Nat \ {0} /\ buffer.length \in Nat \ {0}
      BY <3>0, Element
    <3>2. given' <= written
      <4>1. QueueAscends' /\ written' = written
        BY <2>3, QueueStep DEF GiveWhole, GivePart
      <4> QED BY <4>1 DEF QueueAscends
    <3>3. Undisturbed => given' - given = inflight' - inflight
      <4> SUFFICES ASSUME Undisturbed PROVE given' - given = inflight' - inflight
        OBVIOUS
      <4>1. buffer.position = given + 1
        BY <2>0, <3>0 DEF InFlightAtHead, Undisturbed
      <4>2. \/ UNCHANGED <<given, inflight>>
            \/ \E n \in {left, buffer.length} :
                  given' = (given + 1) + n - 1 /\ inflight' = inflight + n
        BY <2>3, <4>1 DEF GiveWhole, GivePart, TcpWrite
      <4> QED BY <3>0, <3>1, <4>2
    <3>4. \A i \in cursor + 1 .. Len(writeQueue) :
              /\ buffer.position + buffer.length <= writeQueue[i].position
              /\ writeQueue[i].position \in Nat
      BY <2>0, <3>0, Element DEF QueueAscends, Ascending
    <3>5. CASE GiveWhole(accepted)
      <4>1. /\ cursor' = cursor + 1 /\ writeQueue' = writeQueue
            /\ given' # given => given' = buffer.position + buffer.length - 1
        BY <3>5 DEF GiveWhole, TcpWrite
      <4> HIDE DEF buffer
      <4>2. given' # given => \A i \in cursor' .. Len(writeQueue') :
                                 given' < writeQueue'[i].position
        BY <3>1, <3>4, <4>1
      <4> QED BY <3>2, <3>3, <4>2
    <3>6. CASE GivePart(accepted)
      <4> DEFINE rest == Buffer(buffer.position + left, buffer.length - left)
      <4>1. /\ cursor' = cursor /\ left < buffer.length
            /\ writeQueue' = [writeQueue EXCEPT ![cursor] = rest]
            /\ given' # given => given' = buffer.position + left - 1
        BY <3>6 DEF GivePart, TcpWrite
      <4>2. /\ Len(writeQueue') = Len(writeQueue) /\ writeQueue'[cursor] = rest
            /\ rest.position = buffer.position + left
            /\ \A i \in cursor + 1 .. Len(writeQueue) : writeQueue'[i] = writeQueue[i]
        BY <3>0, <4>1 DEF Buffer
      <4> HIDE DEF buffer, rest
      <4>3. ASSUME NEW i \in cursor .. Len(writeQueue), given' # given
            PROVE  given' < writeQueue'[i].position
        <5>1. given' = buffer.position + left - 1
          BY <4>1, <4>3
        <5>2. CASE i = cursor
          BY <3>0, <3>1, <4>2, <5>1, <5>2
        <5>3. CASE i \in cursor + 1 .. Len(writeQueue)
          <6>1. /\ writeQueue'[i] = writeQueue[i] /\ writeQueue[i].position \in Nat
                /\ buffer.position + buffer.length <= writeQueue[i].position
            BY <3>4, <4>2, <5>3
          <6> QED BY <3>0, <3>1, <4>1, <5>1, <6>1
        <5> QED BY <3>0, <5>2, <5>3
      <4> QED BY <3>2, <3>3, <4>1, <4>2, <4>3
    <3> QED BY <2>3, <3>5, <3>6
  <2> QED BY <2>1, <2>2, <2>3
<1> QED BY <1>1, InitIInv, NextIInv, PTL DEF Spec, SendInOrder

-----------------------------------------------------------------------------
(* The stream that read takes its bytes from. *)

\* While the loop of read runs, dataRead is what a request came to.
Asked == pc = "read" => \E n \in READS : dataRead = Stream!Least(n, availableData)

\* The counters the caller sees are touched by received and at the end of read.
LEMMA OutsideReading ==
    ASSUME Next, pc # "read", \A n \in READS : ~Read(n), \A n \in SEGMENTS : ~Receive(n)
    PROVE  pc' # "read" /\ UNCHANGED <<received, copied, availableData>>
<1>1. CASE Connect \/ OnConnected \/ OnError \/ PeerClosed \/ Stop
  BY <1>1 DEF Connect, OnConnected, OnError, PeerClosed, Stop, Close, loop, input
<1>2. CASE CallerWrites
  BY <1>2 DEF CallerWrites, Write, StartGiving, loop, input
<1>3. CASE Ack \/ Give \/ GiveEnd
  BY <1>3 DEF Ack, Acknowledge, Give, GiveWhole, GivePart, GiveEnd, input
<1>4. CASE SentWhole \/ SentPart
  BY <1>4 DEF SentWhole, SentPart, input
<1>5. CASE SentEnd
  BY <1>5 DEF SentEnd, StartGiving, input
<1>6. CASE ReadWhole \/ ReadPart \/ ReadEnd
  BY <1>6 DEF ReadWhole, ReadPart, ReadEnd, Copying
<1> QED BY <1>1, <1>2, <1>3, <1>4, <1>5, <1>6 DEF Next, Loop

\* A turn of the loop of read copies what it takes off the rest, and the last
\* turn leaves no rest.
LEMMA Reading ==
    ASSUME IInv, Next, pc = "read"
    PROVE  /\ dataRead' = dataRead /\ received' = received
           /\ \/ /\ pc' = "read" /\ availableData' = availableData
                 /\ copied' - copied = left - left'
              \/ /\ pc' = "idle" /\ availableData' = availableData - dataRead
                 /\ copied' = copied /\ left = 0
<1>0. TypeOK /\ AvailableIsUnread
  BY DEF IInv, KInv
<1>1. ReadWhole \/ ReadPart \/ ReadEnd
  BY DEF Next, Connect, OnConnected, OnError, PeerClosed, Stop, CallerWrites, Write, Receive, Read, Ack,
     Acknowledge, Loop, Give, GiveWhole, GivePart, Giving, GiveEnd, SentWhole, SentPart,
     Freeing, SentEnd
<1>2. CASE ReadEnd
  <2>1. left = 0
    BY <1>0, <1>2 DEF ReadEnd, Copying, TypeOK, AvailableIsUnread
  <2> QED BY <1>2, <2>1 DEF ReadEnd
<1>3. CASE ReadWhole \/ ReadPart
  <2>1. /\ Head(receiveQueue).position = copied + 1
        /\ Head(receiveQueue) \in Buffers
    BY <1>0, <1>3, ContiguousTail DEF ReadWhole, ReadPart, Copying, TypeOK, AvailableIsUnread
  <2>2. Head(receiveQueue).length \in Nat /\ left \in Nat /\ copied \in Nat
    BY <1>0, <2>1 DEF Buffers, TypeOK
  <2>3. copied' - copied = left - left'
    BY SMTT(30), <1>3, <2>1, <2>2 DEF ReadWhole, ReadPart
  <2> QED BY <1>3, <2>3 DEF ReadWhole, ReadPart
<1> QED BY <1>1, <1>2, <1>3

LEMMA AskedNext == IInv /\ Asked /\ [Next]_vars => Asked'
<1> SUFFICES ASSUME IInv, Asked, [Next]_vars, pc' = "read"
             PROVE  \E n \in READS : dataRead' = Stream!Least(n, availableData')
  BY DEF Asked, Stream!Least
<1>1. ASSUME NEW n \in READS, Read(n)
      PROVE  dataRead' = Stream!Least(n, availableData')
  BY <1>1 DEF Read, input, Stream!Least
<1>2. CASE Next /\ pc = "read"
  BY <1>2, Reading DEF Asked
<1>3. ASSUME NEW n \in SEGMENTS, Receive(n)
      PROVE  FALSE
  BY <1>3 DEF Receive, loop
<1>4. CASE UNCHANGED vars
  BY <1>4 DEF vars, loop, input, Asked
<1> QED BY <1>1, <1>2, <1>3, <1>4, OutsideReading

\* Every step of the client is one of the stream, or none.
LEMMA StreamNext ==
    IInv /\ Asked /\ [Next]_vars => [Stream!Next]_<<received, Returned, availableData>>
<1> SUFFICES ASSUME IInv, Asked, [Next]_vars
             PROVE  Stream!Next \/ UNCHANGED <<received, Returned, availableData>>
  OBVIOUS
<1>0. /\ received \in Nat /\ copied \in Nat /\ availableData \in Nat
      /\ left \in Nat /\ dataRead \in Nat
  BY DEF IInv, KInv, TypeOK
<1>1. ASSUME NEW n \in SEGMENTS, Receive(n)
      PROVE  Stream!Next
  <2>1. n \in Nat \ {0}
    BY SizesAssumption
  <2>2. /\ received' = received + n /\ availableData' = availableData + n
        /\ pc = "idle" /\ pc' = pc /\ copied' = copied
    BY <1>1 DEF Receive, loop
  <2>3. Returned' = Returned
    BY <2>2 DEF Returned
  <2> QED BY <1>0, <2>1, <2>2, <2>3 DEF Stream!Next, Stream!Arrive
<1>2. ASSUME NEW n \in READS, Read(n)
      PROVE  UNCHANGED <<received, Returned, availableData>>
  <2>1. /\ pc = "idle" /\ pc' = "read" /\ left' = dataRead' /\ copied' = copied
        /\ received' = received /\ availableData' = availableData
        /\ dataRead' \in Nat /\ left' \in Nat /\ copied' \in Nat
    <3>1. n \in Nat
      BY SizesAssumption
    <3> QED BY <1>0, <1>2, <3>1 DEF Read, input
  <2>2. Returned = copied /\ Returned' = copied' - (dataRead' - left')
    BY <2>1 DEF Returned
  <2> DEFINE c == copied
             d == dataRead'
  <2>3. copied' - (dataRead' - left') = c - (d - d) /\ c \in Nat /\ d \in Nat
    BY <1>0, <2>1, Zenon
  <2> HIDE DEF c, d
  <2>4. c - (d - d) = c
    BY <2>3
  <2>5. copied' - (dataRead' - left') = copied
    BY <2>3, <2>4 DEF c
  <2> QED BY <2>1, <2>2, <2>5
<1>3. CASE Next /\ pc = "read"
  <2>1. CASE /\ pc' = "read" /\ availableData' = availableData
             /\ copied' - copied = left - left'
    <3>1. dataRead' = dataRead /\ received' = received
      BY <1>3, Reading
    <3>2. left' \in Nat /\ copied' \in Nat
      BY <1>3, NextIInv DEF IInv, KInv, TypeOK
    <3>3. Returned = copied - (dataRead - left) /\ Returned' = copied' - (dataRead - left')
      BY <1>3, <2>1, <3>1 DEF Returned
    <3>4. copied' - (dataRead - left') = copied - (dataRead - left)
      <4> DEFINE c == copied
                 e == copied'
                 d == dataRead
                 m == left
                 n == left'
      <4>1. /\ c \in Nat /\ e \in Nat /\ d \in Nat /\ m \in Nat /\ n \in Nat
            /\ e - c = m - n
        BY <1>0, <2>1, <3>2
      <4> HIDE DEF c, e, d, m, n
      <4>2. e - (d - n) = c - (d - m)
        BY <4>1
      <4> QED BY <4>2 DEF c, e, d, m, n
    <3> QED BY <2>1, <3>1, <3>3, <3>4
  <2>2. CASE /\ pc' = "idle" /\ availableData' = availableData - dataRead
             /\ copied' = copied /\ left = 0
    <3>1. received' = received
      BY <1>3, Reading
    <3>2. PICK n \in READS : dataRead = Stream!Least(n, availableData)
      BY <1>3 DEF Asked
    <3>3. Returned = copied - dataRead /\ Returned' = copied
      BY <1>0, <1>3, <2>2 DEF Returned
    <3>4. Returned' = Returned + dataRead
      BY <1>0, <3>3
    <3> QED BY <2>2, <3>1, <3>2, <3>4 DEF Stream!Next, Stream!Read
  <2> QED BY <1>3, <2>1, <2>2, Reading
<1>4. CASE pc # "read" /\ pc' # "read" /\ UNCHANGED <<received, copied, availableData>>
  BY <1>4 DEF Returned
<1>5. CASE UNCHANGED vars
  BY <1>5 DEF vars, loop, input, Returned
<1> QED BY <1>1, <1>2, <1>3, <1>4, <1>5, OutsideReading

(***************************************************************************)
(* The queue of segments, its counter and the loop of read implement a     *)
(* stream of bytes: to its caller a read is one step that takes what was   *)
(* asked for or all there is, and available() says how much that is.       *)
(***************************************************************************)
THEOREM ReadsTheStream == Spec => ReadsAsStream
<1>1. Init => Asked /\ Stream!Init
  BY DEF Init, Asked, Stream!Init, Returned
<1>2. Spec => [](IInv /\ Asked)
  BY <1>1, InitIInv, NextIInv, AskedNext, PTL DEF Spec
<1> QED BY <1>1, <1>2, StreamNext, PTL DEF Spec, ReadsAsStream, Stream!Spec
=============================================================================
