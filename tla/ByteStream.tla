------------------------------ MODULE ByteStream ------------------------------
(***************************************************************************)
(* What available() and read() of the interface Client promise a caller    *)
(* who never sees a segment, a queue or a connection: the bytes form one   *)
(* stream, a call of read takes as many as were asked for, or all there    *)
(* are, and available says how many that is.  Bytes are numbered in the    *)
(* order in which they arrive.                                             *)
(***************************************************************************)
EXTENDS Integers

CONSTANT READS      \* how many bytes a call of read asks for

VARIABLES
    arrived,        \* number of the last byte that has arrived
    returned,       \* number of the last byte that read has returned
    available

Init == arrived = 0 /\ returned = 0 /\ available = 0

Arrive ==
    /\ arrived' > arrived
    /\ available' = available + (arrived' - arrived)
    /\ UNCHANGED returned

Least(m, n) == IF m < n THEN m ELSE n

Read ==
    \E n \in READS :
        /\ returned' = returned + Least(n, available)
        /\ available' = available - Least(n, available)
        /\ UNCHANGED arrived

Next == Arrive \/ Read

Spec == Init /\ [][Next]_<<arrived, returned, available>>
=============================================================================
