------------------------------- MODULE Mailbox -------------------------------
(***************************************************************************)
(* What a queue of capacity one between the two cores promises: a value    *)
(* put into the empty box stays there until the other side takes it.       *)
(* Nothing is overwritten, lost, taken twice or taken out of order.  The   *)
(* values are numbered in the order in which they come about, so that      *)
(* order is a comparison.                                                  *)
(***************************************************************************)
EXTENDS Integers, Sequences

VARIABLES
    box,        \* a sequence of at most one value
    taken       \* the value taken last

Init == box = <<>> /\ taken \in Nat

Put ==
    /\ box = <<>>
    /\ box' \in Seq(Nat) /\ Len(box') = 1
    /\ Head(box') >= taken
    /\ UNCHANGED taken

Take ==
    /\ box # <<>>
    /\ taken' = Head(box)
    /\ box' = <<>>

Next == Put \/ Take

Spec == Init /\ [][Next]_<<box, taken>>
=============================================================================
