--------------------------- MODULE DoorQueuesProofs ---------------------------
(***************************************************************************)
(* The two queues between the cores, for every number of commands, changes *)
(* of the door and retries: no core blocks in a queue, and each queue      *)
(* implements a mailbox.                                                   *)
(***************************************************************************)
EXTENDS DoorQueues, TLAPS

\* Both queues carry rising numbers.
Rising ==
    /\ target <= arrived
    /\ metrics <= data
    /\ pc0 = "add" => arrived > 0
    /\ sparkplugQueue # <<>> => target <= Head(sparkplugQueue) /\ Head(sparkplugQueue) <= arrived
    /\ doorQueue # <<>> => metrics <= Head(doorQueue) /\ Head(doorQueue) <= data

\* The count of retries passes MAX_RETRIES only on the way out of the wait.
WaitBounded == pc0 = "retry" => retries <= MAX_RETRIES

(***************************************************************************)
(* The inductive invariant.  NeverBlocks is inductive by itself: for each  *)
(* pending operation of one core, the other core can only make room or add *)
(* a value, never the opposite.                                            *)
(***************************************************************************)
IInv == TypeOK /\ NeverBlocks /\ Rising /\ WaitBounded

USE RetriesAssumption, BoundsAssumption

LEMMA InitInv == Init => IInv
<1> SUFFICES ASSUME Init PROVE IInv
  OBVIOUS
<1>1. TypeOK
  <2>1. link \in BOOLEAN /\ active \in BOOLEAN
    BY DEF Init, LoopInit
  <2>3. retries \in 0 .. MAX_RETRIES + 1
    BY DEF Init, LoopInit
  <2>2. pc0 = "wifi_connect" /\ pc0 \in LoopPlaces
    BY DEF Init, LoopInit, LoopPlaces
  <2> QED
    BY <2>1, <2>2, <2>3 DEF Init, TypeOK, LoopTypeOK
<1>2. NeverBlocks /\ Rising /\ WaitBounded
  BY DEF Init, LoopInit, NeverBlocks, Rising, WaitBounded
<1> QED
  BY <1>1, <1>2 DEF IInv

\* The loop around the body leaves the queues alone and keeps out of the
\* places where core 0 operates on them.
LEMMA ConnectionLoopInv ==
    ASSUME IInv, ConnectionLoop, UNCHANGED <<queues, arrived, core1, metrics>>
    PROVE  IInv'
<1> USE DEF IInv, TypeOK, LoopTypeOK
<1>1. link' = link /\ active' = active
  BY DEF ConnectionLoop, WifiConnect, LinkUp, LinkDown, Waited, RetryWait, RetryActive,
         Retried, LoopTest
<1>2. retries' \in 0 .. MAX_RETRIES + 1
  <2>1. CASE RetryWait
    BY <2>1 DEF RetryWait, WaitBounded
  <2>2. CASE LinkUp
    BY <2>2 DEF LinkUp
  <2> QED
    BY <2>1, <2>2 DEF ConnectionLoop, WifiConnect, LinkDown, Waited, RetryActive,
                      Retried, LoopTest
<1>3. pc0' \in LoopPlaces
  BY DEF LoopPlaces, ConnectionLoop, WifiConnect, LinkUp, LinkDown, Waited, RetryWait,
         RetryActive, Retried, LoopTest
<1>4. WaitBounded'
  BY DEF WaitBounded, ConnectionLoop, WifiConnect, LinkUp, LinkDown, Waited, RetryWait,
         RetryActive, Retried, LoopTest
<1> QED
  BY <1>1, <1>2, <1>3, <1>4 DEF NeverBlocks, Rising, LoopPlaces, queues, core1

\* The body: one case per step of core 0.
LEMMA BodyInv ==
    ASSUME IInv, BodyTest \/ TakeData \/ CommandCallback \/ AddCommand \/ Executed
    PROVE  IInv'
<1> USE DEF IInv, TypeOK, LoopTypeOK, LoopPlaces, NeverBlocks, Rising, WaitBounded, queues, core1
<1>1. CASE BodyTest
  BY <1>1 DEF BodyTest
<1>2. CASE TakeData
  BY <1>2 DEF TakeData
<1>3. CASE CommandCallback
  BY <1>3 DEF CommandCallback
<1>4. CASE AddCommand
  <2>1. sparkplugQueue' \in {<<c>> : c \in 1 .. MAX_COMMANDS} /\ Head(sparkplugQueue') = arrived
    BY <1>4 DEF AddCommand
  <2> QED
    BY <1>4, <2>1 DEF AddCommand
<1>5. CASE Executed
  BY <1>5 DEF Executed
<1> QED
  BY <1>1, <1>2, <1>3, <1>4, <1>5

\* Core 1: one case per step.
LEMMA Core1Inv == ASSUME IInv, Core1 PROVE IInv'
<1> USE DEF IInv, TypeOK, LoopTypeOK, LoopPlaces, NeverBlocks, Rising, WaitBounded, queues, loopvars
<1>1. CASE CheckCommand
  BY <1>1 DEF CheckCommand
<1>2. CASE RemoveCommand
  BY <1>2 DEF RemoveCommand, DataMayChange
<1>3. CASE ExecutePoll
  BY <1>3 DEF ExecutePoll
<1>4. CASE ExecuteSample
  BY <1>4 DEF ExecuteSample, DataMayChange
<1>5. CASE AddData
  <2>1. doorQueue' \in {<<k>> : k \in 1 .. MAX_CHANGES} /\ Head(doorQueue') = data
    BY <1>5 DEF AddData
  <2> QED
    BY <1>5, <2>1 DEF AddData
<1> QED
  BY <1>1, <1>2, <1>3, <1>4, <1>5 DEF Core1

LEMMA NextInv == IInv /\ [Next]_vars => IInv'
<1> SUFFICES ASSUME IInv, [Next]_vars PROVE IInv'
  OBVIOUS
<1>1. CASE Core0
  BY <1>1, ConnectionLoopInv, BodyInv DEF Core0
<1>2. CASE Core1
  BY <1>2, Core1Inv
<1>3. CASE Surroundings
  <2>1. /\ UNCHANGED <<pc0, retries, sparkplugQueue, doorQueue, arrived, pc1, target, data, metrics>>
        /\ link' = ~link \/ link' = link
        /\ active' = ~active \/ active' = active
    BY <1>3 DEF Surroundings, Environment, LinkChanges, NodeChanges, queues, core1
  <2>2. link' \in BOOLEAN /\ active' \in BOOLEAN
    BY <2>1 DEF IInv, TypeOK, LoopTypeOK
  <2>3. TypeOK'
    BY <2>1, <2>2 DEF IInv, TypeOK, LoopTypeOK
  <2>4. NeverBlocks' /\ Rising' /\ WaitBounded'
    BY <2>1 DEF IInv, NeverBlocks, Rising, WaitBounded
  <2> QED
    BY <2>3, <2>4 DEF IInv
<1>4. CASE UNCHANGED vars
  BY <1>4 DEF vars, loopvars, queues, core1, IInv, TypeOK, LoopTypeOK, NeverBlocks, Rising,
              WaitBounded
<1> QED
  BY <1>1, <1>2, <1>3, <1>4 DEF Next

\* The invariant of the two cores and the connection loop is inductive.
THEOREM Invariance == Spec => []IInv
  BY InitInv, NextInv, PTL DEF Spec

\* Every variable has its type, and no queue ever holds more than one value.
THEOREM QueuesTyped == Spec => []TypeOK
<1>1. IInv => TypeOK
  BY DEF IInv
<1> QED
  BY Invariance, <1>1, PTL
(***************************************************************************)
(* Neither core ever waits inside a blocking call on a queue: the test it  *)
(* made before the call still holds.                                       *)
(***************************************************************************)
THEOREM CoresNeverBlock == Spec => []NeverBlocks
<1>1. IInv => NeverBlocks
  BY DEF IInv
<1> QED
  BY <1>1, Invariance, PTL
(***************************************************************************)
(* The command queue implements a mailbox: a command that was accepted is  *)
(* given to the door control once, in order, never overwritten.            *)
(***************************************************************************)
THEOREM CommandQueueIsMailbox == Spec => CommandsDelivered
<1>1. Init => CommandMailbox!Init
  BY DEF Init, CommandMailbox!Init
<1>2. IInv /\ [Next]_vars => [CommandMailbox!Next]_<<sparkplugQueue, target>>
  <2> SUFFICES ASSUME IInv, Next, ~UNCHANGED <<sparkplugQueue, target>>
               PROVE  CommandMailbox!Next
    BY DEF vars, queues, core1
  <2>1. AddCommand \/ RemoveCommand
    BY DEF Next, Core0, Core1, Surroundings, BodyTest, TakeData, CommandCallback, Executed,
           CheckCommand, ExecutePoll, ExecuteSample, AddData, queues, core1
  <2>2. CASE AddCommand
    <3>1. sparkplugQueue' \in Seq(Nat) /\ Len(sparkplugQueue') = 1
          /\ Head(sparkplugQueue') = arrived
      BY <2>2 DEF AddCommand, IInv, TypeOK
    <3> QED
      BY <2>2, <3>1 DEF AddCommand, IInv, Rising, core1, CommandMailbox!Next, CommandMailbox!Put
  <2>3. CASE RemoveCommand
    BY <2>3 DEF RemoveCommand, CommandMailbox!Next, CommandMailbox!Take
  <2> QED
    BY <2>1, <2>2, <2>3
<1> QED
  BY <1>1, <1>2, Invariance, PTL DEF Spec, CommandsDelivered, CommandMailbox!Spec

(***************************************************************************)
(* The data queue implements a mailbox: the metrics never go back to older *)
(* data of the door, and no data are set twice from one entry.             *)
(***************************************************************************)
THEOREM DataQueueIsMailbox == Spec => DataDelivered
<1>1. Init => DataMailbox!Init
  BY DEF Init, DataMailbox!Init
<1>2. IInv /\ [Next]_vars => [DataMailbox!Next]_<<doorQueue, metrics>>
  <2> SUFFICES ASSUME IInv, Next, ~UNCHANGED <<doorQueue, metrics>>
               PROVE  DataMailbox!Next
    BY DEF vars, queues
  <2>1. TakeData \/ AddData
    BY DEF Next, Core0, Core1, Surroundings, BodyTest, CommandCallback, AddCommand, Executed,
           CheckCommand, RemoveCommand, ExecutePoll, ExecuteSample, queues
  <2>2. CASE AddData
    <3>1. doorQueue' \in Seq(Nat) /\ Len(doorQueue') = 1 /\ Head(doorQueue') = data
      BY <2>2 DEF AddData, IInv, TypeOK
    <3> QED
      BY <2>2, <3>1 DEF AddData, IInv, Rising, DataMailbox!Next, DataMailbox!Put
  <2>3. CASE TakeData
    BY <2>3 DEF TakeData, DataMailbox!Next, DataMailbox!Take
  <2> QED
    BY <2>1, <2>2, <2>3
<1> QED
  BY <1>1, <1>2, Invariance, PTL DEF Spec, DataDelivered, DataMailbox!Spec

=============================================================================
