------------------------------ MODULE DoorQueues ------------------------------
(***************************************************************************)
(* projects/garage_door/src/main.cpp: the two cores of the garage door and *)
(* the two queues of capacity one between them.                            *)
(*                                                                         *)
(*   core 1 (door_main) polls sparkplugQueue for a command, executes the   *)
(*     door control and, when execute returns true and doorQueue is empty, *)
(*     queues the data of the door;                                        *)
(*   core 0 (mqtt_test) is the loop of NodeLoop; its body polls doorQueue, *)
(*     sets the metrics and executes the node, which calls the command     *)
(*     callback of the position metric for every command that arrived.     *)
(*                                                                         *)
(* Each test of a queue and each operation on it is a step of its own: the *)
(* cores interleave between queue_is_empty and the blocking call after it. *)
(* The door control is what its caller sees of it: a call of execute       *)
(* samples (returns true) or not (returns 0), and the data of the door get *)
(* a new number whenever they change.                                      *)
(***************************************************************************)
EXTENDS NodeLoop, Sequences

CONSTANTS
    MAX_COMMANDS,   \* bound: the commands that arrive
    MAX_CHANGES     \* bound: the changes of the data of the door

ASSUME BoundsAssumption == MAX_COMMANDS \in Nat /\ MAX_CHANGES \in Nat \ {0}

VARIABLES
    sparkplugQueue, doorQueue,  \* capacity 1
    arrived,    \* commands that arrived so far; a command is its number
    pc1,        \* where core 1 is
    target,     \* the last command given to door_control_set_position
    data,       \* number of the current data of the door
    metrics     \* number of the data last set as metrics

queues == <<sparkplugQueue, doorQueue>>
core1  == <<pc1, target, data>>
vars   == <<loopvars, queues, arrived, core1, metrics>>

Init ==
    /\ LoopInit
    /\ sparkplugQueue = <<>>
    /\ doorQueue = <<>>
    /\ arrived = 0
    /\ pc1 = "check"
    /\ target = 0
    /\ data = 1
    /\ metrics = 0

-----------------------------------------------------------------------------
(* Core 0: the body of the inner loop. *)

\* queue_is_empty(&doorQueue)
BodyTest ==
    /\ pc0 = "body"
    /\ pc0' = IF doorQueue = <<>> THEN "execute" ELSE "take"
    /\ UNCHANGED <<link, active, retries, queues, arrived, core1, metrics>>

\* queue_remove_blocking(&doorQueue, &value) and the three setValue.
MutTakeData ==          \* the data are read but not removed
    /\ pc0 = "take" /\ doorQueue # <<>>
    /\ metrics' = Head(doorQueue)
    /\ pc0' = "execute"
    /\ UNCHANGED <<link, active, retries, queues, arrived, core1>>
TakeData ==
    /\ pc0 = "take" /\ doorQueue # <<>>
    /\ metrics' = Head(doorQueue)
    /\ doorQueue' = <<>>
    /\ pc0' = "execute"
    /\ UNCHANGED <<link, active, retries, sparkplugQueue, arrived, core1>>

\* node.execute() handles a command: the callback tests sparkplugQueue.  A
\* command that finds it occupied is dropped.
MutCallbackUntested ==  \* the callback relies on the blocking call
    /\ pc0 = "execute" /\ arrived < MAX_COMMANDS
    /\ arrived' = arrived + 1
    /\ pc0' = "add"
    /\ UNCHANGED <<link, active, retries, queues, core1, metrics>>
MutCallbackNewest ==    \* the newest command replaces the one that waits
    /\ pc0 = "execute" /\ arrived < MAX_COMMANDS
    /\ arrived' = arrived + 1
    /\ sparkplugQueue' = <<>>
    /\ pc0' = "add"
    /\ UNCHANGED <<link, active, retries, doorQueue, core1, metrics>>
CommandCallback ==
    /\ pc0 = "execute" /\ arrived < MAX_COMMANDS
    /\ arrived' = arrived + 1
    /\ pc0' = IF sparkplugQueue = <<>> THEN "add" ELSE "execute"
    /\ UNCHANGED <<link, active, retries, queues, core1, metrics>>

\* queue_add_blocking(&sparkplugQueue, &payload->value)
AddCommand ==
    /\ pc0 = "add" /\ sparkplugQueue = <<>>
    /\ sparkplugQueue' = <<arrived>>
    /\ pc0' = "execute"
    /\ UNCHANGED <<link, active, retries, doorQueue, arrived, core1, metrics>>

\* node.execute() returns; sleep and poll.
Executed ==
    /\ pc0 = "execute"
    /\ pc0' = "loop"
    /\ UNCHANGED <<link, active, retries, queues, arrived, core1, metrics>>

Core0 ==
    \/ ConnectionLoop /\ UNCHANGED <<queues, arrived, core1, metrics>>
    \/ BodyTest \/ TakeData \/ CommandCallback \/ AddCommand \/ Executed

-----------------------------------------------------------------------------
(* Core 1: door_main. *)

\* queue_is_empty(&sparkplugQueue)
CheckCommand ==
    /\ pc1 = "check"
    /\ pc1' = IF sparkplugQueue = <<>> THEN "control" ELSE "remove"
    /\ UNCHANGED <<loopvars, queues, arrived, target, data, metrics>>

\* The data of the door are new, or the same; MAX_CHANGES bounds the model.
DataMayChange == data' \in {data, data + 1} \cap 1 .. MAX_CHANGES

\* queue_remove_blocking(&sparkplugQueue, &value) and set_position, which
\* clears the result of the control.
RemoveCommand ==
    /\ pc1 = "remove" /\ sparkplugQueue # <<>>
    /\ target' = Head(sparkplugQueue)
    /\ sparkplugQueue' = <<>>
    /\ DataMayChange
    /\ pc1' = "control"
    /\ UNCHANGED <<loopvars, doorQueue, arrived, metrics>>

\* execute returns 0 before its sampling deadline: the data stay.
ExecutePoll ==
    /\ pc1 = "control"
    /\ pc1' = "check"
    /\ UNCHANGED <<loopvars, queues, arrived, target, data, metrics>>

\* execute samples and returns true, whether or not the data changed; then
\* queue_is_empty(&doorQueue).
MutExecuteSample ==     \* it returns whether the data changed
    /\ pc1 = "control"
    /\ DataMayChange
    /\ pc1' = IF data' # data /\ doorQueue = <<>> THEN "report" ELSE "check"
    /\ UNCHANGED <<loopvars, queues, arrived, target, metrics>>
ExecuteSample ==
    /\ pc1 = "control"
    /\ DataMayChange
    /\ pc1' = IF doorQueue = <<>> THEN "report" ELSE "check"
    /\ UNCHANGED <<loopvars, queues, arrived, target, metrics>>

\* door_control_get and queue_add_blocking(&doorQueue, &doorData)
AddData ==
    /\ pc1 = "report" /\ doorQueue = <<>>
    /\ doorQueue' = <<data>>
    /\ pc1' = "check"
    /\ UNCHANGED <<loopvars, sparkplugQueue, arrived, target, data, metrics>>

Core1 == CheckCommand \/ RemoveCommand \/ ExecutePoll \/ ExecuteSample \/ AddData

-----------------------------------------------------------------------------
Surroundings == Environment /\ UNCHANGED <<queues, arrived, core1, metrics>>

Next == Core0 \/ Core1 \/ Surroundings

Spec == Init /\ [][Next]_vars

(***************************************************************************)
(* Both cores run for ever, and the clock lets execute sample again and    *)
(* again (ExecuteSample).                                                  *)
(***************************************************************************)
Fairness ==
    /\ WF_vars(Core0)
    /\ WF_vars(Core1) /\ SF_vars(ExecuteSample)

FairSpec == Spec /\ Fairness

-----------------------------------------------------------------------------
TypeOK ==
    /\ LoopTypeOK
    /\ pc0 \in LoopPlaces \cup {"take", "execute", "add"}
    /\ pc1 \in {"check", "remove", "control", "report"}
    /\ arrived \in 0 .. MAX_COMMANDS
    /\ target \in 0 .. MAX_COMMANDS
    /\ data \in 1 .. MAX_CHANGES
    /\ metrics \in 0 .. MAX_CHANGES
    /\ sparkplugQueue \in {<<>>} \cup {<<c>> : c \in 1 .. MAX_COMMANDS}
    /\ doorQueue \in {<<>>} \cup {<<n>> : n \in 1 .. MAX_CHANGES}

(***************************************************************************)
(* No core ever waits inside a queue.  Both use the blocking calls after a *)
(* test, and the test is still true when the call comes, because only the  *)
(* caller itself could make it false.  Were core 1 to block, the relay     *)
(* would stay closed; were core 0 to, the node would be lost.              *)
(***************************************************************************)
NeverBlocks ==
    /\ pc0 = "take" => doorQueue # <<>>
    /\ pc0 = "add" => sparkplugQueue = <<>>
    /\ pc1 = "remove" => sparkplugQueue # <<>>
    /\ pc1 = "report" => doorQueue = <<>>

(***************************************************************************)
(* Each queue is a mailbox: what one core puts in is taken by the other    *)
(* exactly once and in order.  A command never overtakes or repeats one,   *)
(* and the metrics never go back to older data of the door.                *)
(***************************************************************************)
CommandMailbox == INSTANCE Mailbox WITH box <- sparkplugQueue, taken <- target
DataMailbox    == INSTANCE Mailbox WITH box <- doorQueue, taken <- metrics

CommandsDelivered == CommandMailbox!Spec
DataDelivered     == DataMailbox!Spec

(***************************************************************************)
(* A command that was accepted reaches the door control, whatever becomes  *)
(* of the network.                                                         *)
(***************************************************************************)
AcceptedIsApplied ==
    \A c \in 1 .. MAX_COMMANDS : sparkplugQueue = <<c>> ~> target = c

(***************************************************************************)
(* Once the link and the node stay up and the door rests, the metrics come *)
(* to show the last data of the door, although a change is dropped when    *)
(* the queue is occupied and although the queue may hold data from before  *)
(* the connection was lost.  This is what the unconditional return true of *)
(* execute is for.                                                         *)
(***************************************************************************)
LastDataPublished ==
    <>[](link /\ active) => <>[](metrics = data)

(***************************************************************************)
(* Once the link and the node stay up, core 0 executes the node for ever,  *)
(* after any number of failed waits, also when the node becomes active     *)
(* with the last retry.                                                    *)
(***************************************************************************)
NodeServed ==
    <>[](link /\ active) => []<>(pc0 = "execute")
=============================================================================
