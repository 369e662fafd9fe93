------------------------------- MODULE NodeLoop -------------------------------
(***************************************************************************)
(* The loop in which core 0 of all three projects spends its life          *)
(* (mqtt_test): join the WiFi, wait for the Sparkplug node to become       *)
(* active, execute it as long as it is active, look at the link again.     *)
(* The link and the node are driven by lwIP and by the Sparkplug library,  *)
(* which are not in the repository: they change at any time.               *)
(***************************************************************************)
EXTENDS Integers

CONSTANT MAX_RETRIES    \* waits of one millisecond for the node, 5000 in the code

ASSUME RetriesAssumption == MAX_RETRIES \in Nat \ {0}

VARIABLES
    pc0,        \* where core 0 is
    link,       \* cyw43_wifi_link_status(...) == CYW43_LINK_JOIN
    active,     \* node.isActive()
    retries

loopvars == <<pc0, link, active, retries>>

LoopPlaces == {"wifi_connect", "link", "retry", "retried", "loop", "body", "wait"}

LoopInit ==
    /\ pc0 = "wifi_connect"
    /\ link = FALSE
    /\ active \in BOOLEAN
    /\ retries = 0

\* wifi_connect(): it may fail; either way the link status is looked at next.
WifiConnect ==
    /\ pc0 = "wifi_connect"
    /\ pc0' = "link"
    /\ UNCHANGED <<link, active, retries>>

MutLinkUp ==        \* retries declared outside the loop
    /\ pc0 = "link" /\ link
    /\ pc0' = "retry"
    /\ UNCHANGED <<link, active, retries>>
LinkUp ==
    /\ pc0 = "link" /\ link
    /\ retries' = 0
    /\ pc0' = "retry"
    /\ UNCHANGED <<link, active>>

\* The link is down: wait five seconds, then connect again.
LinkDown ==
    /\ pc0 = "link" /\ ~link
    /\ pc0' = "wait"
    /\ UNCHANGED <<link, active, retries>>

Waited ==
    /\ pc0 = "wait"
    /\ pc0' = "wifi_connect"
    /\ UNCHANGED <<link, active, retries>>

\* !node.isActive() && retries++ < MAX_RETRIES: an active node is not counted,
\* the test that ends the wait is.
RetryWait ==
    /\ pc0 = "retry" /\ ~active
    /\ retries' = retries + 1
    /\ pc0' = IF retries < MAX_RETRIES THEN "retry" ELSE "retried"
    /\ UNCHANGED <<link, active>>

RetryActive ==
    /\ pc0 = "retry" /\ active
    /\ pc0' = "retried"
    /\ UNCHANGED <<link, active, retries>>

\* Too many retries: back to the link, also if the node has just become active.
Retried ==
    /\ pc0 = "retried"
    /\ pc0' = IF retries >= MAX_RETRIES THEN "link" ELSE "loop"
    /\ UNCHANGED <<link, active, retries>>

\* while (node.isActive())
LoopTest ==
    /\ pc0 = "loop"
    /\ pc0' = IF active THEN "body" ELSE "link"
    /\ UNCHANGED <<link, active, retries>>

\* The control flow around the body of the inner loop.
ConnectionLoop ==
    \/ WifiConnect \/ LinkUp \/ LinkDown \/ Waited
    \/ RetryWait \/ RetryActive \/ Retried \/ LoopTest

\* The surroundings: the link and the node come and go.
LinkChanges ==
    /\ link' = ~link
    /\ UNCHANGED <<pc0, active, retries>>

NodeChanges ==
    /\ active' = ~active
    /\ UNCHANGED <<pc0, link, retries>>

Environment == LinkChanges \/ NodeChanges

LoopTypeOK ==
    /\ link \in BOOLEAN
    /\ active \in BOOLEAN
    /\ retries \in 0 .. MAX_RETRIES + 1
=============================================================================
