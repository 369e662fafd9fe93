------------------------------ MODULE Timestamp ------------------------------
(***************************************************************************)
(* The microsecond clock of the RP2040 and the one comparison              *)
(* door_control.c makes with it.  time_us_32() is a free-running counter   *)
(* of TIME_MOD (2^32) values: it returns to 0 every 71.6 minutes, and      *)
(* every deadline the code keeps is a value of that counter.               *)
(***************************************************************************)
EXTENDS Integers

CONSTANT TIME_MOD   \* number of values of the clock: 2^32 in the code

ASSUME TimeAssumption == TIME_MOD \in Nat \ {0}

MAX_TIME == TIME_MOD - 1

Time == 0 .. MAX_TIME

\* uint32_t addition: time_us_32() + DELAY.
UAdd(a, b) == (a + b) % TIME_MOD

\* Mutant: the comparison without its wrap guard.
MutNoWrapGuard(at, stamp, max) == at > stamp

(***************************************************************************)
(* timestamp_elapsed(stamp, max), called at the instant at.  stamp is      *)
(* already the deadline (the instant of arming plus max).  The second      *)
(* comparison refuses a deadline that lies beyond the next wrap of the     *)
(* clock.  The sum does not overflow where it matters: its value is        *)
(* looked at only when at > stamp.                                         *)
(***************************************************************************)
TimestampElapsed(at, stamp, max) ==
    /\ at > stamp
    /\ (MAX_TIME - at) + stamp > max
=============================================================================
