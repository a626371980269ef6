------------------------------ MODULE ServoLatch ------------------------------
(***************************************************************************)
(* What the fault latch of the servo loop promises its callers, whatever   *)
(* the commands, faults and tick order: a live loop may send freely; once  *)
(* latched it sends at most a bounded brake ramp and then nothing, until a *)
(* reset makes it live again.                                              *)
(***************************************************************************)
EXTENDS Naturals

CONSTANT Budget     \* most targets delivered after a latch

VARIABLES
    mode,           \* "Live", "Braking" or "Silent"
    sends           \* targets delivered since the latch

latchVars == <<mode, sends>>

LatchInit == mode = "Live" /\ sends = 0

Latch ==
    /\ mode = "Live"
    /\ mode' \in {"Braking", "Silent"}
    /\ sends' = 0

Brake ==
    /\ mode = "Braking"
    /\ sends < Budget
    /\ sends' = sends + 1
    /\ UNCHANGED mode

Silence ==
    /\ mode = "Braking"
    /\ mode' = "Silent"
    /\ UNCHANGED sends

Reset ==
    /\ mode # "Live"
    /\ mode' = "Live"
    /\ sends' = 0

LatchNext == Latch \/ Brake \/ Silence \/ Reset

LatchSpec == LatchInit /\ [][LatchNext]_latchVars
=============================================================================
