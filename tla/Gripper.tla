------------------------------- MODULE Gripper -------------------------------
(***************************************************************************)
(* policy_runner's gripper_server for one arm: the last command with its   *)
(* age and deadman, the policy for a stale command, contact-close, which   *)
(* drives the jaw past the command until the motor current shows an        *)
(* object, and the serial backend with its deadband and rate limit.        *)
(*                                                                         *)
(* Openings and times are small numbers.  The unit map (four-bar) is       *)
(* monotone, so the motor angle is given by the opening it stands for,     *)
(* clamped to the open stop.  What the sensors report is arbitrary.        *)
(***************************************************************************)
EXTENDS Integers

CONSTANTS
    Full,          \* the largest opening a command names ("open")
    Stop,          \* the open mechanical stop
    ArmBelow, Hysteresis, MinOpening, Squeeze,  \* ContactCloseConfig, in openings
    Sustain,       \* sustain_ms
    Creep,         \* creep per unit of time
    StaleTimeout,  \* stale_timeout_sec
    MinPeriod,     \* 1 / backend_max_hz
    Deadband,      \* deadband_rad
    MaxDt,         \* the longest time between two steps
    Readings,      \* openings the motor position may be reported as; None when it fails
    MaxEvents,     \* bound on the commands and the failing writes
    None

ASSUME NumberAssumption ==
    {Full, Stop, ArmBelow, Hysteresis, MinOpening, Squeeze, Sustain, Creep,
     StaleTimeout, MinPeriod, Deadband, MaxDt, MaxEvents} \subseteq Nat
ASSUME RangeAssumption ==
    /\ MinOpening <= ArmBelow /\ ArmBelow + Hysteresis < Full /\ Stop <= Full
    /\ MaxDt > 0 /\ Sustain > 0 /\ Readings \subseteq 0..Stop \cup {None}

VARIABLES
    settings,  \* [onStale, contact]: on_stale and contact_close.enable
    cmd,       \* _cmd_target
    cmdAge,    \* now - _cmd_time, up to just past StaleTimeout
    deadman,   \* _deadman
    state,     \* the contact-close state
    seek,      \* _seek
    latch,     \* _latched
    hold,      \* _hold_sec, up to Sustain
    first,     \* _last is None: no step has been made yet
    drive,     \* what the last step sent to the backend
    lastSent,  \* the value of _last_sent, or None
    sentAge,   \* its age, up to MinPeriod
    motor,     \* the angle the motor has last been told, or None
    samples,   \* history: consecutive samples over the threshold, while seeking
    events

contactVars == <<state, seek, latch, hold, samples>>
gripperVars == <<settings, cmd, cmdAge, deadman, contactVars, first, drive, lastSent, sentAge, motor, events>>

Openings == 0..Full

min(a, b) == IF a <= b THEN a ELSE b
max(a, b) == IF a >= b THEN a ELSE b

GripperInit ==
    /\ settings \in [onStale: {"hold", "open", "close"}, contact: BOOLEAN]
    /\ cmd = None /\ cmdAge = 0 /\ deadman = TRUE
    /\ state = "idle" /\ seek = 0 /\ latch = None /\ hold = 0 /\ samples = 0
    /\ first = TRUE /\ drive = None /\ lastSent = None /\ sentAge = 0 /\ motor = None
    /\ events = 0
-----------------------------------------------------------------------------
(* effective_targets *)
effectiveTarget(c, age, dead) ==
    IF dead /\ c # None /\ age <= StaleTimeout THEN c
    ELSE CASE settings.onStale = "open" -> Full
           [] settings.onStale = "close" -> 0
           [] OTHER -> c

(* ContactCloseController.apply: the state after the command is looked at. *)
Idle == [state |-> "idle", seek |-> seek, latch |-> None, hold |-> 0, samples |-> 0]

Here == [state |-> state, seek |-> seek, latch |-> latch, hold |-> hold, samples |-> samples]

(* Mutant: the band is widened for arming instead of for releasing. *)
armedByChatter(t) ==
    IF t = None THEN Idle
    ELSE IF state = "idle"
         THEN IF t > ArmBelow + Hysteresis THEN Here
              ELSE [Here EXCEPT !.state = "seeking", !.seek = t, !.hold = 0]
    ELSE IF t > ArmBelow THEN Idle ELSE Here

armedBy(t) ==
    IF t = None THEN Idle
    ELSE IF state = "idle"
         THEN IF t > ArmBelow THEN Here
              ELSE [Here EXCEPT !.state = "seeking", !.seek = t, !.hold = 0]
    ELSE IF t > ArmBelow + Hysteresis THEN Idle ELSE Here

(* Mutant: the time over the threshold is not reset by a sample below it. *)
searchedForgiving(c, over, measured, dt) ==
    LET h == IF over THEN min(c.hold + dt, Sustain) ELSE c.hold
        n == IF over THEN min(c.samples + 1, Sustain) ELSE 0
        sought == max(MinOpening, c.seek - Creep * dt)
    IN IF over /\ h >= Sustain
       THEN [c EXCEPT !.state = "holding", !.hold = h, !.samples = n,
                      !.latch = max(MinOpening, (IF measured # None THEN measured ELSE c.seek) - Squeeze)]
       ELSE [c EXCEPT !.hold = h, !.seek = sought, !.samples = n]

(* One step of the search: contact once the current has been over the      *)
(* threshold for long enough, else the jaw creeps on; empty at the floor.  *)
searched(c, over, measured, dt) ==
    LET h == IF over THEN min(c.hold + dt, Sustain) ELSE 0
        n == IF over THEN min(c.samples + 1, Sustain) ELSE 0
        sought == max(MinOpening, c.seek - Creep * dt)
        empty == sought <= MinOpening /\ measured # None /\ measured <= MinOpening + 1
    IN IF over /\ h >= Sustain
       THEN [c EXCEPT !.state = "holding", !.hold = h, !.samples = n,
                      !.latch = max(MinOpening, (IF measured # None THEN measured ELSE c.seek) - Squeeze)]
       ELSE [c EXCEPT !.hold = h, !.seek = sought, !.samples = n,
                      !.state = IF empty THEN "empty" ELSE @,
                      !.latch = IF empty THEN MinOpening ELSE @]

contactTarget(c, t) ==
    IF t = None \/ c.state = "idle" THEN t
    ELSE min(t, IF c.state \in {"holding", "empty"} THEN c.latch ELSE c.seek)

(* PikaSerialGripperBackend.send *)
clamp(t) == min(t, Stop)

due(t, age) ==
    \/ lastSent = None
    \/ age >= MinPeriod /\ (clamp(t) - lastSent >= Deadband \/ lastSent - clamp(t) >= Deadband)

(* Mutant: the write is recorded whether it worked or not. *)
sendUnchecked(t, age, works) ==
    IF t # None /\ due(t, age)
    THEN lastSent' = clamp(t) /\ sentAge' = 0 /\ motor' = (IF works THEN clamp(t) ELSE motor)
    ELSE lastSent' = lastSent /\ sentAge' = age /\ motor' = motor

send(t, age, works) ==
    IF t # None /\ due(t, age) /\ works
    THEN lastSent' = clamp(t) /\ sentAge' = 0 /\ motor' = clamp(t)
    ELSE lastSent' = lastSent /\ sentAge' = age /\ motor' = motor

(* GripperServer.step: the packets received since the last one are folded  *)
(* into the command, of which the last one counts.                         *)
step(dt, packet, over, measured, works) ==
    LET c == IF packet # None THEN packet.target ELSE cmd
        age == IF packet # None THEN 0 ELSE min(cmdAge + dt, StaleTimeout + 1)
        dead == IF packet # None THEN packet.deadman ELSE deadman
        t == effectiveTarget(c, age, dead)
        passed == IF first THEN 0 ELSE dt
        armed == armedBy(t)
        contact == IF ~settings.contact THEN Here
                   ELSE IF armed.state = "seeking" THEN searched(armed, over, measured, passed)
                   ELSE armed
        d == IF settings.contact THEN contactTarget(contact, t) ELSE t
    IN /\ cmd' = c /\ cmdAge' = age /\ deadman' = dead /\ first' = FALSE
       /\ state' = contact.state /\ seek' = contact.seek /\ latch' = contact.latch
       /\ hold' = contact.hold /\ samples' = contact.samples
       /\ drive' = d
       /\ send(d, min(sentAge + dt, MinPeriod), works)
       /\ UNCHANGED settings

Packets == [target: Openings, deadman: BOOLEAN]

Step ==
    \E dt \in 1..MaxDt, over \in BOOLEAN, measured \in Readings :
        step(dt, None, over, measured, TRUE) /\ UNCHANGED events

StepWithCommand ==
    /\ events < MaxEvents /\ events' = events + 1
    /\ \E dt \in 1..MaxDt, p \in Packets, over \in BOOLEAN, measured \in Readings :
          step(dt, p, over, measured, TRUE)

StepWriteFails ==
    /\ events < MaxEvents /\ events' = events + 1
    /\ \E dt \in 1..MaxDt, over \in BOOLEAN, measured \in Readings :
          step(dt, None, over, measured, FALSE)

GripperNext == Step \/ StepWithCommand \/ StepWriteFails

GripperSpec == GripperInit /\ [][GripperNext]_gripperVars

(* The server's loop runs. *)
FairSpec == GripperSpec /\ WF_gripperVars(Step)
-----------------------------------------------------------------------------
(* Every variable has its type, and the contact-close state has the data   *)
(* it needs.                                                               *)
GripperTypeOK ==
    /\ cmd \in Openings \cup {None} /\ cmdAge \in 0..StaleTimeout + 1 /\ deadman \in BOOLEAN
    /\ state \in {"idle", "seeking", "holding", "empty"} /\ seek \in Openings
    /\ latch \in Openings \cup {None} /\ hold \in 0..Sustain /\ samples \in 0..Sustain
    /\ drive \in Openings \cup {None} /\ lastSent \in 0..Stop \cup {None} /\ sentAge \in 0..MinPeriod
    /\ motor \in 0..Stop \cup {None}
    /\ state \in {"holding", "empty"} <=> latch # None

(* A grip verdict has behind it an unbroken run of samples over the        *)
(* current threshold long enough for the sustain time at the longest step: *)
(* an acceleration spike among lower samples does not latch.               *)
GripIsSustained == state = "holding" => samples * MaxDt >= Sustain

(* While contact-close is engaged the jaw is not driven open without a new *)
(* target: creeping only closes it further and a grip or an empty jaw is   *)
(* kept as latched.  At the moment of the latch alone the target may widen,*)
(* from the seek target to where the object has stopped the jaw.           *)
OnlyCommandOpens ==
    [][settings.contact /\ state # "idle" /\ drive # None /\ drive' > drive =>
          \/ effectiveTarget(cmd', cmdAge', deadman') # effectiveTarget(cmd, cmdAge, deadman)
          \/ state = "seeking" /\ state' = "holding"]_gripperVars

(* What the server drives for gets to the motor: in the end the last angle *)
(* written is within the deadband of it, whatever writes failed or were    *)
(* rate-limited on the way.                                                *)
DriveReachesMotor ==
    <>[](drive # None => motor # None /\ clamp(drive) - motor < Deadband /\ motor - clamp(drive) < Deadband)
=============================================================================
