--------------------------- MODULE MotionLifecycle ---------------------------
(***************************************************************************)
(* The lifecycle of motion in one tick of DualArmServoLoop::loopMain: the  *)
(* dispatch of the target staged by the previous tick, the state read, the *)
(* command dispatch chain, the freedrive and deactivated-box gates, the    *)
(* choice of a target, the fault ramp, the send, and the faults latched on *)
(* the way.  Poses and velocities are reduced to the kind of target that   *)
(* is sent and to whether the last delivered samples still move.           *)
(***************************************************************************)
EXTENDS Naturals

CONSTANTS
    Commands,      \* pairs of modes the command buffer may hand out
    Configs,       \* server configurations, a subset of Config
    BrakeTicks,    \* the brake deadline, in ticks
    BoxTicks       \* kBoxDeactivatedLatchTicks

CommandModes == {"Hold", "Stale", "Motion", "EmergencyStop", "ResetFault", "ArmMotion",
                 "DisarmMotion", "FreedriveOn", "FreedriveOff", "Setting"}

(* servo.send_at_tick_start, !servo.send_servo_commands, and whether state *)
(* and send errors latch (isRealMode(), or the two safety options on).     *)
Config == [sendAtTop: BOOLEAN, readOnly: BOOLEAN, strict: BOOLEAN]

ASSUME CommandsAssumption == Commands \subseteq CommandModes \X CommandModes
ASSUME ConfigsAssumption == Configs \subseteq Config
ASSUME BrakeTicksAssumption == BrakeTicks \in Nat
ASSUME BoxTicksAssumption == BoxTicks \in Nat \ {0}

VARIABLES
    config, pc,
    motion,        \* motion_state_
    latched,       \* fault_latched_
    cause,         \* the verdict and the domain of the latch
    brake,         \* fault_brake_active_
    brakeLeft,     \* ticks to fault_brake_deadline_ns_
    armed,         \* servo_stream_armed_
    freedrive,     \* anyFreedriveActive()
    sample,        \* the states read this tick
    boxTicks,      \* box_deactivated_ticks
    wants,         \* the command after the dispatch chain: "hold" or "motion"
    blocked,       \* read_only_command_blocked
    target,        \* kind of the target of this tick
    staged,        \* pending_top_send: a kind of target or "none"
    sent,          \* kind of the target the last dispatch delivered or "none"
    moving,        \* the last two delivered samples differ
    sends          \* history: targets delivered since the latch

faultVars == <<motion, latched, cause, brake, brakeLeft>>
wireVars == <<staged, sent, moving, sends>>
tickVars == <<sample, boxTicks, wants, blocked, target>>
lifecycleVars == <<config, pc, faultVars, armed, freedrive, tickVars, wireVars>>

Kinds == {"motion", "hold", "ramp"}
NoFault == [verdict |-> "Ok", domain |-> "None"]

LifecycleInit ==
    /\ config \in Configs
    /\ pc = "top"
    /\ motion = "ConnectedHold" /\ latched = FALSE /\ cause = NoFault
    /\ brake = FALSE /\ brakeLeft = 0
    /\ armed = FALSE /\ freedrive = FALSE
    /\ sample = "ok" /\ boxTicks = 0 /\ wants = "hold" /\ blocked = FALSE /\ target = "hold"
    /\ staged = "none" /\ sent = "none" /\ moving = FALSE /\ sends = 0
-----------------------------------------------------------------------------
faultBrakeEligible(c, streaming) ==
    /\ c.verdict # "EmergencyStop"
    /\ c.domain \notin {"Emergency", "Backend", "RobotState"}
    /\ streaming

(* latchFault: the first cause is kept.                                    *)
latchWith(c, streaming) ==
    IF latched
    THEN UNCHANGED faultVars
    ELSE /\ latched' = TRUE
         /\ cause' = c
         /\ motion' = IF c.verdict = "EmergencyStop" THEN "EmergencyLatched" ELSE "FaultLatched"
         /\ brake' = faultBrakeEligible(c, streaming)
         /\ brakeLeft' = IF faultBrakeEligible(c, streaming) THEN BrakeTicks ELSE 0

latchFault(c) == latchWith(c, armed)

(* Faulty variant: the policy trusts the motion state alone.               *)
currentSendPolicyByState ==
    CASE motion = "EmergencyLatched" -> "emergency_latched"
      [] motion # "EmergencyLatched" /\ config.readOnly -> "read_only"
      [] motion = "FaultLatched" /\ ~config.readOnly /\ brake -> "fault_brake"
      [] motion = "FaultLatched" /\ ~config.readOnly /\ ~brake -> "fault_latched"
      [] motion \notin {"EmergencyLatched", "FaultLatched"} /\ ~config.readOnly ->
            IF freedrive THEN "freedrive"
            ELSE IF armed THEN "send_servo_j" ELSE "awaiting_first_motion_command"

currentSendPolicy ==
    IF motion = "EmergencyLatched" THEN "emergency_latched"
    ELSE IF config.readOnly THEN "read_only"
    ELSE IF latched /\ brake THEN "fault_brake"
    ELSE IF latched \/ motion = "FaultLatched" THEN "fault_latched"
    ELSE IF freedrive THEN "freedrive"
    ELSE IF armed THEN "send_servo_j" ELSE "awaiting_first_motion_command"

sendPolicyDelivers == currentSendPolicy \in {"send_servo_j", "fault_brake"}

(* sendTargets and the booking of what was delivered.  The velocity of the *)
(* delivered samples is free for a motion target and can only end under a  *)
(* ramp.                                                                   *)
sendTargets(kind) ==
    IF sendPolicyDelivers /\ kind # "none"
    THEN /\ sent' = kind
         /\ moving' \in (IF kind = "ramp" THEN {moving, FALSE} ELSE BOOLEAN)
         /\ sends' = IF latched THEN sends + 1 ELSE sends
    ELSE /\ sent' = "none"
         /\ UNCHANGED <<moving, sends>>

(* The top of the tick: with send_at_tick_start, what the last tick staged *)
(* is sent now, under the policy of this moment.                           *)
Top ==
    /\ pc = "top"
    /\ pc' = "read"
    /\ IF config.sendAtTop
       THEN sendTargets(staged) /\ staged' = "none"
       ELSE UNCHANGED wireVars
    /\ UNCHANGED <<config, faultVars, armed, freedrive, tickVars>>

(* "failed" and "disconnected" reads carry a classified context; "invalid" *)
(* is a good read of joints that are not a valid state; "box_off" is a     *)
(* good read of a control box that stopped being a servo.                  *)
ReadStates ==
    /\ pc = "read"
    /\ pc' = "command"
    /\ sample' \in {"ok", "invalid", "failed", "disconnected", "box_off"}
    /\ UNCHANGED <<config, faultVars, armed, freedrive, boxTicks, wants, blocked, target,
                   wireVars>>

(* Asynchronous streaming supervision finds a broken stream.               *)
AsyncSupervisionFault ==
    /\ pc = "command"
    /\ ~latched
    /\ latchFault([verdict |-> "SendFailure", domain |-> "Backend"])
    /\ UNCHANGED <<config, pc, armed, freedrive, tickVars, wireVars>>
-----------------------------------------------------------------------------
(* The command dispatch chain.  A command is a pair of modes, one per arm; *)
(* the branches are tried in this order and every one but the last leaves  *)
(* a hold.                                                                 *)
has(c, m) == m \in {c[1], c[2]}

commandBlockedByReadOnly(c) == has(c, "ArmMotion") \/ has(c, "Motion")

(* Which branch of the chain a command takes.                              *)
branch(c) ==
    IF config.readOnly /\ commandBlockedByReadOnly(c) THEN "blocked"
    ELSE IF has(c, "EmergencyStop") THEN "emergency_stop"
    ELSE IF has(c, "ResetFault") THEN "reset_fault"
    ELSE IF has(c, "Setting") THEN "setting"
    ELSE IF has(c, "DisarmMotion") THEN "disarm"
    ELSE IF c = <<"Hold", "Hold">> THEN "explicit_hold"
    ELSE IF has(c, "ArmMotion") THEN "arm"
    ELSE IF has(c, "FreedriveOn") \/ has(c, "FreedriveOff") THEN "freedrive"
    ELSE IF has(c, "Motion") THEN "motion"
    ELSE "hold"

(* What every branch does: the tick goes on with a hold or a motion.       *)
dispatched(c, w) ==
    /\ pc = "command"
    /\ pc' = "gates"
    /\ wants' = w
    /\ blocked' = (branch(c) = "blocked")
    /\ UNCHANGED <<config, boxTicks, target, staged, sent>>

setMotionState(s) ==
    /\ motion' = s
    /\ UNCHANGED <<latched, cause, brake, brakeLeft>>

ReadOnlyBlocked(c) ==
    /\ branch(c) = "blocked"
    /\ dispatched(c, "hold")
    /\ setMotionState("ConnectedHold")
    /\ UNCHANGED <<armed, freedrive, sample, moving, sends>>

EmergencyStop(c) ==
    /\ branch(c) = "emergency_stop"
    /\ dispatched(c, "hold")
    /\ latchFault([verdict |-> "EmergencyStop", domain |-> "Emergency"])
    /\ UNCHANGED <<armed, freedrive, sample, moving, sends>>

(* clearFaultLatch: the backends reset and a fresh valid state was read,   *)
(* which replaces the sample of this tick.                                 *)
clearFaultLatch ==
    /\ latched' = FALSE /\ cause' = NoFault
    /\ brake' = FALSE /\ UNCHANGED brakeLeft
    /\ motion' = "ConnectedHold"
    /\ sample' \in {"ok", "box_off"}
    /\ moving' = FALSE
    /\ sends' = 0

ResetFault(c) ==
    /\ branch(c) = "reset_fault"
    /\ \/ /\ ~config.readOnly /\ latched
          /\ clearFaultLatch
          /\ pc = "command" /\ pc' = "gates" /\ wants' = "hold" /\ blocked' = FALSE
          /\ UNCHANGED <<config, boxTicks, target, staged, sent>>
       \/ /\ config.readOnly \/ latched
          /\ dispatched(c, "hold")
          /\ UNCHANGED <<faultVars, sample, moving, sends>>
       \/ /\ ~config.readOnly /\ ~latched
          /\ dispatched(c, "hold")
          /\ setMotionState("ConnectedHold")
          /\ UNCHANGED <<sample, moving, sends>>
    /\ UNCHANGED <<armed, freedrive>>

(* Tare and the runtime settings: a hold, whatever the latch.              *)
Setting(c) ==
    /\ branch(c) = "setting"
    /\ dispatched(c, "hold")
    /\ UNCHANGED <<faultVars, armed, freedrive, sample, moving, sends>>

DisarmMotion(c) ==
    /\ branch(c) = "disarm"
    /\ dispatched(c, "hold")
    /\ setMotionState("ConnectedHold")
    /\ UNCHANGED <<armed, freedrive, sample, moving, sends>>

ExplicitHold(c) ==
    /\ branch(c) = "explicit_hold"
    /\ dispatched(c, "hold")
    /\ setMotionState(IF ~latched /\ motion = "Running" THEN "ArmedHold" ELSE motion)
    /\ UNCHANGED <<armed, freedrive, sample, moving, sends>>

(* Faulty variant: arming does not look at the latch.                      *)
ArmMotionUnguarded(c) ==
    /\ branch(c) = "arm"
    /\ dispatched(c, "hold")
    /\ setMotionState("ArmedHold")
    /\ UNCHANGED <<armed, freedrive, sample, moving, sends>>

ArmMotion(c) ==
    /\ branch(c) = "arm"
    /\ dispatched(c, "hold")
    /\ setMotionState(IF latched THEN motion ELSE "ArmedHold")
    /\ UNCHANGED <<armed, freedrive, sample, moving, sends>>

(* requestFreedrive: Off may end a session that had not engaged at once.   *)
Freedrive(c) ==
    /\ branch(c) = "freedrive"
    /\ dispatched(c, "hold")
    /\ freedrive' \in (IF has(c, "FreedriveOn") THEN {TRUE} ELSE {freedrive, FALSE})
    /\ setMotionState(IF freedrive' /\ ~latched /\ motion # "EmergencyLatched"
                      THEN "ConnectedHold" ELSE motion)
    /\ UNCHANGED <<armed, sample, moving, sends>>

motionAllowed == motion \in {"ConnectedHold", "ArmedHold", "Running"}

MotionOrHold(c) ==
    /\ branch(c) \in {"motion", "hold"}
    /\ dispatched(c, IF branch(c) = "motion" /\ motionAllowed THEN "motion" ELSE "hold")
    /\ UNCHANGED <<faultVars, armed, freedrive, sample, moving, sends>>

HandleCommand ==
    \E c \in Commands :
        \/ ReadOnlyBlocked(c) \/ EmergencyStop(c) \/ ResetFault(c) \/ Setting(c)
        \/ DisarmMotion(c) \/ ExplicitHold(c) \/ ArmMotion(c) \/ Freedrive(c)
        \/ MotionOrHold(c)
-----------------------------------------------------------------------------
goodRead == sample \notin {"failed", "disconnected"}

(* advanceFreedrive (a session may end, and resynchronises the held        *)
(* targets) and the deactivated-box gate, which latches without a context, *)
(* in the one tick its counter equals the limit; counts beyond the limit   *)
(* behave alike and are kept as BoxTicks + 1.                              *)
Gates ==
    /\ pc = "gates"
    /\ pc' = "target"
    /\ freedrive' \in {freedrive, FALSE}
    /\ moving' \in {moving, moving /\ freedrive' = freedrive}
    /\ LET counting == goodRead /\ armed /\ ~latched /\ ~freedrive'
           ticks == IF counting /\ sample = "box_off" THEN boxTicks + 1 ELSE 0
       IN  /\ boxTicks' = IF ticks > BoxTicks THEN BoxTicks + 1 ELSE ticks
           /\ IF ticks = BoxTicks
              THEN latchFault([verdict |-> "RobotStateError", domain |-> "SafetyPolicy"])
              ELSE UNCHANGED faultVars
    /\ UNCHANGED <<config, armed, sample, wants, blocked, target, staged, sent, sends>>

(* A failed read has a classified context, invalid joints have none.       *)
readFault ==
    [verdict |-> "RobotStateError",
     domain |-> CASE sample = "failed" -> "RobotState"
                  [] sample = "disconnected" -> "Backend"
                  [] OTHER -> "SafetyPolicy"]

BadStateTarget ==
    /\ sample \in {"failed", "disconnected", "invalid"}
    /\ IF config.strict THEN latchFault(readFault) ELSE UNCHANGED faultVars
    /\ target' = "hold"
    /\ UNCHANGED armed

HoldTarget ==
    /\ sample \in {"ok", "box_off"}
    /\ latched \/ blocked \/ freedrive
    /\ target' = "hold"
    /\ UNCHANGED <<faultVars, armed>>

(* computeServoTarget and applySafety.  A motion command arms the stream,  *)
(* and so may a hold (a committed InitMotion, a compliant hold).  The      *)
(* safety stage passes the target, refuses one arm's, or latches.          *)
ComputeTarget ==
    /\ sample \in {"ok", "box_off"}
    /\ ~latched /\ ~blocked /\ ~freedrive
    /\ armed' \in (IF wants = "motion" THEN {TRUE} ELSE {armed, TRUE})
    /\ \/ /\ target' = wants
          /\ setMotionState(IF wants = "motion" THEN "Running" ELSE motion)
       \/ /\ target' \in {wants, "hold"}
          /\ setMotionState(IF wants = "motion" THEN "ArmedHold" ELSE motion)
       \/ /\ target' = "hold"
          /\ latchWith([verdict |-> "Software", domain |-> "SafetyPolicy"], armed')

SelectTarget ==
    /\ pc = "target"
    /\ pc' = "ramp"
    /\ BadStateTarget \/ HoldTarget \/ ComputeTarget
    /\ UNCHANGED <<config, freedrive, sample, boxTicks, wants, blocked, wireVars>>

(* Faulty variant: the brake has no deadline.                              *)
FaultRampUntilStopped ==
    /\ pc = "ramp"
    /\ pc' = "send"
    /\ IF latched /\ motion # "EmergencyLatched"
       THEN target' = "ramp" /\ brake' = (brake /\ moving)
       ELSE UNCHANGED <<target, brake>>
    /\ UNCHANGED <<config, motion, latched, cause, brakeLeft, armed, freedrive, sample,
                   boxTicks, wants, blocked, wireVars>>

(* The fault-hold ramp: a latch that is not an emergency decelerates, and  *)
(* the brake ends when the delivered samples stand still or at its         *)
(* deadline.                                                               *)
FaultRamp ==
    /\ pc = "ramp"
    /\ pc' = "send"
    /\ IF latched /\ motion # "EmergencyLatched"
       THEN /\ target' = "ramp"
            /\ brake' = (brake /\ moving /\ brakeLeft > 0)
            /\ brakeLeft' = IF brakeLeft > 0 THEN brakeLeft - 1 ELSE 0
       ELSE UNCHANGED <<target, brake, brakeLeft>>
    /\ UNCHANGED <<config, motion, latched, cause, armed, freedrive, sample, boxTicks,
                   wants, blocked, wireVars>>

(* Stage the target for the top of the next tick, or send it now.          *)
StageOrSend ==
    /\ pc = "send"
    /\ pc' = "outcome"
    /\ IF config.sendAtTop
       THEN staged' = target /\ UNCHANGED <<sent, moving, sends>>
       ELSE sendTargets(target) /\ UNCHANGED staged
    /\ UNCHANGED <<config, faultVars, armed, freedrive, tickVars>>

(* The results of this tick's dispatch.                                    *)
SendOutcome ==
    /\ pc = "outcome"
    /\ pc' = "top"
    /\ \/ UNCHANGED faultVars
       \/ /\ sent # "none" /\ config.strict
          /\ \E c \in {[verdict |-> "SendFailure", domain |-> "Backend"],
                       [verdict |-> "RobotStateError", domain |-> "RobotState"],
                       [verdict |-> "InvalidCommand", domain |-> "Command"]} : latchFault(c)
       \/ /\ ~latched
          /\ latchFault([verdict |-> "SendFailure", domain |-> "Backend"])
    /\ UNCHANGED <<config, armed, freedrive, tickVars, wireVars>>
-----------------------------------------------------------------------------
LifecycleNext ==
    \/ Top \/ ReadStates \/ AsyncSupervisionFault \/ HandleCommand \/ Gates
    \/ SelectTarget \/ FaultRamp \/ StageOrSend \/ SendOutcome

LifecycleSpec == LifecycleInit /\ [][LifecycleNext]_lifecycleVars
-----------------------------------------------------------------------------
LifecycleTypeOK ==
    /\ config \in Configs
    /\ pc \in {"top", "read", "command", "gates", "target", "ramp", "send", "outcome"}
    /\ motion \in {"ConnectedHold", "ArmedHold", "Running", "FaultLatched", "EmergencyLatched"}
    /\ latched \in BOOLEAN /\ brake \in BOOLEAN /\ brakeLeft \in 0..BrakeTicks
    /\ cause.verdict \in {"Ok", "EmergencyStop", "RobotStateError", "SendFailure",
                          "InvalidCommand", "Software"}
    /\ cause.domain \in {"None", "Emergency", "Backend", "RobotState", "Command", "SafetyPolicy"}
    /\ armed \in BOOLEAN /\ freedrive \in BOOLEAN
    /\ sample \in {"ok", "invalid", "failed", "disconnected", "box_off"}
    /\ boxTicks \in 0..(BoxTicks + 1) /\ wants \in {"hold", "motion"} /\ blocked \in BOOLEAN
    /\ target \in Kinds /\ staged \in Kinds \cup {"none"} /\ sent \in Kinds \cup {"none"}
    /\ moving \in BOOLEAN /\ sends \in Nat

(* No sequence of lifecycle commands makes a latched loop look armed: the  *)
(* published state is never ArmedHold or Running until a reset succeeds.   *)
LatchedIsNotArmed == latched => motion \notin {"ArmedHold", "Running"}

(* A dispatch that puts a target on the wire.                              *)
Delivers ==
    /\ pc = (IF config.sendAtTop THEN "top" ELSE "send")
    /\ pc' # pc
    /\ sent' # "none"

(* An emergency latch is silent until it is reset, even after DisarmMotion *)
(* has overwritten the motion state the send policy looks at first.        *)
EmergencyIsSilent ==
    [][Delivers => cause.verdict # "EmergencyStop"]_lifecycleVars

(* The abstract latch, which the loop implements: after any fault at most  *)
(* BrakeTicks + 1 targets reach the wire, then none until a reset.         *)
L == INSTANCE ServoLatch WITH
        Budget <- BrakeTicks + 1,
        mode <- IF ~latched THEN "Live" ELSE IF brake THEN "Braking" ELSE "Silent",
        sends <- sends

ImplementsServoLatch == L!LatchSpec
=============================================================================
