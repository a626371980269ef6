---------------------------- MODULE CommandBuffer ----------------------------
(***************************************************************************)
(* rb_servo_server/src/control/command_buffer.cpp: the mailbox between the *)
(* UDP receive thread (setCommand, updateLease, noteExternalBoxReceived)   *)
(* and the 500 Hz servo loop (latestOrHold, consumeLatestExternalBoxes).   *)
(* Every method holds the one mutex, so each is one atomic step.  The      *)
(* read telemetry (commandTimeoutMs, commandAgeMs, record...) is left out. *)
(***************************************************************************)
EXTENDS Naturals, Sequences, FiniteSets

CONSTANTS
    MaxPending,   \* kMaxPendingLifecycleCommands
    HoldTimeout,  \* ArmCommand::timeout_sec of a default-constructed command
    Timeouts,     \* timeouts a stored command may carry; 0 stands for invalid
    ModePairs,    \* <<left mode, right mode>> of the commands a caller stores
    Leases,       \* lease states a caller stores
    NoLease,      \* CommandSourceLeaseState{}
    None          \* std::nullopt

ASSUME MaxPendingAssumption == MaxPending \in Nat \ {0}
ASSUME HoldTimeoutAssumption == HoldTimeout \in Nat \ {0}
ASSUME TimeoutsAssumption == Timeouts \subseteq Nat
ASSUME LeaseAssumption == NoLease \in Leases

VARIABLES
    now,       \* steady clock; 0 is the "never stamped" value of host_time_ns
    nextId,    \* number of the next packet to reach the buffer, the id of a command
    latest,    \* latest_command_
    pending,   \* pending_lifecycle_commands_
    boxes,     \* pending_external_boxes_command_
    boxRx,     \* last_external_box_receive_ns_
    out,       \* what the servo loop's last latestOrHold returned
    accepted,  \* history: every lifecycle command ever stored, in order
    taken      \* history: ids of the lifecycle commands returned to the loop

bufferVars == <<latest, pending, boxes, boxRx, out, accepted, taken>>
vars == <<now, nextId, bufferVars>>

LifecycleModes == {"ArmMotion", "DisarmMotion", "EmergencyStop", "ResetFault", "Freedrive"}

(* ControlMode; the SetSafety... and Tare modes, which the buffer treats   *)
(* alike, are one value.                                                   *)
Modes ==
    LifecycleModes \cup {"Hold", "JointTarget", "TcpPoseTarget", "TcpLinearMove",
                         "SetExternalBoxes", "SafetySetting"}

ASSUME ModePairsAssumption == ModePairs \subseteq Modes \X Modes

Command == [id: Nat, left: Modes, right: Modes, host: Nat, timeout: Nat, lease: Leases]

makeHold(t) ==
    [id |-> 0, left |-> "Hold", right |-> "Hold", host |-> t, timeout |-> HoldTimeout,
     lease |-> NoLease]

ASSUME NoneAssumption == None \notin Command

isLifecycleCommand(c) == c.left \in LifecycleModes \/ c.right \in LifecycleModes

isExternalBoxesCommand(c) == "SetExternalBoxes" \in {c.left, c.right}

(* timeout 0 is an invalid timeout: such a command is never usable.        *)
isUsableCommand(c, t) == c.timeout # 0 /\ (c.host = 0 \/ t <= c.host + c.timeout)

isHold(c) == c.left = "Hold" /\ c.right = "Hold"

-----------------------------------------------------------------------------
Init ==
    /\ now = 1
    /\ nextId = 1
    /\ latest = None
    /\ pending = <<>>
    /\ boxes = None
    /\ boxRx = 0
    /\ out = makeHold(1)
    /\ accepted = <<>>
    /\ taken = {}

(* The bounded deque: a full queue drops its oldest element.  (The faulty  *)
(* variant puts the new command in front.)                                 *)
pushLifecycleFront(q, c) == <<c>> \o IF Len(q) >= MaxPending THEN Tail(q) ELSE q

pushLifecycle(q, c) == Append(IF Len(q) >= MaxPending THEN Tail(q) ELSE q, c)

(* Faulty variant: a lifecycle command leaves the older target in place.   *)
setCommandKeepsTarget(c) ==
    /\ IF isExternalBoxesCommand(c) THEN boxes' = c /\ UNCHANGED <<latest, pending, accepted>>
       ELSE IF isLifecycleCommand(c)
            THEN /\ pending' = pushLifecycle(pending, c)
                 /\ accepted' = Append(accepted, c)
                 /\ UNCHANGED <<latest, boxes>>
            ELSE latest' = c /\ UNCHANGED <<pending, boxes, accepted>>
    /\ UNCHANGED <<boxRx, out, taken>>

setCommand(c) ==
    /\ \/ /\ isExternalBoxesCommand(c)
          /\ boxes' = c
          /\ UNCHANGED <<latest, pending, accepted>>
       \/ /\ ~isExternalBoxesCommand(c)
          /\ isLifecycleCommand(c)
          /\ pending' = pushLifecycle(pending, c)
          /\ latest' = makeHold(c.host)
          /\ accepted' = Append(accepted, c)
          /\ UNCHANGED boxes
       \/ /\ ~isExternalBoxesCommand(c)
          /\ ~isLifecycleCommand(c)
          /\ latest' = c
          /\ UNCHANGED <<pending, boxes, accepted>>
    /\ UNCHANGED <<boxRx, out, taken>>

(* An absent or expired latest command gives way to a Hold that never      *)
(* expires, so that the grant stays visible to the client's readback.      *)
updateLease(l) ==
    /\ latest' = [(IF latest = None \/ ~isUsableCommand(latest, now)
                   THEN makeHold(0) ELSE latest) EXCEPT !.lease = l]
    /\ UNCHANGED <<pending, boxes, boxRx, out, accepted, taken>>

noteExternalBoxReceived(t) ==
    /\ boxRx' = t
    /\ UNCHANGED <<latest, pending, boxes, out, accepted, taken>>

(* latestOrHold while a usable lifecycle command is queued: the stale ones *)
(* in front of it are discarded and it is returned.                        *)
usableAt == {i \in 1..Len(pending) : isUsableCommand(pending[i], now)}

(* Faulty variant: everything queued is discarded with the one returned.   *)
takeLifecycleDropsRest ==
    \E i \in usableAt :
        /\ \A j \in usableAt : i <= j
        /\ out' = pending[i]
        /\ pending' = <<>>
        /\ taken' = taken \cup {pending[i].id}
        /\ UNCHANGED <<latest, boxes, boxRx, accepted>>

takeLifecycle ==
    \E i \in usableAt :
        /\ \A j \in usableAt : i <= j
        /\ out' = pending[i]
        /\ pending' = SubSeq(pending, i + 1, Len(pending))
        /\ taken' = taken \cup {pending[i].id}
        /\ UNCHANGED <<latest, boxes, boxRx, accepted>>

(* The command latestOrHold falls through to once the queue is drained.    *)
latestOrFallback ==
    IF latest = None THEN makeHold(now)
    ELSE IF isUsableCommand(latest, now) THEN latest
    ELSE [makeHold(now) EXCEPT !.lease = latest.lease]

(* Faulty variant: the latest command is returned ahead of the queue.      *)
takeLatestFirst ==
    /\ out' = latestOrFallback
    /\ UNCHANGED <<latest, pending, boxes, boxRx, accepted, taken>>

takeLatest ==
    /\ usableAt = {}
    /\ pending' = <<>>
    /\ out' = latestOrFallback
    /\ UNCHANGED <<latest, boxes, boxRx, accepted, taken>>

latestOrHold == takeLifecycle \/ takeLatest

consumeLatestExternalBoxes ==
    /\ boxes # None
    /\ boxes' = None
    /\ UNCHANGED <<latest, pending, boxRx, out, accepted, taken>>
-----------------------------------------------------------------------------
(* The buffer on its own: any caller may store any command at any time.    *)
NewCommand(mp, t, l) ==
    [id |-> nextId, left |-> mp[1], right |-> mp[2], host |-> now, timeout |-> t, lease |-> l]

SetCommand ==
    /\ \E mp \in ModePairs, t \in Timeouts, l \in Leases : setCommand(NewCommand(mp, t, l))
    /\ nextId' = nextId + 1
    /\ UNCHANGED now

UpdateLease ==
    /\ \E l \in Leases : updateLease(l)
    /\ nextId' = nextId + 1
    /\ UNCHANGED now

NoteBoxes == (\E t \in 0..now : noteExternalBoxReceived(t)) /\ UNCHANGED <<now, nextId>>

LatestOrHold == latestOrHold /\ UNCHANGED <<now, nextId>>

ConsumeBoxes == consumeLatestExternalBoxes /\ UNCHANGED <<now, nextId>>

Advance == now' = now + 1 /\ UNCHANGED <<nextId, bufferVars>>

Next ==
    \/ SetCommand
    \/ UpdateLease
    \/ NoteBoxes
    \/ LatestOrHold
    \/ ConsumeBoxes
    \/ Advance

Spec == Init /\ [][Next]_vars
-----------------------------------------------------------------------------
TypeOK ==
    /\ now \in Nat \ {0}
    /\ nextId \in Nat \ {0}
    /\ latest \in Command \cup {None}
    /\ pending \in Seq(Command)
    /\ boxes \in Command \cup {None}
    /\ boxRx \in Nat
    /\ out \in Command
    /\ accepted \in Seq(Command)
    /\ taken \subseteq Nat

(* Id of the youngest lifecycle command ever stored.                       *)
NewestLifecycle == IF accepted = <<>> THEN 0 ELSE accepted[Len(accepted)].id

(* A stored target is dropped by a later lifecycle command: the loop       *)
(* never gets a streaming target that arrived before the newest lifecycle  *)
(* command (setCommand replaces latest_command_ by a Hold).                *)
NoTargetFromBeforeLifecycle ==
    (latest # None /\ ~isHold(latest)) => latest.id > NewestLifecycle

(* fail_safe_policy.md, "Process lifecycle command first; then the latest  *)
(* motion command": when latestOrHold hands out anything but a lifecycle   *)
(* command, none is left waiting, and a target it hands out is younger     *)
(* than every lifecycle command and still inside its timeout.              *)
LifecycleBeforeTarget ==
    [][LatestOrHold /\ ~isLifecycleCommand(out') =>
          /\ pending' = <<>>
          /\ ~isHold(out') => /\ out'.id > NewestLifecycle
                              /\ isUsableCommand(out', now)]_vars

(* A lifecycle command leaves the queue in one of three ways only: it is   *)
(* returned to the loop, it outlives its timeout, or MaxPending younger    *)
(* ones push it out.  No stream of targets, lease update or box update can *)
(* remove it (servo_backend_contract.md, "should not be silently           *)
(* overwritten by streaming servo targets").                               *)
LifecycleNotLost ==
    \A i \in 1..Len(accepted) :
        \/ \E j \in 1..Len(pending) : pending[j] = accepted[i]
        \/ accepted[i].id \in taken
        \/ ~isUsableCommand(accepted[i], now)
        \/ Len(accepted) - i >= MaxPending

(* The queue is the youngest part of the accepted lifecycle commands, in   *)
(* order, and none of it has been returned before: latestOrHold returns    *)
(* each at most once and in arrival order.                                 *)
PendingIsSuffix ==
    /\ Len(pending) <= Len(accepted)
    /\ \A i \in 1..Len(pending) :
          pending[i] = accepted[Len(accepted) - Len(pending) + i]

LifecycleInOrderOnce ==
    /\ Len(pending) <= MaxPending
    /\ PendingIsSuffix
    /\ \A i \in 1..Len(pending) : \A t \in taken : t < pending[i].id
=============================================================================
