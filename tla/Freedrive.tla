------------------------------ MODULE Freedrive ------------------------------
(***************************************************************************)
(* Direct teaching of one arm: the servo loop's per-arm stage machine      *)
(* (requestFreedrive, advanceFreedrive, abortFreedrive), the arm worker    *)
(* that owns the backend and the send cadence (ArmWorker::run), and the    *)
(* robot controller (external).  The loop's calls into the worker block    *)
(* until a result is stored or a deadline passes, while the worker, the    *)
(* controller and the operator's hand go on.                               *)
(*                                                                         *)
(* Poses are abstracted to a counter that every hand movement advances; a  *)
(* setpoint is the pose it would hold the arm at.  Deadlines may pass at   *)
(* any moment, so every race of a deadline with an answer is covered.  The *)
(* configuration is that of a real rbpodo arm whose worker owns the send   *)
(* cadence: controller signals are used and must confirm.                  *)
(***************************************************************************)
EXTENDS Naturals, Sequences

CONSTANTS
    MaxPose,    \* bound on hand movements
    Capacity,   \* lifecycle_queue_capacity of the worker
    Faults,     \* which failures of the link may happen, a subset of LinkFaults
    None

(* "refused": the controller rejects a call.  "ack_lost": it obeys and the *)
(* acknowledgement is lost.  "timeout": the loop stops waiting before the  *)
(* worker has finished the call.                                           *)
LinkFaults == {"refused", "ack_lost", "timeout"}

ASSUME FaultsAssumption == Faults \subseteq LinkFaults
ASSUME CapacityAssumption == Capacity \in Nat \ {0}
ASSUME MaxPoseAssumption == MaxPose \in Nat

VARIABLES
    pc, stage, armed, seen, held, after,   \* the loop
    suppressed, mailbox, queue, result,    \* shared with the worker
    wpc, suppressedPrev, last, job, call, cached, \* the worker
    teach, moving, latch, pose,            \* controller and backend
    offTried, clean, releaseSeen, unheard    \* history

loopVars == <<pc, stage, armed, seen, held, after>>
sharedVars == <<suppressed, mailbox, queue, result>>
workerVars == <<wpc, suppressedPrev, last, job, call, cached>>
robotVars == <<teach, moving, latch, pose>>
historyVars == <<offTried, clean, releaseSeen, unheard>>
vars == <<loopVars, sharedVars, workerVars, robotVars, historyVars>>

Stages == {"Off", "Quiesce", "Confirm", "Active", "Exiting"}

(* What a state sample says of the arm: robot_state == Idle,               *)
(* is_freedrive_mode, the joints.                                          *)
Sample == [idle: BOOLEAN, on: BOOLEAN, pose: 0..MaxPose]

Setpoint == (0..MaxPose) \cup {None}

Call == [on: BOOLEAN, live: BOOLEAN]

(* What the loop does once its call is over: the stage it turns to, and    *)
(* where in the tick the call was made.                                    *)
After == [then: {"confirm", "exiting", "abort"}, next: {"advance", "suppress"}]

Results == {"ok", "fail"}

ASSUME NoneAssumption == None \notin Nat \cup Results \cup Call \cup After

Init ==
    /\ pc = "read" /\ stage = "Off" /\ armed = FALSE /\ held = 0 /\ after = None
    /\ seen = [idle |-> TRUE, on |-> FALSE, pose |-> 0]
    /\ suppressed = FALSE /\ mailbox = None /\ queue = <<>> /\ result = None
    /\ wpc = "pick" /\ suppressedPrev = FALSE /\ last = None /\ job = None /\ call = None
    /\ cached = [idle |-> TRUE, on |-> FALSE, pose |-> 0]
    /\ teach = FALSE /\ moving = FALSE /\ latch = FALSE /\ pose = 0
    /\ offTried = TRUE /\ clean = TRUE /\ releaseSeen = TRUE /\ unheard = FALSE
-----------------------------------------------------------------------------
(* The loop.  A tick reads the worker's cached state, handles a command,   *)
(* advances the stage, publishes the suppression flag and sends.           *)

ReadState ==
    /\ pc = "read"
    /\ seen' = cached
    /\ pc' = "command"
    /\ UNCHANGED <<stage, armed, held, after, sharedVars, workerVars, robotVars, historyVars>>

(* sendFreedriveToBackend through ArmWorker::setFreedrive: enqueue the     *)
(* call and wait; a full queue fails at once.                              *)
callBackend(on, next) ==
    /\ offTried' = (offTried \/ ~on)
    /\ after' = next
    /\ pc' = "wait"
    /\ IF Len(queue) < Capacity
       THEN queue' = Append(queue, [on |-> on, live |-> TRUE]) /\ result' = None
       ELSE result' = "fail" /\ UNCHANGED queue

(* Faulty variant: leaving a session keeps the target held before it.      *)
stopWithoutResync(confirmed) ==
    /\ UNCHANGED held
    /\ stage' = "Off"
    /\ clean' = confirmed

(* resyncArmAfterFreedrive: hold where the last sample saw the arm.        *)
resyncAndStop(confirmed) ==
    /\ held' = seen.pose
    /\ stage' = "Off"
    /\ clean' = confirmed

(* Faulty variant: an unconfirmed teach_on is not undone.                  *)
abortUnlessConfirm(next) ==
    IF stage \in {"Active", "Exiting"}
    THEN /\ callBackend(FALSE, [then |-> "abort", next |-> next])
         /\ UNCHANGED <<stage, held, clean>>
    ELSE /\ resyncAndStop(FALSE)
         /\ pc' = next
         /\ UNCHANGED <<offTried, after, queue, result>>

(* abortFreedrive: teach_off only from the stages in which teach_on is     *)
(* known to be issued.                                                     *)
abortFreedrive(next) ==
    IF stage \in {"Confirm", "Active", "Exiting"}
    THEN /\ callBackend(FALSE, [then |-> "abort", next |-> next])
         /\ UNCHANGED <<stage, held, clean>>
    ELSE /\ resyncAndStop(FALSE)
         /\ pc' = next
         /\ UNCHANGED <<offTried, after, queue, result>>

RequestOn ==
    /\ pc = "command"
    /\ stage' = IF stage = "Off" THEN "Quiesce" ELSE stage
    /\ pc' = "advance"
    /\ UNCHANGED <<armed, seen, held, after, sharedVars, workerVars, robotVars, historyVars>>

RequestOff ==
    /\ pc = "command"
    /\ \/ /\ stage = "Active"
          /\ callBackend(FALSE, [then |-> "exiting", next |-> "advance"])
          /\ UNCHANGED <<stage, held, clean>>
       \/ /\ stage \in {"Quiesce", "Confirm"}
          /\ abortFreedrive("advance")
       \/ /\ stage \in {"Off", "Exiting"}
          /\ pc' = "advance"
          /\ UNCHANGED <<stage, held, clean, offTried, after, queue, result>>
    /\ UNCHANGED <<armed, seen, suppressed, mailbox, workerVars, robotVars, releaseSeen, unheard>>

(* A motion command arms the servo stream unless a session is on.          *)
MotionCommand ==
    /\ pc = "command"
    /\ armed' = (armed \/ stage = "Off")
    /\ pc' = "advance"
    /\ UNCHANGED <<stage, seen, held, after, sharedVars, workerVars, robotVars, historyVars>>

NoCommand ==
    /\ pc = "command"
    /\ pc' = "advance"
    /\ UNCHANGED <<stage, armed, seen, held, after, sharedVars, workerVars, robotVars, historyVars>>

(* The stages that wait for a sample; the deadline may have passed at any  *)
(* tick.                                                                   *)
AdvanceQuiesce ==
    /\ stage = "Quiesce"
    /\ \/ /\ seen.idle
          /\ callBackend(TRUE, [then |-> "confirm", next |-> "suppress"])
          /\ UNCHANGED <<stage, held, clean>>
       \/ ~seen.idle /\ abortFreedrive("suppress")

AdvanceConfirm ==
    /\ stage = "Confirm"
    /\ \/ /\ seen.on
          /\ stage' = "Active"
          /\ pc' = "suppress"
          /\ UNCHANGED <<held, clean, offTried, after, queue, result>>
       \/ ~seen.on /\ abortFreedrive("suppress")

(* Faulty variant: the exit has no deadline.                               *)
AdvanceExitingConfirmed ==
    /\ stage = "Exiting"
    /\ ~seen.on
    /\ resyncAndStop(TRUE)
    /\ pc' = "suppress"
    /\ UNCHANGED <<offTried, after, queue, result>>

AdvanceExiting ==
    /\ stage = "Exiting"
    /\ resyncAndStop(~seen.on)
    /\ pc' = "suppress"
    /\ UNCHANGED <<offTried, after, queue, result>>

(* Nothing to do, or an unconfirmed stage before its deadline.             *)
AdvanceWait ==
    /\ \/ stage \in {"Off", "Active"}
       \/ stage = "Quiesce" /\ ~seen.idle
       \/ stage = "Confirm" /\ ~seen.on
       \/ stage = "Exiting" /\ seen.on
    /\ pc' = "suppress"
    /\ UNCHANGED <<stage, held, clean, offTried, after, queue, result>>

AdvanceFreedrive ==
    /\ pc = "advance"
    /\ AdvanceQuiesce \/ AdvanceConfirm \/ AdvanceExiting \/ AdvanceWait
    /\ UNCHANGED <<armed, seen, suppressed, mailbox, workerVars, robotVars, releaseSeen, unheard>>

(* The call returned, or its deadline passed: continue where it was made.  *)
continueWith(ok) ==
    /\ pc' = after.next
    /\ after' = None
    /\ \/ /\ after.then = "confirm" /\ ok
          /\ stage' = "Confirm"
          /\ UNCHANGED <<held, clean>>
       \/ /\ after.then = "confirm" /\ ~ok
          /\ resyncAndStop(FALSE)
       \/ /\ after.then = "exiting"
          /\ stage' = "Exiting"
          /\ UNCHANGED <<held, clean>>
       \/ /\ after.then = "abort"
          /\ resyncAndStop(FALSE)
    /\ UNCHANGED <<armed, seen, suppressed, mailbox, offTried, releaseSeen, unheard,
                   wpc, suppressedPrev, last, job, cached, robotVars>>

CallReturns ==
    /\ pc = "wait"
    /\ result # None
    /\ result' = None
    /\ continueWith(result = "ok")
    /\ UNCHANGED <<queue, call>>

(* waitForLifecycleResult times out: a call still queued will be found     *)
(* expired, one already executing runs on with nobody waiting.             *)
CallTimesOut ==
    /\ pc = "wait"
    /\ result = None
    /\ "timeout" \in Faults
    /\ queue' = [i \in 1..Len(queue) |-> [queue[i] EXCEPT !.live = FALSE]]
    /\ call' = IF call = None THEN None ELSE [call EXCEPT !.live = FALSE]
    /\ continueWith(FALSE)
    /\ UNCHANGED result

(* setWorkerSendSuppressed(anyFreedriveActive()).  The history notes a     *)
(* release the worker has not looked at when the next session begins.      *)
PublishSuppression ==
    /\ pc = "suppress"
    /\ suppressed' = (stage # "Off")
    /\ releaseSeen' = (releaseSeen /\ ~(stage # "Off" /\ ~suppressed /\ suppressedPrev))
    /\ pc' = "send"
    /\ UNCHANGED <<stage, armed, seen, held, after, mailbox, queue, result,
                   workerVars, robotVars, offTried, clean, unheard>>

(* sendTargets: the hold target goes to the worker's mailbox when the send *)
(* policy delivers.                                                        *)
SendTarget ==
    /\ pc = "send"
    /\ mailbox' = IF stage = "Off" /\ armed THEN held ELSE mailbox
    /\ pc' = "read"
    /\ UNCHANGED <<stage, armed, seen, held, after, suppressed, queue, result,
                   workerVars, robotVars, historyVars>>
-----------------------------------------------------------------------------
(* The worker thread.  An iteration picks a job under the lock, performs   *)
(* it, and reads the robot's state.  Entering suppression drops every      *)
(* cached setpoint; a lifecycle call goes first; with the wire open the    *)
(* worker sends on every tick, sampling between the last and the newest    *)
(* setpoint.                                                               *)
WorkerPick ==
    /\ wpc = "pick"
    /\ LET entering == suppressed /\ ~suppressedPrev
           box == IF entering THEN None ELSE mailbox
           old == IF entering THEN None ELSE last
       IN  \/ /\ queue # <<>>
              /\ call' = Head(queue)
              /\ job' = None
              /\ queue' = Tail(queue)
              /\ mailbox' = box
              /\ last' = old
           \/ /\ queue = <<>> /\ suppressed
              /\ job' = None
              /\ mailbox' = box
              /\ last' = old
              /\ UNCHANGED <<queue, call>>
           \/ /\ queue = <<>> /\ ~suppressed
              /\ job' \in (IF old = None THEN {box} ELSE IF box = None THEN {old} ELSE {old, box})
              /\ mailbox' = None
              /\ last' = IF box = None THEN old ELSE box
              /\ UNCHANGED <<queue, call>>
    /\ releaseSeen' = (releaseSeen \/ (suppressed /\ ~suppressedPrev))
    /\ suppressedPrev' = suppressed
    /\ wpc' = "act"
    /\ UNCHANGED <<loopVars, suppressed, result, cached, robotVars, offTried, clean, unheard>>

(* RbpodoBackend::setFreedrive with a caller waiting.  The controller      *)
(* refuses teach_on while servo control runs (M151); the backend's own     *)
(* latch follows acknowledged calls only.                                  *)
executeCall ==
    /\ call.live
    /\ \/ /\ ~(call.on /\ moving)
          /\ teach' = call.on /\ latch' = call.on /\ result' = "ok"
       \/ /\ (call.on /\ moving) \/ "refused" \in Faults
          /\ result' = "fail" /\ UNCHANGED <<teach, latch>>
       \/ /\ ~(call.on /\ moving) /\ "ack_lost" \in Faults
          /\ teach' = call.on /\ result' = "fail" /\ UNCHANGED latch

(* A call whose deadline passed: not begun, it is dropped; begun, it takes *)
(* effect, and its result is replaced by a timeout nobody waits for.       *)
executeExpiredCall ==
    /\ ~call.live
    /\ UNCHANGED result
    /\ \/ UNCHANGED <<teach, latch>>
       \/ ~(call.on /\ moving) /\ teach' = call.on /\ latch' = call.on

WorkerLifecycle ==
    /\ wpc = "act"
    /\ call # None
    /\ executeCall \/ executeExpiredCall
    /\ offTried' = (offTried /\ ~(teach' /\ ~teach))
    /\ unheard' = (teach' /\ (unheard \/ (call.on /\ result' # "ok")))
    /\ call' = None
    /\ wpc' = "state"
    /\ UNCHANGED <<loopVars, suppressed, mailbox, queue, suppressedPrev, last, job, cached,
                   moving, pose, clean, releaseSeen>>

(* Faulty variant: the backend has no freedrive latch of its own.          *)
WorkerSendUnlatched ==
    /\ wpc = "act"
    /\ job # None
    /\ moving' = TRUE
    /\ job' = None
    /\ wpc' = "state"
    /\ UNCHANGED <<loopVars, sharedVars, suppressedPrev, last, call, cached,
                   teach, latch, pose, historyVars>>

(* sendServoJ; the backend refuses it while its freedrive latch is set.    *)
WorkerSend ==
    /\ wpc = "act"
    /\ job # None
    /\ moving' = (moving \/ ~latch)
    /\ job' = None
    /\ wpc' = "state"
    /\ UNCHANGED <<loopVars, sharedVars, suppressedPrev, last, call, cached,
                   teach, latch, pose, historyVars>>

(* Nothing to send: the controller may settle to idle.                     *)
WorkerQuiet ==
    /\ wpc = "act"
    /\ job = None /\ call = None
    /\ moving' \in {moving, FALSE}
    /\ wpc' = "state"
    /\ UNCHANGED <<loopVars, sharedVars, suppressedPrev, last, job, call, cached,
                   teach, latch, pose, historyVars>>

WorkerReadState ==
    /\ wpc = "state"
    /\ cached' = [idle |-> ~moving, on |-> teach, pose |-> pose]
    /\ wpc' = "pick"
    /\ UNCHANGED <<loopVars, sharedVars, suppressedPrev, last, job, call, robotVars, historyVars>>

(* The operator's hand, while the controller is in direct teaching.        *)
HandGuide ==
    /\ teach
    /\ pose < MaxPose
    /\ pose' = pose + 1
    /\ UNCHANGED <<loopVars, sharedVars, workerVars, teach, moving, latch, historyVars>>
-----------------------------------------------------------------------------
Command == RequestOn \/ RequestOff \/ MotionCommand \/ NoCommand

LoopStep ==
    ReadState \/ Command \/ AdvanceFreedrive \/ CallReturns \/ CallTimesOut
    \/ PublishSuppression \/ SendTarget

WorkerStep ==
    WorkerPick \/ WorkerLifecycle \/ WorkerSend \/ WorkerQuiet \/ WorkerReadState

Next == LoopStep \/ WorkerStep \/ HandGuide

Spec == Init /\ [][Next]_vars

(* The loop and the worker are periodic threads.  A stage's deadline is a  *)
(* steady-clock instant the loop compares on every tick, so a stage that   *)
(* keeps being looked at is eventually looked at after its deadline.       *)
StageMoves == AdvanceFreedrive /\ <<stage, pc>>' # <<stage, "suppress">>

FairSpec ==
    Spec /\ WF_vars(LoopStep) /\ WF_vars(WorkerStep) /\ SF_vars(StageMoves)
-----------------------------------------------------------------------------
TypeOK ==
    /\ pc \in {"read", "command", "advance", "wait", "suppress", "send"}
    /\ stage \in Stages
    /\ armed \in BOOLEAN /\ seen \in Sample /\ held \in 0..MaxPose
    /\ after \in After \cup {None}
    /\ suppressed \in BOOLEAN /\ mailbox \in Setpoint
    /\ queue \in Seq(Call) /\ Len(queue) <= Capacity
    /\ result \in Results \cup {None}
    /\ wpc \in {"pick", "act", "state"} /\ suppressedPrev \in BOOLEAN
    /\ last \in Setpoint /\ job \in Setpoint /\ call \in Call \cup {None} /\ cached \in Sample
    /\ teach \in BOOLEAN /\ moving \in BOOLEAN /\ latch \in BOOLEAN /\ pose \in 0..MaxPose
    /\ offTried \in BOOLEAN /\ clean \in BOOLEAN /\ releaseSeen \in BOOLEAN /\ unheard \in BOOLEAN

(* servo_j reaches the controller, which then counts as moving.            *)
Written == wpc = "act" /\ job # None /\ wpc' = "state" /\ moving'

(* A servo_j is never written while the loop reports an active teaching    *)
(* session on the arm.                                                     *)
WireQuietWhileTeaching == [][Written => stage # "Active"]_vars

(* After a confirmed exit the first servo_j holds the arm where the hand   *)
(* left it: neither the loop's held target nor any setpoint cached in the  *)
(* worker dates from before the session.  (Not while an unacknowledged     *)
(* teach_on has the arm in teaching behind the loop's back.)               *)
NoSnapAfterExit == [][(Written /\ clean /\ releaseSeen /\ ~unheard) => job = pose]_vars

(* Every transient stage ends: the session becomes active or is over,      *)
(* whatever the link does.                                                 *)
SessionSettles ==
    (stage \in {"Quiesce", "Confirm", "Exiting"}) ~> (stage \in {"Off", "Active"})

(* What abortFreedrive's comment promises: the arm is never left     *)
(* hand-guidable with the stage Off without a teach_off having been tried. *)
NeverSilentlyHandGuidable ==
    (stage = "Off" /\ teach) => offTried

(* It is kept whenever the loop has heard that teach_on took effect: of    *)
(* the ways out of a session, with calls refused, timed out or dropped,    *)
(* only a teach_on obeyed without an acknowledgement leaves the arm        *)
(* hand-guidable without a teach_off having been tried.                    *)
HeardTeachingIsUndone ==
    (stage = "Off" /\ teach) => (offTried \/ unheard)
=============================================================================
