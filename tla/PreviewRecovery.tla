--------------------------- MODULE PreviewRecovery ---------------------------
(***************************************************************************)
(* The chunk stream of the policy composed with the servo loop's preview   *)
(* recovery (updatePreviewRecoveryInput, coordinatePreviewRecovery): when  *)
(* the preview execution can not go on, both arms brake to a stop, the     *)
(* loop raises an observation fence, and it restarts only from one plan    *)
(* observed behind that fence.  The policy learns of all this from the     *)
(* state snapshots, which may be stale; its plans reach the loop as frames *)
(* that may be lost.                                                       *)
(***************************************************************************)
EXTENDS ChunkStream

CONSTANT MaxAttempts  \* recovery.max_attempts

States == {"tracking", "braking", "waiting_fresh", "starting", "paused"}
Block == [state: States, epoch: Nat, fence: Nat]

ASSUME AttemptsAssumption == MaxAttempts \in Nat
ASSUME BlockAssumption == None \notin Block

VARIABLES
    srv,        \* preview_recovery_: state, epoch, fence (min_observation_time_ns)
    attempts,   \* recoveries of the current budget
    exhausted,  \* preview_recovery_exhausted_
    fences,     \* observation fences raised so far
    cache,      \* chunk_frame_cache_, once received and not yet examined
    candidate,  \* id of the plan the loop restarted from
    initSeen,   \* the loop has taken the init_motion request of this suspension
    retired,    \* a Hold has retired the executors that were recovering
    bumped,     \* motion_epoch has advanced since the last snapshot
    snap        \* the snapshot last published

serverVars == <<srv, attempts, exhausted, fences, cache, candidate, initSeen, retired, bumped, snap>>
vars == <<streamVars, serverVars>>

Init ==
    /\ StreamInit
    /\ srv = [state |-> "tracking", epoch |-> 0, fence |-> 0]
    /\ attempts = 0 /\ exhausted = FALSE /\ fences = 0
    /\ cache = None /\ candidate = None /\ initSeen = FALSE
    /\ retired = FALSE /\ bumped = FALSE /\ snap = srv

(* Plans the loop still refers to. *)
held == {f.id : f \in {cache} \ {None}} \cup ({candidate} \ {None})
-----------------------------------------------------------------------------
(* The loop. *)

(* A new recovery: an executor asks for one while the loop tracks or       *)
(* starts, or a start has timed out.  What was received is abandoned.      *)
SrvBrake ==
    /\ srv.state \in {"tracking", "starting"} /\ ~suspended /\ events < MaxEvents
    /\ events' = events + 1
    /\ srv' = [state |-> "braking", epoch |-> srv.epoch + 1, fence |-> 0]
    /\ exhausted' = (attempts >= MaxAttempts)
    /\ attempts' = IF attempts >= MaxAttempts THEN attempts ELSE attempts + 1
    /\ cache' = None /\ candidate' = None
    /\ UNCHANGED <<mode, commandVars, observedVars, lockVars, workerVars, rtcVars, wire, fences,
                   initSeen, retired, bumped, snap>>

raiseFence(state) ==
    /\ fences' = fences + 1
    /\ srv' = [srv EXCEPT !.state = state, !.fence = fences + 1]

(* Both arms have come to rest. *)
SrvStopped ==
    /\ srv.state = "braking" /\ ~suspended
    /\ raiseFence(IF exhausted THEN "paused" ELSE "waiting_fresh")
    /\ UNCHANGED <<streamVars, attempts, exhausted, cache, candidate, initSeen, retired, bumped, snap>>

(* No acceptable plan within fresh_plan_timeout_sec. *)
SrvFreshTimeout ==
    /\ srv.state = "waiting_fresh" /\ ~suspended
    /\ srv' = [srv EXCEPT !.state = "paused"]
    /\ UNCHANGED <<streamVars, attempts, exhausted, fences, cache, candidate, initSeen, retired, bumped, snap>>

(* attempts_reset_sec without a new recovery: the budget is whole again,   *)
(* and a pause that lasted as long waits for a plan behind a new fence.    *)
(* Those seconds are many ticks of the policy, which has seen the pause.   *)
SrvBudgetReset ==
    /\ srv.state = "paused" /\ ~suspended /\ ~retired /\ recov # None /\ recov = srv /\ events < MaxEvents
    /\ events' = events + 1
    /\ attempts' = 0 /\ exhausted' = FALSE
    /\ raiseFence("waiting_fresh")
    /\ UNCHANGED <<mode, commandVars, observedVars, lockVars, workerVars, rtcVars, wire, cache,
                   candidate, initSeen, retired, bumped, snap>>

(* A frame of the policy arrives, or is lost.  While the loop tracks or    *)
(* starts, its executors take it.                                          *)
SrvReceive ==
    /\ wire # None
    /\ wire' = None
    /\ cache' \in IF srv.state \in {"tracking", "starting"} THEN {cache} ELSE {wire, cache}
    /\ UNCHANGED <<mode, commandVars, observedVars, lockVars, workerVars, rtcVars, events, srv,
                   attempts, exhausted, fences, candidate, initSeen, retired, bumped, snap>>

fresh(frame) == frame.epoch = srv.epoch /\ frame.stamp >= srv.fence

SrvExamine ==
    /\ srv.state = "waiting_fresh" /\ ~suspended /\ cache # None
    /\ cache' = None
    /\ IF fresh(cache)
       THEN srv' = [srv EXCEPT !.state = "starting"] /\ candidate' = cache.id
       ELSE UNCHANGED <<srv, candidate>>
    /\ UNCHANGED <<streamVars, attempts, exhausted, fences, initSeen, retired, bumped, snap>>

(* Both executors run the accepted plan. *)
SrvEngaged ==
    /\ srv.state = "starting" /\ ~suspended
    /\ srv' = [srv EXCEPT !.state = "tracking"]
    /\ UNCHANGED <<streamVars, attempts, exhausted, fences, cache, candidate, initSeen, retired, bumped, snap>>

(* The policy's packet carries an init_motion request instead of a TCP     *)
(* target: the fresh request resets the lifecycle, and without a TCP       *)
(* target any other recovery is paused.                                    *)
SrvInitMotion ==
    /\ suspended /\ ~initSeen
    /\ srv' = [state |-> "tracking", epoch |-> srv.epoch + 1, fence |-> 0]
    /\ attempts' = 0 /\ exhausted' = FALSE /\ initSeen' = TRUE /\ retired' = FALSE
    /\ UNCHANGED <<streamVars, fences, cache, candidate, bumped, snap>>

(* Free-drive of an arm: its command holds both arms, which pauses a       *)
(* recovery and retires its executors, and its end advances motion_epoch   *)
(* (resyncArmAfterFreedrive).                                              *)
SrvFreedrive ==
    /\ ~shutdown /\ events < MaxEvents
    /\ events' = events + 1 /\ bumped' = TRUE
    /\ IF srv.state = "tracking"
       THEN UNCHANGED <<srv, retired>>
       ELSE srv' = [srv EXCEPT !.state = "paused"] /\ retired' = TRUE
    /\ UNCHANGED <<mode, commandVars, observedVars, lockVars, workerVars, rtcVars, wire, attempts,
                   exhausted, fences, cache, candidate, initSeen, snap>>

SrvPublish ==
    /\ snap # srv \/ bumped
    /\ snap' = srv /\ moved' = (moved \/ bumped) /\ bumped' = FALSE
    /\ UNCHANGED <<mode, commandVars, suspended, recov, published, resume, lockVars, workerVars,
                   rtcVars, wire, events, srv, attempts, exhausted, fences, cache, candidate,
                   initSeen, retired>>
-----------------------------------------------------------------------------
(* The policy's steps leave the loop alone; the end of a suspension lets   *)
(* the next one be a fresh request.  The request is sent again every tick, *)
(* so the loop has taken it before the suspension is done or cancelled.    *)
Command ==
    \/ /\ \/ Observe(snap)
          \/ on_arm_init_override_start
          \/ on_arm_init_override_failed
          \/ initSeen /\ ReanchorArms
          \/ RecoverTick
          \/ HoldAndRequest(held)
          \/ ResumeRow
          \/ AcquireChunk
          \/ BetweenRows
          \/ RowDeadline
          \/ ReadyEventTake
          \/ Boundary
          \/ KickAndEmit(held)
          \/ close
       /\ UNCHANGED serverVars
    \/ /\ InvalidateReanchored
       /\ initSeen' = FALSE
       /\ UNCHANGED <<srv, attempts, exhausted, fences, cache, candidate, retired, bumped, snap>>

(* A frame is a local datagram that the loop examines in its next tick: it *)
(* has arrived, or is lost, before an inference begun after it is answered.*)
settled == wire = None /\ ~(srv.state = "waiting_fresh" /\ cache # None)

(* The newest frames of the cameras may still be from before the fence. *)
Worker ==
    /\ \/ WorkerTake
       \/ WorkerExit
       \/ \E stamp \in {fences - 1, fences} \cap Nat : WorkerSample(stamp)
       \/ settled /\ \E ok \in BOOLEAN : WorkerInferred(ok)
       \/ WorkerPublish
    /\ UNCHANGED serverVars

Server ==
    \/ SrvBrake
    \/ SrvStopped
    \/ SrvFreshTimeout
    \/ SrvBudgetReset
    \/ SrvReceive
    \/ SrvExamine
    \/ SrvEngaged
    \/ SrvInitMotion
    \/ SrvPublish
    \/ SrvFreedrive

Next == Command \/ Worker \/ Server

Spec == Init /\ [][Next]_vars
-----------------------------------------------------------------------------
(* The variables of the loop have their types. *)
TypeOK ==
    /\ StreamTypeOK
    /\ srv \in Block /\ snap \in Block /\ recov \in Block \cup {None}
    /\ attempts \in 0..MaxAttempts /\ exhausted \in BOOLEAN /\ fences \in Nat
    /\ cache \in [id: Id, epoch: Nat, stamp: Nat] \cup {None}
    /\ candidate \in Id \cup {None} /\ initSeen \in BOOLEAN /\ retired \in BOOLEAN
    /\ bumped \in BOOLEAN

(* After a recovery the policy plays on from the very plan the loop has    *)
(* restarted its executors from, beginning with its first row.             *)
ResumesAcceptedPlan ==
    pc = "tick" /\ resume /\ recov.epoch = srv.epoch => candidate = chunk.id

(* A row is only played while the snapshot shows the loop tracking, and    *)
(* from a plan requested in the recovery epoch it shows: no plan outlives  *)
(* the recovery that abandoned it.                                         *)
RowsOfThisEpoch ==
    pc = "kick" /\ advanced /\ chunk # None =>
        recov.state = "tracking" /\ chunk.epoch = recov.epoch
=============================================================================
