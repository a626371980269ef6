----------------------------- MODULE ChunkStream -----------------------------
(***************************************************************************)
(* The policy's chunk stream: the command thread that plays one row of the *)
(* active action chunk per policy step (next_intent, _next_intent_streamed)*)
(* and the worker thread that infers the next chunk (_stream_worker), with *)
(* the generation counter that invalidations bump and the bookkeeping of   *)
(* real-time chunking (RTC: the previous raw plan that the next inference  *)
(* freezes its first rows to).                                             *)
(*                                                                         *)
(* Every critical section of _stream_lock is one step, so the worker may   *)
(* run between any two of them.  A plan is a record:                       *)
(*   id     its inference_seq, recycled when nothing refers to it any more *)
(*   cur    its generation is still _stream_generation                     *)
(*   age    rows emitted since its observation: the difference of          *)
(*          _stream_emitted_policy_steps and observation_step_seq          *)
(*   epoch  preview_recovery_epoch of the payload it was requested with    *)
(*   stamp  its camera observation time, as the number of observation      *)
(*          fences the server had raised by then                           *)
(*   frozen the inference_delay sent with it, 0 without a previous plan    *)
(* Row deadlines may pass at any tick.  The source is the live one:        *)
(* nonblocking_stream_inference, async chunking, boundary stitching, both  *)
(* arms driven, the flow_infer_preview profile with preview recovery.      *)
(***************************************************************************)
EXTENDS Naturals, Sequences

CONSTANTS
    Horizon,       \* rows of an inferred chunk (action_horizon)
    ExecuteSteps,  \* chunk_execute_steps
    Modes,         \* schedulers to consider, a subset of Schedulers
    MaxDelay,      \* rtc_delay_max_steps
    KeepPending,   \* raw plans kept for promotion (8 in the code)
    MaxEvents,     \* bound on invalidating events
    None

Schedulers == {"fixed_steps", "ready_event", "sequential"}

(* Ids, inferred plans and the plan being played. *)
Id == 1..(KeepPending + 9)
Plan == [id: Id, cur: BOOLEAN, age: Nat, epoch: Nat, stamp: Nat, frozen: Nat]
Active == [id: Id, cur: BOOLEAN, age: Nat, epoch: Nat, start: Nat]

ASSUME HorizonAssumption == Horizon \in Nat \ {0}
ASSUME ExecuteAssumption == ExecuteSteps \in 1..Horizon
ASSUME ModesAssumption == Modes # {} /\ Modes \subseteq Schedulers
ASSUME DelayAssumption == MaxDelay \in Nat \ {0}
ASSUME KeepAssumption == KeepPending \in Nat \ {0}
ASSUME EventsAssumption == MaxEvents \in Nat
ASSUME NoneAssumption == None \notin Nat /\ None \notin Plan \cup Active

VARIABLES
    mode,                                       \* scheduler of this session
    pc, advanced, chunk, index,                 \* command thread
    suspended, moved, recov, published, resume, \*   and what it has observed
    request, pending, next, shutdown,           \* under _stream_lock
    wpc, wreq, wok,                             \* worker thread
    prev, pend,                                 \* RTC: previous plan, promotable ids
    wire,                                       \* last overlay frame sent
    events                                      \* invalidating events so far

commandVars == <<pc, advanced, chunk, index>>
observedVars == <<suspended, moved, recov, published, resume>>
lockVars == <<request, pending, next, shutdown>>
workerVars == <<wpc, wreq, wok>>
rtcVars == <<prev, pend>>
streamVars == <<mode, commandVars, observedVars, lockVars, workerVars, rtcVars, wire, events>>

StreamInit ==
    /\ mode \in Modes
    /\ pc = "idle" /\ advanced = FALSE /\ chunk = None /\ index = 0
    /\ suspended = FALSE /\ moved = FALSE /\ recov = None /\ published = FALSE /\ resume = FALSE
    /\ request = None /\ pending = FALSE /\ next = None /\ shutdown = FALSE
    /\ wpc = "wait" /\ wreq = None /\ wok = FALSE
    /\ prev = None /\ pend = <<>> /\ wire = None /\ events = 0
-----------------------------------------------------------------------------
(* Invalidation and the RTC reset. *)

outdated(plan) == IF plan = None THEN None ELSE [plan EXCEPT !.cur = FALSE]

(* _invalidate_policy_chunks: one bump of the generation.  What the worker *)
(* holds and what RTC remembers are of an older generation from now on.    *)
invalidatePolicyChunks ==
    /\ chunk' = None /\ index' = 0
    /\ published' = FALSE /\ resume' = FALSE
    /\ request' = None /\ pending' = FALSE /\ next' = None
    /\ wreq' = outdated(wreq)

resetRtc == prev' = None /\ pend' = <<>>

keepRtc == prev' = outdated(prev) /\ pend' = pend

keepChunks == UNCHANGED <<chunk, index, published, resume, request, pending, next, wreq, rtcVars>>

(* Mutant: only the state of the block is looked at. *)
mustRecoverByState(block) ==
    \/ recov = None /\ block.state # "tracking"
    \/ block.state \in {"braking", "paused"} /\ (recov = None \/ block.state # recov.state)

(* _update_preview_recovery, then _handle_server_motion_epoch, at the      *)
(* start of a tick: block is the server's recovery state in the snapshot.  *)
mustRecover(block) ==
    \/ recov # None /\ block.epoch # recov.epoch
    \/ recov = None /\ block.state # "tracking"
    \/ block.state \in {"braking", "paused"} /\ (recov = None \/ block.state # recov.state)

Observe(block) ==
    /\ pc = "idle" /\ ~suspended /\ ~shutdown
    /\ IF mustRecover(block) THEN invalidatePolicyChunks /\ resetRtc
       ELSE IF moved THEN invalidatePolicyChunks /\ keepRtc
       ELSE keepChunks
    /\ recov' = block /\ moved' = FALSE
    /\ pc' = IF block.state = "tracking" THEN "tick" ELSE "recover"
    /\ UNCHANGED <<mode, advanced, suspended, shutdown, wpc, wok, wire, events>>

(* The hooks of an arm_init override, called between ticks. *)
on_arm_init_override_start ==
    /\ pc = "idle" /\ ~suspended /\ ~shutdown /\ events < MaxEvents
    /\ events' = events + 1
    /\ suspended' = TRUE
    /\ invalidatePolicyChunks /\ keepRtc
    /\ UNCHANGED <<mode, pc, advanced, moved, recov, shutdown, wpc, wok, wire>>

on_arm_init_override_failed ==
    /\ pc = "idle" /\ suspended /\ ~shutdown
    /\ invalidatePolicyChunks /\ keepRtc
    /\ UNCHANGED <<mode, pc, advanced, suspended, moved, recov, shutdown, wpc, wok, wire, events>>

(* on_arm_init_override_done and _cancel: _reanchor_arms_to_snapshot       *)
(* resets RTC, and only then is the generation bumped.                     *)
ReanchorArms ==
    /\ pc = "idle" /\ suspended /\ ~shutdown
    /\ resetRtc
    /\ pc' = "reanchored"
    /\ UNCHANGED <<mode, advanced, chunk, index, observedVars, lockVars, workerVars, wire, events>>

InvalidateReanchored ==
    /\ pc = "reanchored"
    /\ invalidatePolicyChunks /\ keepRtc
    /\ pc' = "idle" /\ suspended' = FALSE
    /\ UNCHANGED <<mode, advanced, moved, recov, shutdown, wpc, wok, wire, events>>

-----------------------------------------------------------------------------
(* Taking, activating and requesting chunks. *)

least(a, b) == IF a < b THEN a ELSE b

executeLimit == least(ExecuteSteps, Horizon - chunk.start)

prefetchAt ==
    CASE mode = "ready_event" -> 0
      [] mode = "sequential"  -> executeLimit
      [] OTHER -> least(IF executeLimit <= 4 THEN 1 ELSE 2, executeLimit - 1)

promotable == {pend[i] : i \in DOMAIN pend}

(* on_rtc_chunk_activated: the plan the robot now executes becomes the one *)
(* the next freeze continues, and older results can no longer be promoted. *)
rtcActivated(plan) ==
    \/ /\ plan.id \notin promotable
       /\ UNCHANGED rtcVars
    \/ \E i \in DOMAIN pend :
          /\ pend[i] = plan.id
          /\ prev' = [id |-> plan.id, cur |-> plan.cur]
          /\ pend' = SubSeq(pend, i + 1, Len(pend))

rtcDiscarded(plan) ==
    /\ prev' = prev
    /\ \/ plan.id \notin promotable /\ pend' = pend
       \/ \E i \in DOMAIN pend :
             /\ pend[i] = plan.id
             /\ pend' = SubSeq(pend, 1, i - 1) \o SubSeq(pend, i + 1, Len(pend))

(* Mutant: play the whole plan, whatever was emitted since its observation. *)
activateWholeChunk(plan) ==
    /\ index' = 0
    /\ chunk' = [id |-> plan.id, cur |-> plan.cur, age |-> plan.age, epoch |-> plan.epoch, start |-> 0]
    /\ rtcActivated(plan)
    /\ wire' = [id |-> plan.id, epoch |-> plan.epoch, stamp |-> plan.stamp]

(* _activate_chunk: drop the rows the stream has already emitted since the *)
(* observation; a plan with none left is discarded.                        *)
activateChunk(plan) ==
    /\ index' = 0
    /\ IF plan.age >= Horizon
       THEN /\ chunk' = None
            /\ rtcDiscarded(plan)
            /\ wire' = wire
       ELSE /\ chunk' = [id |-> plan.id, cur |-> plan.cur, age |-> plan.age, epoch |-> plan.epoch,
                         start |-> plan.age]
            /\ rtcActivated(plan)
            /\ wire' = [id |-> plan.id, epoch |-> plan.epoch, stamp |-> plan.stamp]

takePrefetched == next' = None

(* _begin_inference_request: an id nothing refers to, of which there is    *)
(* always one; held are the plans the server still refers to.              *)
inUse == {p.id : p \in {request, wreq, next, chunk, prev, wire} \ {None}} \cup promotable

newRequest(held) ==
    [id |-> CHOOSE i \in Id : i \notin inUse \cup held \/ Id \subseteq inUse \cup held,
     cur |-> TRUE, age |-> 0, epoch |-> recov.epoch, stamp |-> 0, frozen |-> 0]

(* _request_prefetch refuses while a request is pending or a result waits. *)
mayRequest == ~shutdown /\ ~pending /\ next = None

(* The request at the end of a tick that plays no row. *)
HoldAndRequest(held) ==
    /\ pc = "request"
    /\ pending' = (pending \/ mayRequest)
    /\ request' = IF mayRequest THEN newRequest(held) ELSE request
    /\ pc' = "idle"
    /\ UNCHANGED <<mode, advanced, chunk, index, observedVars, next, shutdown, workerVars, rtcVars,
                   wire, events>>

(* _preview_recovery_intent: only a post-stop plan of this recovery is     *)
(* published, once, and none of its rows is played yet.                    *)
recoveryEligible(plan) == plan.cur /\ plan.epoch = recov.epoch /\ plan.stamp >= recov.fence

(* Mutant: every eligible plan of the recovery is published. *)
RecoverTickAgain ==
    /\ pc = "recover"
    /\ takePrefetched
    /\ IF recov.state = "waiting_fresh" /\ next # None /\ recoveryEligible(next)
       THEN /\ activateChunk(next)
            /\ published' = TRUE /\ resume' = TRUE /\ pc' = "idle"
       ELSE /\ pc' = "request"
            /\ UNCHANGED <<chunk, index, published, resume, rtcVars, wire>>
    /\ UNCHANGED <<mode, advanced, suspended, moved, recov, request, pending, shutdown, workerVars,
                   events>>

RecoverTick ==
    /\ pc = "recover"
    /\ \/ /\ recov.state # "waiting_fresh" \/ published
          /\ pc' = "idle"
          /\ UNCHANGED <<chunk, index, published, resume, next, rtcVars, wire>>
       \/ /\ recov.state = "waiting_fresh" /\ ~published
          /\ takePrefetched
          /\ IF next # None /\ recoveryEligible(next)
             THEN /\ activateChunk(next)
                  /\ published' = (chunk' # None) /\ resume' = (chunk' # None)
                  /\ pc' = IF chunk' # None THEN "idle" ELSE "request"
             ELSE /\ pc' = "request"
                  /\ UNCHANGED <<chunk, index, published, resume, rtcVars, wire>>
    /\ UNCHANGED <<mode, advanced, suspended, moved, recov, request, pending, shutdown, workerVars,
                   events>>
-----------------------------------------------------------------------------
(* _next_intent_streamed. *)

(* The accepted recovery candidate starts with its first row. *)
ResumeRow ==
    /\ pc = "tick" /\ resume /\ chunk # None
    /\ resume' = FALSE /\ published' = FALSE /\ index' = 0
    /\ advanced' = TRUE /\ pc' = "kick"
    /\ UNCHANGED <<mode, chunk, suspended, moved, recov, lockVars, workerVars, rtcVars, wire, events>>

AcquireChunk ==
    /\ pc = "tick" /\ chunk = None
    /\ takePrefetched
    /\ IF next = None
       THEN /\ pc' = "request"
            /\ UNCHANGED <<advanced, chunk, index, rtcVars, wire>>
       ELSE /\ activateChunk(next)
            /\ advanced' = TRUE /\ pc' = "kick"
    /\ UNCHANGED <<mode, observedVars, request, pending, shutdown, workerVars, events>>

BetweenRows ==
    /\ pc = "tick" /\ ~resume /\ chunk # None
    /\ advanced' = FALSE /\ pc' = "kick"
    /\ UNCHANGED <<mode, chunk, index, observedVars, lockVars, workerVars, rtcVars, wire, events>>

nextRow ==
    IF index + 1 < executeLimit
    THEN index' = index + 1 /\ advanced' = TRUE /\ pc' = "kick"
    ELSE UNCHANGED <<index, advanced>> /\ pc' = "boundary"

(* A row deadline has passed.  _try_ready_event_activation first peeks at  *)
(* the waiting result: one whose frozen rows are not all in the past waits *)
(* for another row.                                                        *)
RowDeadline ==
    /\ pc = "tick" /\ ~resume /\ chunk # None
    /\ IF mode # "ready_event" \/
          (next # None /\ next.age < next.frozen /\ index + 1 < executeLimit)
       THEN nextRow
       ELSE pc' = "take" /\ UNCHANGED <<index, advanced>>
    /\ UNCHANGED <<mode, chunk, observedVars, lockVars, workerVars, rtcVars, wire, events>>

(* The second half, under a second lock: take whatever waits by now. *)
ReadyEventTake ==
    /\ pc = "take"
    /\ takePrefetched
    /\ IF next # None /\ next.cur /\ next.age < Horizon
       THEN /\ activateChunk(next)
            /\ advanced' = TRUE /\ pc' = "kick"
       ELSE /\ nextRow
            /\ IF next = None THEN UNCHANGED rtcVars ELSE rtcDiscarded(next)
            /\ UNCHANGED <<chunk, wire>>
    /\ UNCHANGED <<mode, observedVars, request, pending, shutdown, workerVars, events>>

(* The executable window is drained: swap, or drop the chunk and stall. *)
Boundary ==
    /\ pc = "boundary"
    /\ takePrefetched
    /\ IF next # None
       THEN /\ activateChunk(next)
            /\ advanced' = TRUE /\ pc' = "kick"
       ELSE /\ chunk' = None /\ pc' = "request"
            /\ UNCHANGED <<index, advanced, rtcVars, wire>>
    /\ UNCHANGED <<mode, observedVars, request, pending, shutdown, workerVars, events>>

aged(plan) == IF plan = None THEN None ELSE [plan EXCEPT !.age = @ + 1]

(* The end of a tick: kick the next inference, then play the row. *)
KickAndEmit(held) ==
    /\ pc = "kick"
    /\ LET kick == chunk # None /\ index >= prefetchAt /\ mayRequest
           asked == IF kick THEN newRequest(held) ELSE request
           played(plan) == IF advanced /\ chunk # None THEN aged(plan) ELSE plan
       IN /\ pending' = (pending \/ kick)
          /\ request' = played(asked)
          /\ next' = played(next)
          /\ wreq' = played(wreq)
          /\ chunk' = played(chunk)
    /\ advanced' = FALSE /\ pc' = "idle"
    /\ UNCHANGED <<mode, index, observedVars, shutdown, wpc, wok, rtcVars, wire, events>>

close ==
    /\ pc = "idle" /\ ~shutdown
    /\ shutdown' = TRUE
    /\ UNCHANGED <<mode, commandVars, observedVars, request, pending, next, workerVars, rtcVars, wire,
                   events>>
-----------------------------------------------------------------------------
(* _stream_worker. *)

WorkerTake ==
    /\ wpc = "wait" /\ request # None /\ ~shutdown
    /\ wreq' = request /\ request' = None
    /\ wpc' = "sample"
    /\ UNCHANGED <<mode, commandVars, observedVars, pending, next, shutdown, wok, rtcVars, wire, events>>

WorkerExit ==
    /\ wpc = "wait" /\ shutdown
    /\ wpc' = "exit"
    /\ UNCHANGED <<mode, commandVars, observedVars, lockVars, wreq, wok, rtcVars, wire, events>>

(* _sample_chunk: read the camera and the previous plan, and send the      *)
(* request.  With a previous plan the first inference_delay rows will be   *)
(* frozen to it; the delay is predicted per request (_adaptive_rtc_delay). *)
WorkerSample(stamp) ==
    /\ wpc = "sample"
    /\ \E delay \in IF prev = None THEN {0} ELSE 1..MaxDelay :
          wreq' = [wreq EXCEPT !.stamp = stamp, !.frozen = delay]
    /\ wpc' = "infer"
    /\ UNCHANGED <<mode, commandVars, observedVars, lockVars, wok, rtcVars, wire, events>>

(* Mutant: the newest inferred plan is the one to continue. *)
WorkerInferredPrevious(ok) ==
    /\ wpc = "infer"
    /\ wok' = ok /\ wpc' = "publish"
    /\ prev' = IF ok THEN [id |-> wreq.id, cur |-> wreq.cur] ELSE prev
    /\ UNCHANGED <<mode, commandVars, observedVars, lockVars, wreq, pend, wire, events>>

(* The answer: an action chunk whose raw plan is kept for promotion        *)
(* (_stash_rtc_raw_chunk), or a failure.                                   *)
WorkerInferred(ok) ==
    /\ wpc = "infer"
    /\ wok' = ok /\ wpc' = "publish"
    /\ LET kept == Append(pend, wreq.id)
       IN pend' = IF ~ok THEN pend
                  ELSE SubSeq(kept, IF Len(kept) > KeepPending THEN 2 ELSE 1, Len(kept))
    /\ UNCHANGED <<mode, commandVars, observedVars, lockVars, wreq, prev, wire, events>>

(* Mutant: the generation is not compared. *)
WorkerPublishAny ==
    /\ wpc = "publish"
    /\ next' = IF wok THEN wreq ELSE None
    /\ pending' = FALSE
    /\ wreq' = None /\ wok' = FALSE /\ wpc' = "wait"
    /\ UNCHANGED <<mode, commandVars, observedVars, request, shutdown, rtcVars, wire, events>>

(* Mutant: a stale completion also clears _stream_pending. *)
WorkerPublishUnpends ==
    /\ wpc = "publish"
    /\ next' = IF wreq.cur /\ wok THEN wreq ELSE next
    /\ pending' = FALSE
    /\ IF wreq.cur THEN UNCHANGED rtcVars ELSE resetRtc
    /\ wreq' = None /\ wok' = FALSE /\ wpc' = "wait"
    /\ UNCHANGED <<mode, commandVars, observedVars, request, shutdown, wire, events>>

(* A completion of an older generation only takes back its side effects    *)
(* (_on_stale_inference_completion).                                       *)
WorkerPublish ==
    /\ wpc = "publish"
    /\ IF ~wreq.cur
       THEN resetRtc /\ UNCHANGED <<next, pending>>
       ELSE /\ next' = IF wok THEN wreq ELSE None
            /\ pending' = FALSE
            /\ UNCHANGED rtcVars
    /\ wreq' = None /\ wok' = FALSE /\ wpc' = "wait"
    /\ UNCHANGED <<mode, commandVars, observedVars, request, shutdown, wire, events>>
-----------------------------------------------------------------------------
(* The variables of the stream have the types the code gives them. *)
StreamTypeOK ==
    /\ mode \in Schedulers
    /\ pc \in {"idle", "reanchored", "recover", "request", "tick", "take", "boundary", "kick"}
    /\ advanced \in BOOLEAN /\ chunk \in Active \cup {None} /\ index \in Nat
    /\ suspended \in BOOLEAN /\ moved \in BOOLEAN /\ published \in BOOLEAN /\ resume \in BOOLEAN
    /\ request \in Plan \cup {None} /\ pending \in BOOLEAN /\ next \in Plan \cup {None}
    /\ shutdown \in BOOLEAN
    /\ wpc \in {"wait", "sample", "infer", "publish", "exit"}
    /\ wreq \in Plan \cup {None} /\ wok \in BOOLEAN
    /\ prev \in [id: Id, cur: BOOLEAN] \cup {None} /\ pend \in Seq(Id)
    /\ events \in 0..MaxEvents

(* No plan of an older generation is ever active or waiting to be taken:   *)
(* an inference that an InitMotion, a free-drive exit or a recovery has    *)
(* overtaken can not reach the robot, however late it completes.           *)
NoStalePlan ==
    \A plan \in {chunk, next, request} \ {None} : plan.cur

(* _stream_pending is raised exactly while a request of this generation is *)
(* queued or in the worker's hands, and then no result waits: a late       *)
(* completion neither loses the newer request nor lets a second one in.    *)
PendingIsBacked ==
    LET queued == request # None
        inflight == wreq # None /\ wreq.cur
    IN /\ pending <=> (queued \/ inflight)
       /\ ~(queued /\ inflight)
       /\ pending => next = None

(* The row played next is the one that belongs to this step: as many rows  *)
(* have been played since the plan's observation as precede it in the plan.*)
RowAligned ==
    pc = "kick" /\ advanced /\ chunk # None => chunk.age = chunk.start + index

(* The previous plan the next inference is frozen to is the plan being     *)
(* played, never one that was inferred and then discarded.                 *)
RtcPrevIsPlayed ==
    prev # None /\ chunk # None => prev.id = chunk.id
=============================================================================
