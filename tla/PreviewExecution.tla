-------------------------- MODULE PreviewExecution --------------------------
(***************************************************************************)
(* rb_servo_server/src/control/live_preview_execution.cpp, the executor    *)
(* that dispatches planned motion of one arm, and                          *)
(* preview_execution_worker.cpp, the private thread that plans it.  The    *)
(* servo thread submits a request that continues the path it is sending,   *)
(* the worker solves it while the path moves on, and the servo thread      *)
(* splices the answer in at an agreed time, or brakes when none comes.     *)
(* Time is counted in servo periods.  A trajectory is its identity and its *)
(* lifetime; a coordinate frame is the number of folds since the epoch     *)
(* began.  The history, phase cursor and contact clamps are an input.      *)
(***************************************************************************)
EXTENDS Naturals, FiniteSets

CONSTANTS
    SpliceLead,     \* splice_lead_sec
    ReplanPeriod,   \* replan_period_sec
    MaxAge,         \* max_result_age_sec
    Horizon,        \* length of a planned trajectory
    Slots,          \* kSlots of each mailbox
    MaxBrake,       \* longest brake
    MaxGap,         \* longest time between two ticks
    Setups,         \* [recovery, top]: recovery.enable, send_at_tick_start
    Inputs,         \* what a tick may bring
    None            \* an absent plan, brake or transaction

(* The constructor throws on the third. *)
ASSUME TimingAssumption ==
    /\ SpliceLead \in Nat /\ ReplanPeriod \in Nat /\ MaxAge \in Nat /\ Horizon \in Nat
    /\ SpliceLead > 1 /\ MaxAge > SpliceLead + ReplanPeriod
ASSUME BoundAssumption == MaxBrake \in Nat /\ MaxGap \in Nat \ {0} /\ Slots \in Nat
ASSUME SetupAssumption == Setups \subseteq [recovery: BOOLEAN, top: BOOLEAN]

(* A request, and the plan that answers it: PreviewExecutionIdentity, the  *)
(* gauge and the times.  reach: when the predecessor's trajectory ends.    *)
(* basis, a history field: the path being sent when it was requested.      *)
Plan ==
    [epoch: Nat, gate: Nat, src: Nat, parent: Nat, id: Nat, gauge: Nat,
     splice: Nat, until: Nat, reach: Nat, basis: Nat]

Brake == [id: Nat, origin: Nat, dur: 0..MaxBrake]

ASSUME NoneAssumption ==
    /\ None \notin Plan /\ None \notin Brake
    /\ None \notin [epoch: Nat, plan: Nat, time: Nat]
    /\ None \notin [time: Nat, plan: Nat] /\ None \notin 0..MaxBrake
    /\ None \notin [plan: Plan, solved: BOOLEAN]

VARIABLES
    setup,     \* the configuration
    clock,     \* steady clock, at the servo loop's last tick
    x,         \* the executor's state
    src, on,   \* the chunk follower: window sequence; active and not paused
    tx,        \* the transaction staged for the top of the next tick
    requests,  \* Ready request slots
    results,   \* Ready result slots
    wpc, job,  \* worker: where it is, and the request it reads
    since      \* history: when the executor began the present stop

servoVars == <<clock, x, src, on, tx, since>>
workerVars == <<wpc, job>>
vars == <<setup, servoVars, requests, results, workerVars>>

(* path, a history field: how often the sent path has been replaced.       *)
Executor ==
    [init: BOOLEAN, faulted: BOOLEAN, stopping: BOOLEAN, recov: BOOLEAN,
     stopFault: BOOLEAN, seed: BOOLEAN,
     epoch: Nat, gate: Nat, rid: Nat, gauge: Nat, planId: Nat, path: Nat,
     last: Nat, initAt: Nat, nextReq: Nat, starved: Nat,
     active: Plan \cup {None}, staged: Plan \cup {None}, brake: Brake \cup {None},
     acc: [time: Nat, plan: Nat] \cup {None}]

(* What a tick brings: the arm stands still; the contact authority admits  *)
(* the staged plan over a brake; the cursor; the brake that can be         *)
(* computed from the accepted state, None when none can; the peer arm asks *)
(* for a recovery; the send goes through.                                  *)
Input ==
    [still: BOOLEAN, contact: BOOLEAN, cursor: {"ok", "late", "bad"},
     brake: (0..MaxBrake) \cup {None}, peer: BOOLEAN, sent: BOOLEAN]

ASSUME InputAssumption == Inputs \subseteq Input
-----------------------------------------------------------------------------
hasPlan(e) == e.active # None \/ e.brake # None

reset(e) ==
    LET dirty == e.init \/ e.staged # None \/ hasPlan(e) \/ e.faulted IN
    [e EXCEPT !.epoch = IF dirty THEN @ + 1 ELSE @,
              !.gate = IF dirty THEN @ + 1 ELSE @,
              !.init = FALSE, !.faulted = FALSE, !.stopping = FALSE, !.recov = FALSE,
              !.stopFault = FALSE, !.seed = FALSE, !.gauge = 0, !.planId = 0, !.starved = 0,
              !.active = None, !.staged = None, !.brake = None, !.acc = None]

fail(e) == [reset(e) EXCEPT !.faulted = TRUE]

(* A brake starts at the last sample known to be sent, or at the cold      *)
(* pose.  A brake that runs is never renewed, but by the faulty variant.   *)
startBrake(e, dur) ==
    LET origin == IF e.acc # None THEN e.acc.time ELSE e.last IN
    IF ~e.init \/ e.faulted \/ origin > e.last \/ e.last >= origin + MaxAge \/ dur = None
    THEN fail(e)
    ELSE [e EXCEPT !.rid = @ + 1, !.planId = e.rid + 1, !.nextReq = e.last,
                   !.path = @ + 1, !.active = None, !.staged = None,
                   !.brake = [id |-> e.rid + 1, origin |-> origin, dur |-> dur]]

beginBrakeAnew(e, dur) == startBrake(e, dur)

beginBrake(e, dur) == IF e.brake # None THEN e ELSE startBrake(e, dur)

(* The terminal sample of the brake has been sent.                         *)
terminalSent(e) ==
    /\ e.brake # None /\ e.acc # None
    /\ e.acc.plan = e.brake.id
    /\ e.acc.time >= e.brake.origin + e.brake.dur

stopComplete(e) == e.stopping /\ terminalSent(e)

recoveryStopped(e) == e.recov /\ terminalSent(e)

requestStop(e, dur) ==
    IF e.stopping \/ ~e.init \/ e.faulted THEN e
    ELSE LET b == beginBrake([e EXCEPT !.recov = FALSE, !.stopFault = FALSE,
                                       !.gate = @ + 1, !.staged = None], dur) IN
         IF b.faulted THEN b ELSE [b EXCEPT !.stopping = TRUE]

requestRecovery(e, dur) ==
    IF ~setup.recovery \/ ~e.init \/ e.faulted \/ e.recov THEN e
    ELSE beginBrake([e EXCEPT !.recov = TRUE, !.stopFault = FALSE,
                              !.gate = @ + 1, !.staged = None], dur)

seedStationaryRecovery(e, now, in) ==
    IF ~setup.recovery \/ e.init \/ e.faulted \/ ~in.still THEN e
    ELSE requestRecovery([e EXCEPT !.init = TRUE, !.initAt = now, !.last = now,
                                   !.path = @ + 1], in.brake)

(* stopOutput and recoveryOutput: a sample of the running brake.           *)
brakeOutput(e, now) ==
    IF e.faulted \/ now >= e.last + MaxAge THEN fail(e) ELSE [e EXCEPT !.last = now]

restartRecovery(e) == [reset(e) EXCEPT !.seed = TRUE]
-----------------------------------------------------------------------------
(* The plan a successor must continue.                                     *)
parent(e) == IF e.brake # None THEN e.brake.id
             ELSE IF e.active # None THEN e.active.id ELSE 0

(* stagedCurrent and the identity checks of validatePreviewExecutionResult; *)
(* the faulty variant does not ask which plan is continued.                *)
currentAnyParent(e, p) == p.epoch = e.epoch /\ p.gate = e.gate /\ p.src = src

current(e, p) ==
    p.epoch = e.epoch /\ p.gate = e.gate /\ p.src = src /\ p.parent = parent(e)

inFrame(e, p) == [p EXCEPT !.gauge = e.gauge]

sampled(p, now) == now <= p.splice + Horizon

(* step, in the order of the code.  begin: the cold start and the clock.   *)
begin(e, now, in) ==
    IF ~e.init
    THEN IF ~in.still THEN e
         ELSE [e EXCEPT !.init = TRUE, !.initAt = now, !.last = now, !.nextReq = now,
                        !.seed = FALSE, !.path = @ + 1]
    ELSE IF now >= e.last + MaxAge THEN fail(e) ELSE [e EXCEPT !.last = now]

take(e, now, r) ==
    IF /\ r # None /\ r.solved /\ current(e, r.plan) /\ now < r.plan.splice
       /\ e.staged = None /\ ~e.stopFault
    THEN [e EXCEPT !.staged = inFrame(e, r.plan)] ELSE e

dropForeign(e) ==
    IF e.staged # None /\ ~current(e, e.staged) THEN [e EXCEPT !.staged = None] ELSE e

(* A fold after the plan was staged moves the plan.                        *)
transport(e, now) ==
    IF e.staged # None /\ now < e.staged.until
    THEN [e EXCEPT !.staged = inFrame(e, e.staged)] ELSE e

admit(e, now, in) ==
    IF e.staged = None \/ now < e.staged.splice THEN e
    ELSE IF \/ now >= e.staged.until \/ ~sampled(e.staged, now)
            \/ e.brake # None /\ ~in.contact
    THEN [e EXCEPT !.staged = None]
    ELSE [e EXCEPT !.active = e.staged, !.staged = None, !.brake = None,
                   !.planId = e.staged.id, !.starved = 0, !.path = @ + 1]

expire(e, now, in) ==
    IF e.active # None /\ (now >= e.active.until \/ ~sampled(e.active, now))
    THEN beginBrake([e EXCEPT !.starved = IF @ = 0 THEN now ELSE @], in.brake) ELSE e

(* The stops step itself asks for: a brake that ends in a fault, no first  *)
(* plan, no plan for too long, a cursor too far behind.                    *)
selfStop(e, now, in) ==
    IF e.faulted THEN e
    ELSE IF e.brake # None /\ e.stopFault /\ terminalSent(e) THEN fail(e)
    ELSE IF ~hasPlan(e) /\ now >= e.initAt + MaxAge
         THEN IF setup.recovery THEN requestRecovery(e, in.brake) ELSE fail(e)
    ELSE IF setup.recovery /\ e.starved > 0 /\ now >= e.starved + MaxAge
         THEN requestRecovery(e, in.brake)
    ELSE IF in.cursor = "bad" THEN fail(e)
    ELSE IF in.cursor = "late"
         THEN IF setup.recovery THEN requestRecovery(e, in.brake)
              ELSE LET b == beginBrake(e, in.brake) IN
                   IF b.faulted THEN b ELSE [b EXCEPT !.stopFault = TRUE]
    ELSE e

step(e, now, in, r) ==
    LET b == begin(e, now, in) IN
    IF ~b.init THEN b
    ELSE selfStop(expire(admit(transport(dropForeign(take(b, now, r)), now), now, in),
                         now, in), now, in)

(* The request at the end of a step that was not cut short.                *)
wantsPlan(e, now) ==
    e.init /\ ~e.recov /\ ~e.stopping /\ ~e.stopFault /\ e.staged = None /\ now >= e.nextReq

planRequest(e, now) ==
    [epoch |-> e.epoch, gate |-> e.gate, src |-> src, parent |-> parent(e),
     id |-> e.rid + 1, gauge |-> e.gauge, splice |-> now + SpliceLead,
     until |-> now + MaxAge, basis |-> e.path,
     reach |-> IF e.active # None THEN e.active.splice + Horizon ELSE now + SpliceLead]
-----------------------------------------------------------------------------
(* transaction and observeDispatch: the executor learns what was sent.     *)
transaction(e) ==
    IF e.init /\ ~e.faulted /\ hasPlan(e)
    THEN [epoch |-> e.epoch, plan |-> e.planId, time |-> e.last] ELSE None

observeDispatch(e, t, sent) ==
    IF t = None \/ t.epoch # e.epoch THEN e
    ELSE IF \/ ~sent \/ t.plan = 0 \/ t.time > e.last
            \/ e.acc # None /\ t.time < e.acc.time
    THEN fail(e)
    ELSE [e EXCEPT !.acc = [time |-> t.time, plan |-> t.plan]]

(* applyPreviewExecution under a TCP target, before the coordination of    *)
(* the two arms.  A stop that runs has precedence over the new target.     *)
steps(e) == ~e.stopping /\ ~e.faulted /\ ~e.recov /\ on

streamed(e, now, in, r) ==
    IF steps(e) THEN step(e, now, in, r)
    ELSE IF e.stopping /\ terminalSent(e) THEN reset(e)
    ELSE IF e.stopping \/ e.recov THEN brakeOutput(e, now)
    ELSE IF e.faulted THEN e ELSE reset(e)

(* coordinatePreviewRecovery, this arm's share.                            *)
coordinated(e, now, in) ==
    LET q == IF ~in.peer THEN e
             ELSE IF e.init THEN requestRecovery(e, in.brake)
             ELSE seedStationaryRecovery(e, now, in) IN
    IF q.recov THEN brakeOutput(q, now) ELSE q

(* A Hold: applyChunkFollowerStage asks for the stop, and                  *)
(* applyPreviewExecution samples it.                                       *)
held(e, now, dur) ==
    IF ~e.init \/ stopComplete(e) THEN reset(e)
    ELSE LET s == requestStop(e, dur) IN
         IF s.faulted THEN s ELSE brakeOutput(s, now)

halting(e) == e.stopping \/ e.recov

(* The two ends of a tick: the send at its top, or at its end.             *)
atTop(sent) == IF setup.top THEN observeDispatch(x, tx, sent) ELSE x

EndTick(e, now, sent) ==
    /\ clock' = now
    /\ x' = IF setup.top THEN e ELSE observeDispatch(e, transaction(e), sent)
    /\ tx' = IF setup.top THEN transaction(e) ELSE None
    /\ since' = IF ~halting(x') THEN 0
                ELSE IF halting(x) /\ x'.epoch = x.epoch THEN since ELSE now

(* tryTake empties the Ready slots and keeps the newest.                   *)
newest(rs) ==
    IF rs = {} THEN {None}
    ELSE {r \in rs : \A q \in rs : q.plan.id <= r.plan.id}

(* trySubmit into a Free slot; one more is held while the worker reads it. *)
busySlots == Cardinality(requests) + IF wpc \in {"start", "solve"} THEN 1 ELSE 0

submitted(e, now) ==
    [e EXCEPT !.rid = @ + 1,
              !.nextReq = IF busySlots < Slots THEN now + ReplanPeriod ELSE @]

(* One stream tick, with r taken from the results. *)
Streams(e, now, in, taking, r) ==
    LET s == streamed(e, now, in, r)
        asks == taking /\ wantsPlan(s, now)
    IN
    /\ requests' = IF asks /\ busySlots < Slots
                   THEN requests \cup {planRequest(s, now)} ELSE requests
    /\ EndTick(coordinated(IF asks THEN submitted(s, now) ELSE s, now, in), now, in.sent)

StreamTick(dt, in) ==
    LET now == clock + dt
        e == atTop(in.sent)
        taking == steps(e) /\ begin(e, now, in).init
    IN
    /\ \E r \in IF taking THEN newest(results) ELSE {None} : Streams(e, now, in, taking, r)
    /\ results' = IF taking THEN {} ELSE results
    /\ on' = (on /\ ~e.stopping)
    /\ UNCHANGED <<setup, src, workerVars>>

HoldTick(dt, dur, sent) ==
    /\ EndTick(held(atTop(sent), clock + dt, dur), clock + dt, sent)
    /\ on' = (on /\ ~atTop(sent).init)
    /\ UNCHANGED <<setup, src, requests, results, workerVars>>

(* Any other mode, a tare, a settling hold, a lost follower: the executor  *)
(* is reset at once.                                                       *)
ResetTick(dt, sent) ==
    /\ EndTick(reset(atTop(sent)), clock + dt, sent)
    /\ on' = FALSE
    /\ UNCHANGED <<setup, src, requests, results, workerVars>>

(* The follower takes over a new chunk; a stop or a recovery keeps it out. *)
Frame ==
    /\ ~halting(x)
    /\ src' = src + 1
    /\ on' = TRUE
    /\ UNCHANGED <<setup, clock, x, tx, since, requests, results, workerVars>>

(* updatePreviewRecoveryInput accepts a frame newer than the stop.         *)
Restart ==
    /\ recoveryStopped(x)
    /\ x' = restartRecovery(x)
    /\ on' = FALSE
    /\ since' = 0
    /\ UNCHANGED <<setup, clock, src, tx, requests, results, workerVars>>

(* shiftCommonFrame, by the tagged folds of the servo loop.  The brake,    *)
(* the cold pose and the accepted sample move with the active plan.        *)
shiftCommonFrame(e) ==
    IF ~e.init /\ ~e.seed THEN e
    ELSE LET f == [e EXCEPT !.gauge = @ + 1] IN
         IF f.active = None THEN f ELSE [f EXCEPT !.active = inFrame(f, @)]

Fold ==
    /\ x' = shiftCommonFrame(x)
    /\ UNCHANGED <<setup, clock, src, on, tx, since, requests, results, workerVars>>
-----------------------------------------------------------------------------
(* The worker's run loop takes the newest request.                         *)
WorkerSelect ==
    /\ wpc = "idle"
    /\ \E p \in requests :
          /\ \A q \in requests : q.id <= p.id
          /\ job' = p
          /\ requests' = requests \ {p}
    /\ wpc' = "start"
    /\ UNCHANGED <<setup, servoVars, results>>

(* publish: dropped when no slot is Free.  The request's slot is freed     *)
(* just before.                                                            *)
publish(solved) ==
    /\ results' = IF Cardinality(results) < Slots
                  THEN results \cup {[plan |-> job, solved |-> solved]} ELSE results
    /\ wpc' = "idle"
    /\ job' = None

(* It frees the slots of older requests, and starts the solver unless the  *)
(* request is late or its predecessor does not reach the splice.  The      *)
(* solver's time ends one period before the splice.                        *)
WorkerStart ==
    /\ wpc = "start"
    /\ requests' = {q \in requests : q.splice > job.splice}
    /\ \/ /\ clock + 1 < job.splice /\ job.splice <= job.reach
          /\ wpc' = "solve"
          /\ UNCHANGED <<results, job>>
       \/ /\ ~(clock + 1 < job.splice /\ job.splice <= job.reach)
          /\ publish(FALSE)
    /\ UNCHANGED <<setup, servoVars>>

WorkerSolve ==
    /\ wpc = "solve"
    /\ \E ok \in BOOLEAN : publish(ok /\ clock < job.splice)
    /\ UNCHANGED <<setup, servoVars, requests>>
-----------------------------------------------------------------------------
Init ==
    /\ setup \in Setups
    /\ clock = 0
    /\ x = [init |-> FALSE, faulted |-> FALSE, stopping |-> FALSE, recov |-> FALSE,
            stopFault |-> FALSE, seed |-> FALSE,
            epoch |-> 1, gate |-> 1, rid |-> 0, gauge |-> 0, planId |-> 0, path |-> 0,
            last |-> 0, initAt |-> 0, nextReq |-> 0, starved |-> 0,
            active |-> None, staged |-> None, brake |-> None, acc |-> None]
    /\ src = 0 /\ on = FALSE
    /\ tx = None /\ since = 0
    /\ requests = {} /\ results = {}
    /\ wpc = "idle" /\ job = None

Sent == {in.sent : in \in Inputs}

Tick == \E dt \in 1..MaxGap :
    \/ \E in \in Inputs : StreamTick(dt, in)
    \/ \E dur \in {in.brake : in \in Inputs}, sent \in Sent : HoldTick(dt, dur, sent)
    \/ \E sent \in Sent : ResetTick(dt, sent)

Worker == WorkerSelect \/ WorkerStart \/ WorkerSolve

Next == Tick \/ Frame \/ Restart \/ Fold \/ Worker

Spec == Init /\ [][Next]_vars
-----------------------------------------------------------------------------
(* "the plan is continuous with the dispatched path by construction"       *)
(* (preview_execution_worker.cpp): when a plan computed in the background  *)
(* replaces the motion being sent, it continues exactly the path that was  *)
(* being sent up to then, and it stands in the coordinate frame of that    *)
(* tick.  A brake, a stop, a recovery, a reset or another plan between the *)
(* request and the splice makes the answer unusable.                       *)
SpliceIsContinuous ==
    [][(x'.active # None /\ x'.active.id # parent(x)) =>
          x'.active.basis = x.path /\ x'.active.gauge = x'.gauge]_vars

(* "Repeated Hold must never renew the clock": an arm told to stop, or     *)
(* recovering, has been sent the end of one bounded brake after the        *)
(* longest brake and one tick, however often it is told again, by a Hold,  *)
(* the peer arm or its own timeouts, and whatever plans still arrive.      *)
StopIsBounded ==
    (halting(x) /\ clock >= since + MaxBrake + MaxGap) => terminalSent(x)
=============================================================================
