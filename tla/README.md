# Verification of the robotics_lab stack

TLA+ models, TLC runs and TLAPS proofs for the parts of the dual-arm RB5-850E
stack in which several threads or processes share state. Each module is
translated from the source; `PROJECT.json` maps every definition to its lines
and lists the components, hazards, runs, finding, mutants and theorems.

In what follows `loop` is `rb_servo_server/src/control/dual_arm_servo_loop.cpp`.

## The system

| Part | State | Operations | Talks to |
|---|---|---|---|
| Command server (receive thread) | lease, last sequence number per source, token counter | one handler per UDP packet | clients; stores into the command buffer |
| Command buffer | latest command, lifecycle queue (16), pending boxes, box receive time | `setCommand`, `updateLease`, `latestOrHold`, ... | receive thread on one side, servo loop on the other |
| Servo loop (500 Hz) | motion state, fault latch, brake, staged target, freedrive stages, recovery state | one long tick | buffer, arm workers, planners, collision monitor |
| Preview executor and its planning worker | active and staged plan, brake, epoch; two mailboxes | `step`, `requestStop`, `observeDispatch`; the worker's `run` | loop |
| Arm workers (one per arm) | setpoint mailbox, lifecycle queue and result, cached state | `run`, blocking lifecycle calls | loop; robot backend |
| Robot backend and controller | teaching latch, stream state | `servoJ`, `setFreedrive`, `readState` | arm worker |
| Camera devices and supervisors | connected, retries, last frame time | start, watch, stop, retry | metadata queue, synchronizer |
| Frame synchronizer | per-stream buffers, emitted and pending master numbers | `push_frame`, `reset_camera_generation` | metadata thread, supervisors |
| Shared-memory frame ring | slot sequence numbers, payload, next slot | `write_frame`; seqlock read in the clients | camera server and its client processes |
| Policy runner | lease client, arm-init latches, active chunk, inference worker, recorder | one tick of the main loop, one row of a chunk | command server, state and camera publishers |
| Gripper server | last command, contact-close state, last write | `step` per period | gripper bridge, serial motor |
| Operator GUI | record button, init button, lease commands | | command server, policy runner |

A motion travels from a client through command server, command buffer, servo
loop (and preview executor) and arm worker to the controller. Images travel from
a device through the ring (payload) and through the metadata queue, synchronizer
and publisher (announcement), and meet again in the client. The hard behaviour
lies at the hand-overs: a lossy network into a latest-value mailbox, a loop that
blocks on a worker while a hand moves the robot, a target computed in one tick
and sent in the next, a plan computed while the path it continues moves on, a
supervisor that resets a group while frames are in flight, a writer that
overtakes a reader in another process, and clients that decide on a state that
is no longer true.

## Modules

| Module | Code | How state and actions correspond |
|---|---|---|
| `CommandBuffer` | `command_buffer.cpp` | Each method holds the one mutex, so each is one action. Commands carry an id in arrival order. `accepted` and `taken` are history. Telemetry is left out. |
| `CommandServer` | `command_server.cpp`, over `CommandBuffer` | One action per accepted kind of packet, and the loop's read. Any packet may arrive at any time, which covers loss, duplication and reordering. JSON, priorities and the allowlist are left out. |
| `MotionLifecycle` | `loop`, `loopMain` and the latch, policy and gate helpers | One tick in its source order: top dispatch, state read, command chain, gates, target, ramp, send or stage, send outcome. A target is its kind (`motion`, `hold`, `ramp`), a velocity whether the last samples move. |
| `ServoLatch` | abstract | What the latch promises: after a latch at most `Budget` targets, then silence until a reset. |
| `Freedrive` | `loop` (`requestFreedrive`, `advanceFreedrive`, `abortFreedrive`), `arm_worker.cpp`, `rbpodo_backend.cpp` | One arm. The loop's calls block (`wait`) while the worker, controller and hand continue. A pose is a counter advanced by the hand. Deadlines may pass at any step. |
| `PreviewExecution` | `live_preview_execution.cpp`, `preview_execution_worker.cpp`, and their callers in `loop` | One arm. A tick is one action in the order of `step`; the worker selects, starts and answers in three. A plan is its identity, times and frame; a coordinate frame is the number of folds of the epoch; `path` and `basis` are history. Trajectories, cursor, contact and brake durations are inputs. |
| `ChunkStream` | `flow_inference.py`, `openpi_remote.py` | Command thread and inference worker; each critical section of `_stream_lock` is one step. A plan is its id, age, epoch, stamp and frozen rows. |
| `PreviewRecovery` | `loop` (`updatePreviewRecoveryInput`, `coordinatePreviewRecovery`), over `ChunkStream` | The recovery states of the loop, composed with the policy through stale snapshots and lost frames. |
| `ArmInit` | `arm_init_control.py`, `main.py`, `loop` (`applyInitMotionSequencer`, auto-tare) | One tick of the runner is one action on the latches and the packet. The server runs requests and zeroes sensors. |
| `RunnerLease` | `main.py`, `servo_command_client.py`, `robot_state_client.py`, `safety.py`, against the arbitration of `command_server.cpp` | A tick up to its blocking readback is one action; packets are a lossy sequence; the state lags. |
| `Recording` | `app.py` and `recording_control.py` of the GUI, `record_control.py`, `recording.py`, `main.py` | Button, store, supervisor, in-memory episode and session folder. A tick of the runner's loop drains the commands that wait (`Drain`), handles them one by one (`Dispatch`) and records a frame and reports (`FinishTick`). Of an image only its row and shape are kept. |
| `Gripper` | `gripper_server.py`, `gripper.py` | One arm; openings and times are small integers; sensors report anything. |
| `FrameRing` | `shared_memory_ring.cpp`, `camera_bundle_client.py` | Each shared load and store is a step. An image maps each word to the frame it was copied from, so a torn image has words that disagree. Every restart makes a new segment. |
| `FrameSynchronizer` | `frame_synchronizer.cpp` | One group, as operators on its state; both pairing policies (`mode`). |
| `CameraPipeline` | `camera_manager.cpp`, `bounded_queue.hpp`, over `FrameSynchronizer` | Device callbacks, bounded queue, metadata thread and one supervisor per camera, with time in frame periods. |
| `MC...` | | Constants, symmetry and bounds for TLC; no definition is replaced. |
| `...Proofs` | | Theorems and lemmas. `CommandProofs` is about `CommandBuffer`, `CommandServer` and `MotionLifecycle`; `SessionProofs` about `Freedrive` and `Recording`; `CameraPipelineProofs` about `CameraPipeline` and `FrameSynchronizer`; `FrameRingLeaseProofs` about `FrameRing` and `RunnerLease`. The others are about the module of their name. Where two modules share a proof module, one of them carries prefixed names (`LifecycleSpec`, `RingSpec`, `RecordingSpec`); so does `Gripper` (`GripperSpec`). |

Compositions: the command path (`CommandServer` extends `CommandBuffer`), the
policy and the loop's recovery (`PreviewRecovery` extends `ChunkStream`), the
camera path (`CameraPipeline` extends `FrameSynchronizer`). Refinement:
`MotionLifecycle` implements `ServoLatch`; the command path implements the
buffer's own specification (`ServerUsesBuffer`).

Environment actions marked external are the robot controller, the operator, the
camera devices, the sensors and the numeric inputs. They are modelled from how
the code uses them. Definitions whose comment calls them a faulty variant or a
mutant are not part of the models; they show that a property would notice a bug
of that form.

## Runs

Passing runs establish their properties on the instance given; the violation
run exhibits a disagreement between the code and a sentence of the repository.

| Run | Properties | Bounds and why they are enough |
|---|---|---|
| `command_server` | accepted sequence numbers grow per source; a live lease is changed only by its holder (packets with an EmergencyStop are exempt in the code and in the property); leased targets need the lease; lifecycle commands stay in order, are delivered once, come before targets and are lost only when pushed out or expired; no target outlives a lifecycle command | 2 symmetric clients, queue of 2 (16 in the code) with 3 accepted packets, so the queue overflows; sequence numbers to 2, token 0 or 1, time to 3: grant, expiry, takeover, replay and expiry in every slot occur |
| `motion_lifecycle` | refinement of `ServoLatch`; emergency latches are silent; a latched loop is never armed | every mode on both arms, mixed packets, five configurations; brake deadline and box debounce of 2 ticks, so each can expire and be re-entered |
| `freedrive` | no `servo_j` in an active session; a confirmed exit holds the arm where the hand left it; teaching the loop has heard of is undone; every session settles | two hand movements, queue of 2, all three link faults and a full queue |
| `freedrive_silent` (violation) | `teach_off` is always tried, also when an acknowledgement is lost | the same model |
| `preview_execution` | a spliced plan continues the path being sent, in its frame; a stop ends after one bounded brake | splice lead 3 and horizon 4 in 8 ticks: a brake and its successor plan fit between the request and the splice of another; 2 slots per mailbox, both send orders, with and without recovery, one fold and two epochs |
| `chunk_stream` | no overtaken plan is played; `_stream_pending` is backed by a request; rows belong to their step; the previous plan of RTC is the one played; loop and policy resume from the same plan; rows are of the present epoch | chunks of 3 rows with 2 executed, delay 1, 2 kept plans, 2 invalidating events, 1 recovery attempt, three schedulers |
| `arm_init` | an arm is released only when its own init and zero are done; a failed latch holds; the runner cancels no init it sees and does not own | presses of one and of both arms, one arm leaving the region, 3 events |
| `runner_lease` | the lease is returned on exit; a stale token is dropped; motion gets through again and again | 5 events of the surroundings, one packet under way when a tick sends |
| `recording` | images stay contiguous; no file is overwritten; losses are reported; a recording can be ended | 2 rows, 2 episodes, 2 waiting datagrams (a drain takes up to 32 in the code), 3 faults, so that an episode after a fault, a kill and a restart exists |
| `gripper` | a grip needs sustained current; contact-close opens only on command; the drive reaches the motor | openings 0 to 4 with the stop at 3, sustain of 3 with steps of 1 or 2, so the sum can overshoot; 3 commands or failed writes |
| `frame_ring` | an accepted image is whole and not older than announced | 2 slots, 2 words, 4 frames, so every slot is overwritten under a reader; one restart; 2 attempts; one reader, since readers share nothing they write |
| `camera_pipeline` | no bundle mixes frames across a reconnect; master frames are emitted once and in order; the group resumes | 2 cameras, time-stamp pairing with and without incomplete bundles and frame-number pairing, buffers of 2, queue of 1, one retry, 5 frame periods: stall, timeout, stop, wait, restart and the next bundles |

Deadlock is checked except in `camera_pipeline` and `preview_execution`, which
end at their time horizon, in `chunk_stream` and `arm_init`, which end when the
bounded events are used up, and in `runner_lease`, where a runner that has
exited takes no further step.

### Fairness

- `freedrive`: loop and worker are periodic threads that nothing blocks for
  ever, hence weak fairness of `LoopStep` and `WorkerStep`. Strong fairness of
  `StageMoves` stands for the stage deadlines: the loop compares a steady-clock
  deadline on every tick, so a stage that is looked at again and again is in the
  end looked at after it.
- `runner_lease`: weak fairness of the runner's tick and its timeouts, of
  delivery and publication, and of the expiry of a lease the GUI has left.
- `recording`: weak fairness of the drain, of the handling of a command and of
  the restart, since the loop ticks as long as the runner lives; strong fairness
  of a tick that reports, because the status is due periodically, of the arrival
  of a status, and of the operator's press while the GUI shows a recording.
- `gripper`: weak fairness of the server's period.

The other runs check safety only. `Resumes` and `StopIsBounded` are bounded
forms of liveness and need no fairness.

### Modelling assumptions

- `FrameRing`: loads and stores take effect in program order, as on x86 hosts.
  On a weaker memory model neither the run nor the proof says anything.
- `CameraPipeline`: the metadata thread takes a frame before a restart can
  finish (`MaxLag < RetryDelay`). The configurations wait 1000 ms before a
  retry. Nothing in the code flushes the queue at a reset: with a lag of two
  periods `NoPreReconnectFrame` fails, because a frame of the old pipeline is
  taken after the reset.
- `Freedrive`: one arm with controller signals and a worker that owns the send
  cadence. `MotionLifecycle` treats freedrive as one flag.
- `MotionLifecycle`: the two boxes share one debounce counter.
- `PreviewExecution`: one `tryTake` per step, because several takes in one tick
  collapse to the newest; solving and publishing are one step; a restart after a
  recovery happens between ticks. Contact-only brakes and untagged folds are
  left out: `contactGuardStopped` has no caller and the loop passes tagged folds
  only (`loop:7853`, `loop:7920`).
- `PreviewRecovery`: one policy session; the brake before planning and a new
  session taking over (`loop:5100`) are left out.
- `ArmInit`: the tare timeout only changes a text; a timeout of zero is left out.

## Proofs

TLAPS proves the following for every value of the constants, from the named
assumptions of the modules (sizes and timeouts are naturals, sets of inputs are
subsets of the types the code reads). TLC finds each of the inductive
invariants to hold on the instance of its run as well.

`CommandProofs`, about the buffer: `TypeCorrect`, `NoLifecycleCommandLost`, `LifecycleFifo`,
`TargetsAreFlushed`, `LifecycleFirst`. `LifecycleNotLost` is not inductive alone.
`IInv` adds that ids grow with arrival, that only lifecycle commands enter the
queue, and that every taken id is an old one. `PushFacts` states what a push
does to a full and to a non-full queue and carries most of the argument.

`CommandProofs`, about the server: `ReplaysAreDropped`, `LeaseIsHolders`,
`LeaseBeforeMotion`. The invariant says that every accepted packet is at or
below the last number of its source, so a later acceptance is above it.
`ServerUsesBuffer` shows that the command path implements the buffer's own
specification, which carries the buffer's theorems over to it.

`CommandProofs`, about the motion lifecycle: `NeverArmedWhileLatched`, `EmergencyStopIsSilent`
(through `EmergencyInv`) and `LoopImplementsLatch`, the step simulation of
`ServoLatch`. `BrakeInv` bounds targets sent plus brake ticks left; one more
target than the brake has ticks is possible, because a latch found at the end of
a tick lets the target staged before it through at the top of the next.

`FrameRingLeaseProofs`, about the ring, for any number of readers, slots, words,
attempts and restarts: `RingTypeCorrect`, `SeqlockCorrect`, `OrderCorrect`. The argument is
layered. `TypeInv` adds to `TypeOK` where each thread may be. `SeqInv` adds that
a slot being written is marked, that a sealed slot is whole, and that while the
sequence a reader first read is still in the slot, the words it has copied are
those of the slot (`Watching`). `OrderInv` adds that frames in a slot are never
older than any metadata announced for it.

`FrameRingLeaseProofs`, about the runner's lease: `LeaseIsGivenBack`, for any
number of losses, expiries, takeovers and GUI commands. `LeaseReturned` speaks
of an exited runner with nothing under way and is not inductive. `ReturnInv`
says it of every moment: a runner that neither has the lease nor waits for it
has a release under way behind each of its packets that the server answers with
the lease, and if the server shows it as owner at all. It holds unless a packet
was lost or a timeout or a misleading state made the runner lose track of its
request (`astray`), which is what the property excepts.

`ArmInitProofs`: `ReleaseIsEarned`, `FailureIsHeld`, `ForeignInitIsSpared`, for
any number of events and any loss and lag. `IInv` joins the types, what the
server has done for each request id, what a snapshot in flight may claim about
it, and what a latch knows of its own id: a Done that anybody sees has been
earned by the request of that id.

`PreviewRecoveryProofs`: `StalePlansAreDropped`, `PendingIsNeverLost`,
`RowsStayAligned`, `RowsAreOfThisEpoch`, for every horizon, scheduler and delay.
The policy's half of the invariant adds to the properties what the worker holds
(`WorkerInv`), which epochs are in use (`EpochInv`), what may be true between
the critical sections (`PcInv`) and where the next row lies (`RowInv`).

In the same module, `RtcContinuesThePlayedPlan` and
`RecoveryResumesTheAcceptedPlan`. For the first, a result that waits, or is
about to be published, is the last plan stashed for promotion, and an override
leaves nothing of its generation behind (`RtcInv`, `SuspendedInv`). The second
needs the two sides at once. `ViewInv` orders the block the policy has seen, the
snapshot and the loop's own block: each is behind the next, and within one epoch
the loop waits again only behind a newer fence. No plan is stamped behind a
fence not yet raised (`PlanStamps`), so a plan from before the fence is not fresh
to a loop that has raised a newer one. `FrameInv` says that a frame under way
which the loop would accept is the one of the plan the policy is to resume, and
`AcceptInv` that an accepted one is; a policy that follows the loop's present
epoch and fence has published no other. Every step of the policy is one of five
moves as far as the loop can tell (`PolicyMoves`), which keeps the two halves of
the proof apart.

`SessionProofs`, about direct teaching, for any range of poses, capacity of the worker's queue, and
refused, lost, late or unacknowledged calls: `HeardTeachingIsAlwaysUndone`,
`TeachingKeepsTheWireQuiet`, `ExitHoldsThePose`. None is inductive. `CallInv`
says which call of the worker's queue is waited for: the last, and none once it
is acknowledged, so a call that timed out and executes late finds nobody
waiting. `StageInv` follows from it: from the acknowledgement of `teach_on` to
the request of `teach_off` no call is outstanding and the backend's latch is
set; afterwards only `teach_off` calls are, and the latch or the suppression
flag stops the setpoints. `TeachInv` ties teaching that was heard of to a stage
that will end it. `SampleInv` says that a sample out of teaching, read in a
session seen engaged, is final; with it `SetpointInv` puts the held target and
every cached setpoint at the pose after a confirmed exit. TLC checked this
invariant on a larger instance than the run's as well.

`SessionProofs`, about recording, for any cameras, shapes, rows, episodes and
faults: `ImagesStayAligned`, `FilesAreKept`, `NoSilentLoss`. `RecordingInv` says
that the files of the folder are numbered from 0 without a gap and that the
episode in memory has the next number, so a write never meets a file, whole or
broken, that is there already (`WrittenFacts`); and that a camera without a
shape has no images (`Aligned`), so padding starts with its first frame and
every later row adds one image. `RecordingStep` shows for each action that it
keeps the invariant and the files and drops no episode in silence (`Safely`).

`PreviewExecutionProofs`: `SpliceContinuous` and `StopBounded`, for every
timing, number of mailbox slots and input. `LoopInv` says that while a stop
lasts the loop has sampled the brake on every tick, and that what it sampled has
been sent or is staged, so the brake's last sample is sent when its time has
passed. `FlightInv` says of every request, job and result under way: along one
epoch the identities of the continued plans rise, so a result that names the
present parent continues the present path. The check in `stagedCurrent` compares
identities only; this is the fact that makes it sufficient.

`CameraPipelineProofs`, for any number of cameras, buffer and
queue sizes, timeouts, retries and both pairing policies:
`BundlesOfRunningPipelines`, `MasterFrameAtMostOnce` and `GroupResumes`. `PushFacts` says what
`push_frame` may do: buffers and bundle hold only what was buffered or is
pushed, and a bundle takes the newest master frame and raises the gate to its
number. `PipeInv` adds where a frame may be. A frame in flight or queued is of
its camera's latest pipeline (`DeviceInv`, `QueueInv`): a frame queued when the
device stopped is as old as the wait for the retry, and the wait outlasts the
metadata thread's lag. The buffers of a camera out of recovery hold its latest
pipeline only (`BufferInv`). Frames of one camera travel in order (`OrderInv`),
and the newest buffered master frame is newer than the last bundle's or is that
very frame behind the gate, older than all that are still to come (`MasterInv`):
so a gate reset to 0 lets no frame through twice. `MaxLag < RetryDelay` is an
assumption of the module (see above); the proof uses it in this one place.

`GroupResumes` says that a bundle does come out, and needs `PeriodInv` on top of
`PipeInv`. A running device counts the periods, so the number and the arrival of
each frame of its present pipeline differ by the same amount (`CountInv`). Out of
recovery the gate is 0 or was set by the master's present pipeline (`GateInv`),
so it is below the number of the present period as long as the period has no
bundle. A camera whose frame of the period was taken has none left on its way,
has not timed out, and no pipeline starts in such a period (`TakenInv`). Until
the bundle is out each frame taken is the last of its buffer
(`PairInv`): a bundle of an older master frame does not consume it
(`PushKeepsNewest`), and when the last camera's frame is taken every candidate
is of this period, so `push_frame` publishes (`PushPublishes`, with
`NearestToLast` and `ExactOfLast` for the two pairing policies). TLC checked this
invariant on the run's instance and on one with a longer queue and a lagging
metadata thread.

`GripperProofs`: `GripIsRealContact`,
`NeverOpensByItself`, from `GInv`: the time accumulated over the threshold is
backed by that many samples.

Every safety invariant and action property of the passing runs has a theorem.
Only model-checked are the liveness properties (`SessionSettles`,
`StaleTokenDropped`, `MotionGetsThrough`, `RecordingEnds`, `DriveReachesMotor`):
liveness under fairness and `ENABLED` are out of the prover's reach, as are
induction over data and modules with RECURSIVE operators.

## Findings

`freedrive_silent`: `teach_on` runs in stage Quiesce. When it is obeyed but not
acknowledged, the abort sends no `teach_off` (`loop:11566`), although the comment
above it says the controller is never left silently hand-guidable.

### Behaviour noticed while modelling

These cases appeared while the code was translated or as counterexamples to
properties that were tried during development. No run asserts them.

Servo server:

- `command_buffer.cpp:147`: a lifecycle command replaces the latest slot by a
  Hold without the lease, so the published state shows no lease to its owner,
  contrary to the comment at line 213 and `test_command_source_lease.cpp:292`.
- `command_server.cpp:876`: a Hold packet needs no lease, and its gripper target
  is forwarded; `gripper_server_design.md:182` reserves it to the lease holder.
- The boxes stored by `setCommand` and the receive time stored by
  `noteExternalBoxReceived` are two critical sections: a read in between sees
  new boxes with an old stamp for one tick.
- `loop:13480`: `latchFault` returns when a fault is already latched, so an
  EmergencyStop received during a brake does not end the brake. The refinement
  of `ServoLatch` still bounds it.
- `loop:13486`: the deactivated-box and invalid-joint latches pass no fault
  context, so they get a brake although `servo_backend_contract.md:82` counts
  them as robot-state faults.
- `loop:13304`: the send policy tests the brake before freedrive, so a brake
  still running when a session is requested goes on sending.
- `loop:2818`: after a command-domain send fault the next top-of-tick dispatch
  delivers the motion target staged before the latch instead of the ramp.
- `loop:13286`: `motionAllowed` accepts ConnectedHold, so motion needs no
  ArmMotion; `fail_safe_policy.md:41` says it does.
- `loop:3097`: in read-only mode a packet with EmergencyStop on one arm and a
  motion on the other is blocked before the stop is latched.
- `loop:3362`: the deactivated-box counter is compared for equality. A reset
  that succeeds in the tick after the latch lets it pass the limit, and the box
  fault is not raised again while the box stays off.
- `loop:11576`: `abortFreedrive` resynchronises to a sample taken before its
  blocking `teach_off`; a movement in between is undone when `servo_j` resumes.
- `arm_worker.cpp:590`: cached setpoints are dropped on a rising edge of the
  suppression flag. An aborted request followed at once by another hides the
  edge, and the cached setpoint is sent after the release.
- `arm_worker.cpp:1200`: the state carried by a lifecycle result is stored as
  the latest state, also when the call failed.
- `loop:3317`: `teach_on` may be issued in the tick of the request, before the
  suppression flag is published, on an idle sample older than the last send.
- The init sequencer treats an untagged request for the left arm alone and one
  for the right arm alone differently: the first replaces a running request of
  both arms, the second narrows it.
- A stopping preview executor that also gets a recovery of its peer is reset
  when it completes, which leaves the coordinator braking until a new session or
  lifecycle reset. `applyPreviewExecution` resets, and loses the recovery seed,
  when the follower is inactive, although the comment in `step` says the seed is
  preserved.

Camera server:

- `camera_bundle_client.py:92`: a client keeps its mapping of a segment that a
  restarted server has unlinked, while `policy_runner_integration.md:14` says it
  reads the latest images.
- `frame_synchronizer.cpp:101`: in hardware mode a restarted non-master camera
  counts from 1 and does not match the master's numbers again;
  `testing_acceptance.md:92` expects the bundles to resume.

Policy runner, GUI and gripper:

- The Hold without lease that ArmMotion leaves looks to the runner like a lost
  lease: it acquires and arms again. A release with a stale token is rejected. A
  grant that arrives after the readback timed out leaves the lease with an idle
  runner until it expires.
- `main.py:992`: `armed_for_motion` survives an idle release, so a lost
  ArmMotion is not repeated. The packet sent after a readback follows a decision
  taken before it. The arming gate asks for the policy's sources, so a missing
  camera also holds back an arm init that is not yet armed.
- `arm_init_control.py:448`: an external latch is not released when the external
  init is cancelled before it is done; cancelling one arm of a combined request
  relaunches the other and leaves the cancelled arm latched.
- `robot_state_client.py:278`: the comment speaks of one malformed datagram, but
  the faster loop counts the same snapshot twice.
- `_handle_server_motion_epoch` invalidates the plan without resetting RTC.
- The GUI takes the recording status of whichever runner reported last, so Stop
  can be refused as already idle. A camera that starts late or changes shape
  shifts image rows against the other data (`hdf5_audit.py:683` reports it). A
  failed write on exit is not reported, and an episode exists only in memory
  until it is stopped.
- A stall of the gripper loop as long as `sustain_ms` lets a single sample latch
  a contact; at the latch the target may widen from the seek target to where the
  object stopped the jaw.

## Not modelled

The map covers the parts of the C++ servers and of the policy runner in which
threads or processes share state, which is a small share of the repository's
lines. The rest is left out for these reasons:

- Training, datasets, evaluation, plotting and offline tools, more than half of
  the repository, are batch programs with no protocol state.
- Kinematics, controllers, filters, force control, trajectory generation,
  collision geometry, the setpoint interpolator, the queue-sync control law,
  stereo matching and policy inference compute with reals, out of TLC's reach.
  Where a protocol depends on their result, the result is an input.
- The fault classifier is a pure function of a sample; its verdict is an input.
- Configuration, JSON and wire formats, logging, publishers, the camera
  recorder and metadata publisher and the GUI's presentation are I/O.
- The reassembly of chunk datagrams, the planner's mailbox, the command queue of
  the arm workers, the gripper bridge and the shutdown paths of the servers are
  protocols that have no module.
- Device drivers (rbpodo, RealSense and the other cameras, the serial gripper)
  are external.
