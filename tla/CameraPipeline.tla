--------------------------- MODULE CameraPipeline ---------------------------
(***************************************************************************)
(* The threads of CameraManager around one bundle group: the callbacks of  *)
(* the devices, the bounded metadata queue, the metadata thread and one    *)
(* supervisor per camera that restarts a silent device.  Time is counted   *)
(* in frame periods; a device numbers its frames from 1 when it is started *)
(* and may fail to deliver any of them.                                    *)
(***************************************************************************)
EXTENDS FrameSynchronizer

CONSTANTS
    QueueSize,      \* capacity of metadata_queue_
    Timeout,        \* reconnect.frame_timeout_ms
    RetryDelay,     \* reconnect.retry_interval_ms
    MaxAttempts,    \* reconnect.max_attempts; 0 is no limit
    MaxLag,         \* periods within which the metadata thread takes a frame
    MaxTime         \* bound on the periods explored

ASSUME TimesAssumption ==
    /\ QueueSize \in Nat \ {0} /\ Timeout \in Nat \ {0} /\ RetryDelay \in Nat \ {0}
    /\ {MaxAttempts, MaxLag, MaxTime} \subseteq Nat
    /\ MaxLag < RetryDelay

VARIABLES
    now,
    delivered,  \* the cameras whose frame of this period was delivered
    inflight,   \* a frame in handle_frame, stamped but not queued yet
    queue,      \* metadata_queue_
    sup,        \* the supervisors: start, watch, stop, wait or exhausted
    number,     \* the devices: number of the current frame; 0 is no device
    gen,        \* restarts of the device pipeline (for the properties only)
    alive,      \* last_frame_time_ns # 0: the pipeline has delivered a frame
    quiet,      \* periods since the last frame, the start or the wait began
    connected,  \* connected_, and reported_connected of a running pipeline
    recovery,   \* recovery_pending
    retries,    \* retries_used
    taken,      \* for the properties: the cameras whose frame of this period
                \*   was taken from the queue when all cameras were connected,
    lastTime    \*   and the arrival of the master frame of the last bundle

supervisor == <<sup, gen, connected, recovery, retries>>
frames == <<delivered, inflight, queue, taken>>
clock == <<now, number, alive, quiet>>
vars == <<mode, buffers, lastEmitted, bundle, supervisor, frames, clock, lastTime>>

NoFrame == [cam |-> Master, num |-> 0, time |-> 0, gen |-> 0]

Init ==
    /\ SyncInit
    /\ now = 1 /\ delivered = {} /\ taken = {} /\ lastTime = 0
    /\ inflight = [c \in Cams |-> NoFrame] /\ queue = <<>>
    /\ sup = [c \in Cams |-> "start"] /\ number = [c \in Cams |-> 0]
    /\ gen = [c \in Cams |-> 0] /\ alive = [c \in Cams |-> FALSE]
    /\ quiet = [c \in Cams |-> 0] /\ connected = [c \in Cams |-> FALSE]
    /\ recovery = [c \in Cams |-> FALSE] /\ retries = [c \in Cams |-> 0]
-----------------------------------------------------------------------------
(* The device calls handle_frame, which first stamps the camera as alive.  *)
Deliver(c) ==
    /\ number[c] # 0 /\ c \notin delivered /\ inflight[c] = NoFrame
    /\ delivered' = delivered \cup {c}
    /\ alive' = [alive EXCEPT ![c] = TRUE] /\ quiet' = [quiet EXCEPT ![c] = 0]
    /\ inflight' = [inflight EXCEPT ![c] =
                       [cam |-> c, num |-> number[c], time |-> now, gen |-> gen[c]]]
    /\ SyncIdle
    /\ UNCHANGED <<supervisor, queue, taken, now, number, lastTime>>

(* try_push_drop_oldest                                                    *)
Enqueue(c) ==
    /\ inflight[c] # NoFrame
    /\ queue' = Append(IF Len(queue) >= QueueSize THEN Tail(queue) ELSE queue, inflight[c])
    /\ inflight' = [inflight EXCEPT ![c] = NoFrame]
    /\ SyncIdle
    /\ UNCHANGED <<supervisor, delivered, taken, clock, lastTime>>

(* The metadata thread takes one frame and pairs it.                       *)
process_frame_metadata ==
    /\ queue # <<>>
    /\ queue' = Tail(queue)
    /\ taken' = IF Head(queue).time = now /\ \A c \in Cams : connected[c]
                THEN taken \cup {Head(queue).cam} ELSE taken
    /\ push_frame(Head(queue))
    /\ lastTime' = IF bundle' = NoBundle THEN lastTime ELSE bundle'[Master].time
    /\ UNCHANGED <<supervisor, delivered, inflight, clock>>
-----------------------------------------------------------------------------
StartDevice(c) ==
    /\ sup[c] = "start"
    /\ sup' = [sup EXCEPT ![c] = "watch"]
    /\ alive' = [alive EXCEPT ![c] = FALSE] /\ quiet' = [quiet EXCEPT ![c] = 0]
    /\ connected' = [connected EXCEPT ![c] = FALSE]
    /\ number' = [number EXCEPT ![c] = 1]
    /\ gen' = [gen EXCEPT ![c] = @ + 1]
    /\ SyncIdle
    /\ UNCHANGED <<frames, now, recovery, retries, lastTime>>

(* The supervisor stops trying, or waits before the next attempt.          *)
retryOrGiveUp(c) ==
    /\ sup' = [sup EXCEPT ![c] = IF MaxAttempts # 0 /\ retries[c] >= MaxAttempts
                                 THEN "exhausted" ELSE "wait"]
    /\ quiet' = [quiet EXCEPT ![c] = 0]

(* make_device, start or validated_device_info throws.                     *)
StartFails(c) ==
    /\ sup[c] = "start"
    /\ alive' = [alive EXCEPT ![c] = FALSE]
    /\ connected' = [connected EXCEPT ![c] = FALSE]
    /\ recovery' = [recovery EXCEPT ![c] = TRUE]
    /\ retryOrGiveUp(c)
    /\ SyncIdle
    /\ UNCHANGED <<frames, now, number, gen, retries, lastTime>>

Retry(c) ==
    /\ sup[c] = "wait" /\ quiet[c] >= RetryDelay
    /\ sup' = [sup EXCEPT ![c] = "start"]
    /\ retries' = [retries EXCEPT ![c] = @ + 1]
    /\ SyncIdle
    /\ UNCHANGED <<frames, clock, gen, connected, recovery, lastTime>>

(* One look of the supervisor at its camera: the first frame of a pipeline *)
(* that replaces a lost one resets the group; silence stops the pipeline.  *)
Watch(c) ==
    LET first == alive[c] /\ ~connected[c]
        timedOut == quiet[c] > Timeout
    IN  /\ sup[c] = "watch" /\ (first \/ timedOut)
        /\ IF first /\ recovery[c] THEN reset_camera_generation(c) ELSE SyncIdle
        /\ connected' = [connected EXCEPT ![c] = ~timedOut]
        /\ recovery' = [recovery EXCEPT ![c] = timedOut]
        /\ retries' = [retries EXCEPT ![c] = IF first THEN 0 ELSE @]
        /\ sup' = [sup EXCEPT ![c] = IF timedOut THEN "stop" ELSE "watch"]
        /\ UNCHANGED <<frames, clock, gen, lastTime>>

(* The device is stopped, which waits for a callback in progress.          *)
StopDevice(c) ==
    /\ sup[c] = "stop" /\ inflight[c] = NoFrame
    /\ number' = [number EXCEPT ![c] = 0]
    /\ retryOrGiveUp(c)
    /\ SyncIdle
    /\ UNCHANGED <<frames, now, alive, gen, connected, recovery, retries, lastTime>>
-----------------------------------------------------------------------------
waiting == ({queue[i] : i \in DOMAIN queue} \cup {inflight[c] : c \in Cams}) \ {NoFrame}

(* The next frame period begins.  Periods are counted up to one past the   *)
(* last value anything compares them with.                                 *)
Tick ==
    /\ now < MaxTime
    /\ \A f \in waiting : now - f.time < MaxLag
    /\ now' = now + 1
    /\ delivered' = {} /\ taken' = {}
    /\ number' = [c \in Cams |-> IF number[c] = 0 THEN 0 ELSE number[c] + 1]
    /\ quiet' = [c \in Cams |-> IF quiet[c] > Timeout /\ quiet[c] >= RetryDelay
                                THEN quiet[c] ELSE quiet[c] + 1]
    /\ SyncIdle
    /\ UNCHANGED <<supervisor, inflight, queue, alive, lastTime>>

Next ==
    \/ Tick \/ process_frame_metadata
    \/ \E c \in Cams :
          \/ Deliver(c) \/ Enqueue(c) \/ StartDevice(c) \/ StartFails(c)
          \/ Retry(c) \/ Watch(c) \/ StopDevice(c)

Spec == Init /\ [][Next]_vars
-----------------------------------------------------------------------------
Frame == [cam: Cams, num: 0..MaxTime, time: 0..MaxTime, gen: 0..MaxTime]

TypeOK ==
    /\ mode \in Modes /\ now \in 1..MaxTime /\ delivered \subseteq Cams /\ taken \subseteq Cams
    /\ inflight \in [Cams -> Frame] /\ queue \in Seq(Frame) /\ Len(queue) <= QueueSize
    /\ sup \in [Cams -> {"start", "watch", "stop", "wait", "exhausted"}]
    /\ \A c \in Cams : (number[c] # 0) = (sup[c] \in {"watch", "stop"})
    /\ buffers \in [Cams -> Seq(Frame)] /\ \A c \in Cams : Len(buffers[c]) <= MaxBuffered
    /\ retries \in [Cams -> 0..IF MaxAttempts = 0 THEN MaxTime ELSE MaxAttempts]
    /\ connected \in [Cams -> BOOLEAN] /\ recovery \in [Cams -> BOOLEAN]

(* "Each master frame is emitted at most once": the master frames of       *)
(* successive bundles are newer and newer, over restarts of the master's   *)
(* device and its frame numbers included.                                  *)
MasterFramesInOrder ==
    [][bundle' # NoBundle => bundle'[Master].time > lastTime]_vars

(* Once a restarted camera is declared connected, no bundle holds a frame  *)
(* of its pipeline before the restart.                                     *)
NoPreReconnectFrame ==
    \A c \in DOMAIN bundle : connected[c] => bundle[c].gen = gen[c]

(* Every bundle group resumes: when a group that has published has all its *)
(* cameras connected again, a period in which each of them has a frame     *)
(* paired publishes the bundle of its master frame, although a restarted   *)
(* camera counts its frames from 1.  In hardware mode only as long as the  *)
(* cameras give the period the same number.                                *)
Resumes ==
    [][/\ now' # now /\ taken = Cams /\ lastTime # 0
       /\ mode.hardware => \A c \in Cams : number[c] = number[Master]
       => lastTime = now]_vars
=============================================================================
