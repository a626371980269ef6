-------------------------- MODULE FrameSynchronizer --------------------------
(***************************************************************************)
(* One bundle group of camera_server: FrameSynchronizer pairs the latest   *)
(* frame of the master camera with a frame of every other camera, by       *)
(* arrival time (software mode) or by frame number (hardware mode).        *)
(* Statistics are left out.  A frame carries, for the properties only, the *)
(* generation of the device pipeline it came from.                         *)
(***************************************************************************)
EXTENDS Integers, Sequences, FiniteSets

CONSTANTS
    Cams,           \* the cameras of the group, one required stream each
    Master,         \* the camera of master_stream
    Modes,          \* configurations to consider: sync.mode = "hardware" and
                    \*   publish_incomplete_bundles
    MaxDiff,        \* max_bundle_time_diff_ms
    MaxBuffered     \* max_buffered_frames_

ASSUME GroupAssumption == Master \in Cams /\ IsFiniteSet(Cams)
ASSUME ModesAssumption == Modes # {} /\ Modes \subseteq [hardware: BOOLEAN, incomplete: BOOLEAN]
ASSUME LimitsAssumption == MaxDiff \in Nat /\ MaxBuffered \in Nat \ {0}

VARIABLES
    mode,           \* the configuration of this run
    buffers,        \* recent frames of every camera, oldest first
    lastEmitted,    \* last_emitted_master_frame_number_
    bundle          \* the frames of the bundle the last step published, if any

NoBundle == <<>>

SyncInit ==
    /\ mode \in Modes
    /\ buffers = [c \in Cams |-> <<>>] /\ lastEmitted = 0 /\ bundle = NoBundle

(* A step that leaves the group alone publishes nothing.                   *)
SyncIdle == UNCHANGED <<mode, buffers, lastEmitted>> /\ bundle' = NoBundle
-----------------------------------------------------------------------------
diff(t, u) == IF t > u THEN t - u ELSE u - t

(* The first of the frames nearest to t, as a set of at most one frame.    *)
nearest_by_timestamp(frames, t) ==
    {frames[i] : i \in {i \in DOMAIN frames : \A j \in DOMAIN frames :
        \/ diff(frames[i].time, t) < diff(frames[j].time, t)
        \/ diff(frames[i].time, t) = diff(frames[j].time, t) /\ i <= j}}

(* The first of the frames numbered n, as a set of at most one frame.      *)
exact_frame_number(frames, n) ==
    {frames[i] : i \in {i \in DOMAIN frames :
        frames[i].num = n /\ \A j \in 1..(i - 1) : frames[j].num # n}}

candidates(buf, master, c) ==
    IF c = Master THEN {master}
    ELSE IF mode.hardware THEN exact_frame_number(buf[c], master.num)
    ELSE nearest_by_timestamp(buf[c], master.time)

trim_buffer(s) == IF Len(s) > MaxBuffered THEN Tail(s) ELSE s

(* A frame that cannot join a later bundle, once master has been emitted.  *)
obsolete(f, master, complete) ==
    IF mode.hardware
    THEN f.num < master.num \/ (complete /\ f.num = master.num)
    ELSE f.time < master.time - MaxDiff

(* What an emitted bundle leaves in a buffer.                              *)
consumed(s, master, complete) ==
    LET kept == {i \in DOMAIN s : ~obsolete(s[i], master, complete)}
        first == CHOOSE i \in kept : \A j \in kept : i <= j
    IN  IF kept = {} THEN <<>> ELSE SubSeq(s, first, Len(s))

(* Faulty variant: a master frame is taken again after it was emitted.     *)
isPendingAlways(master) == TRUE

isPending(master) == master.num > lastEmitted

push_frame(f) ==
    LET buf == [buffers EXCEPT ![f.cam] = trim_buffer(Append(@, f))]
        master == buf[Master][Len(buf[Master])]
        present == {c \in Cams : candidates(buf, master, c) # {}}
        selected == [c \in present |-> CHOOSE g \in candidates(buf, master, c) : TRUE]
        complete == /\ present = Cams
                    /\ \A c, d \in Cams : selected[c].time - selected[d].time <= MaxDiff
    IN  /\ UNCHANGED mode
        /\ IF buf[Master] # <<>> /\ isPending(master) /\ (complete \/ mode.incomplete)
           THEN /\ bundle' = selected
                /\ lastEmitted' = master.num
                /\ buffers' = [c \in Cams |-> consumed(buf[c], master, complete)]
           ELSE buffers' = buf /\ bundle' = NoBundle /\ UNCHANGED lastEmitted

(* Faulty variants: the gate on master frame numbers survives the restart; *)
(* the frames of the old generation survive it unless it is the master's.  *)
reset_keeps_gate(c) ==
    /\ buffers' = [d \in Cams |-> <<>>]
    /\ bundle' = NoBundle /\ UNCHANGED <<mode, lastEmitted>>

reset_master_only(c) ==
    /\ buffers' = [d \in Cams |-> IF c = Master THEN <<>> ELSE buffers[d]]
    /\ lastEmitted' = IF c = Master THEN 0 ELSE lastEmitted
    /\ bundle' = NoBundle /\ UNCHANGED mode

reset_camera_generation(c) ==
    /\ buffers' = [d \in Cams |-> <<>>]
    /\ lastEmitted' = IF c = Master THEN 0 ELSE lastEmitted
    /\ bundle' = NoBundle /\ UNCHANGED mode
=============================================================================
