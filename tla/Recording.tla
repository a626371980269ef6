------------------------------ MODULE Recording ------------------------------
(***************************************************************************)
(* Episode recording: rb_gui's record button and status store, the         *)
(* RecordingSupervisor in policy_runner's loop, the HDF5 recorder with its *)
(* in-memory episode, and the session folder.  Commands and statuses are   *)
(* UDP datagrams.  A second runner (flow-infer) reports to the same status *)
(* port.  The rows of an episode are numbered; of an image only the row it *)
(* was stored with is kept, and of a frame only its shape.                 *)
(***************************************************************************)
EXTENDS Naturals, Sequences

CONSTANTS
    ExpectedCameras, \* expected_cameras, in order
    Shapes,      \* frame shapes a camera may deliver
    MaxRows,     \* bound on the rows of an episode
    MaxTakes,    \* bound on the episodes begun
    MaxInbox,    \* bound on the datagrams waiting for the runner
    MaxEvents,   \* bound on the faults: losses, failing writes, exits, kills
    Nothing      \* None of the Python code

(* One drain takes all that waits, up to max_packets. *)
ASSUME BoundAssumption == {MaxRows, MaxTakes, MaxEvents} \subseteq Nat /\ MaxInbox \in 1..32

Cameras == {ExpectedCameras[i] : i \in DOMAIN ExpectedCameras}

(* An episode in memory. *)
Episodes ==
    [id: Nat, take: Nat, rows: Nat, counted: Nat, spoilt: BOOLEAN,
     shape: [Cameras -> Shapes \cup {Nothing}], images: [Cameras -> Seq(Nat)]]

ASSUME NothingAssumption == Nothing \notin Shapes \cup Episodes

VARIABLES
    up,        \* the runner runs
    episode,   \* _current_episode, or Nothing
    error,     \* the supervisor's error is set
    ticking,   \* the loop is between the drain and the end of a tick
    batch,     \* the commands drained and not yet handled
    inbox,     \* commands under way to the runner
    disk,      \* files of the session folder, by index
    told,      \* _last_status
    status,    \* the status datagram under way, or Nothing
    known,     \* what the GUI's store has last received, or Nothing
    guess,     \* recording_local_status, or Nothing
    takes,     \* history: episodes begun
    events

recorderVars == <<episode, error, disk, takes>>
runnerVars == <<up, recorderVars, told, ticking, batch>>
guiVars == <<known, guess>>
recordingVars == <<runnerVars, guiVars, inbox, status, events>>

recording(s) == s.episode # Nothing

State == [episode |-> episode, error |-> error, disk |-> disk, takes |-> takes]

RecordingInit ==
    /\ up = TRUE /\ episode = Nothing /\ error = FALSE
    /\ ticking = FALSE /\ batch = <<>> /\ inbox = <<>>
    /\ disk = <<>> /\ told = Nothing /\ status = Nothing
    /\ known = Nothing /\ guess = Nothing
    /\ takes = 0 /\ events = 0
-----------------------------------------------------------------------------
(* The recorder. *)

(* Mutant: the index counts the episodes of this process. *)
nextEpisodeIdOfProcess(s) == 0

(* _next_episode_id: one more than the largest index in the folder. *)
nextEpisodeId(s) ==
    IF DOMAIN s.disk = {} THEN 0
    ELSE (CHOOSE m \in DOMAIN s.disk : \A i \in DOMAIN s.disk : i <= m) + 1

(* RecordingSupervisor.start with start_episode *)
start(s, ok) ==
    IF recording(s) THEN s
    ELSE IF ~ok THEN [s EXCEPT !.error = TRUE]
    ELSE [s EXCEPT !.error = FALSE, !.takes = @ + 1,
                   !.episode = [id |-> nextEpisodeId(s), take |-> s.takes + 1, rows |-> 0,
                                counted |-> 0, spoilt |-> FALSE,
                                shape |-> [c \in Cameras |-> Nothing],
                                images |-> [c \in Cameras |-> <<>>]]]

(* end_episode: the file is created, truncating what is there, and filled. *)
written(s, whole) ==
    [i \in DOMAIN s.disk \cup {s.episode.id} |->
        IF i = s.episode.id THEN [take |-> s.episode.take, whole |-> whole] ELSE s.disk[i]]

(* Mutant: the recorder is dropped before its episode is written. *)
stopDrops(s, ok) == [s EXCEPT !.episode = Nothing]

(* RecordingSupervisor.stop: the recorder is closed and dropped either     *)
(* way; a write that fails leaves a broken file and an error.              *)
stop(s, ok) ==
    IF ~recording(s) THEN s
    ELSE [s EXCEPT !.episode = Nothing, !.error = @ \/ ~ok, !.disk = written(s, ok)]

handleCommand(s, command, ok) == IF command = "start" THEN start(s, ok) ELSE stop(s, ok)

(* _record_camera_frame: the cameras are handled in order up to the first  *)
(* one whose shape has changed, which raises.                              *)
raises(e, frames, c) == e.shape[c] # Nothing /\ frames[c] # Nothing /\ frames[c] # e.shape[c]

Reached(e, frames) ==
    {ExpectedCameras[i] : i \in {j \in DOMAIN ExpectedCameras :
                                    \A k \in 1..j : ~raises(e, frames, ExpectedCameras[k])}}

(* Mutant: a missing camera is skipped instead of padded. *)
recordCameraFrameSkips(e, frames) ==
    LET done == Reached(e, frames)
        stores(c) == c \in done /\ frames[c] # Nothing
    IN [e EXCEPT !.shape = [c \in Cameras |-> IF stores(c) THEN frames[c] ELSE e.shape[c]],
                 !.images = [c \in Cameras |-> IF stores(c) THEN Append(e.images[c], e.rows) ELSE e.images[c]],
                 !.spoilt = @ \/ done # Cameras,
                 !.counted = IF done = Cameras THEN e.rows ELSE @]

(* A camera not in the bundle is padded with zeros, once its shape is      *)
(* known.  The supervisor's frame_count is not updated after a raise.      *)
recordCameraFrame(e, frames) ==
    LET done == Reached(e, frames)
        shapeOf(c) == IF c \in done /\ frames[c] # Nothing THEN frames[c] ELSE e.shape[c]
    IN [e EXCEPT !.shape = [c \in Cameras |-> shapeOf(c)],
                 !.images = [c \in Cameras |-> IF c \in done /\ shapeOf(c) # Nothing
                                               THEN Append(e.images[c], e.rows) ELSE e.images[c]],
                 !.spoilt = @ \/ done # Cameras,
                 !.counted = IF done = Cameras THEN e.rows ELSE @]

(* record_frame; Nothing stands for a call before the recording period has *)
(* passed, which appends no row but still updates the count.               *)
recordFrame(s, frames) ==
    IF ~recording(s) THEN s
    ELSE IF frames = Nothing \/ s.episode.rows >= MaxRows
         THEN [s EXCEPT !.episode.counted = s.episode.rows]
    ELSE LET e == [s.episode EXCEPT !.rows = @ + 1]
         IN [s EXCEPT !.episode = recordCameraFrame(e, frames),
                      !.error = @ \/ Reached(e, frames) # Cameras]
-----------------------------------------------------------------------------
(* policy_runner's loop. *)

statusBlock(s) ==
    [recording |-> recording(s), error |-> s.error,
     name |-> IF recording(s) THEN s.episode.id ELSE Nothing,
     frames |-> IF recording(s) THEN s.episode.counted ELSE 0]

(* publish_status *)
publishes(block, due) == due \/ block # told

fault(happens) == events' = (IF happens THEN events + 1 ELSE events) /\ events' <= MaxEvents

becomes(s) == episode' = s.episode /\ error' = s.error /\ disk' = s.disk /\ takes' = s.takes

(* A tick drains the commands that have arrived, ... *)
Drain ==
    /\ up /\ ~ticking /\ ticking' = TRUE
    /\ batch' = inbox /\ inbox' = <<>>
    /\ UNCHANGED <<up, recorderVars, told, status, guiVars, events>>

(* ... handles them one after the other, ... *)
Dispatch(ok) ==
    /\ up /\ batch # <<>> /\ batch' = Tail(batch)
    /\ becomes(handleCommand(State, Head(batch), ok))
    /\ fault(~ok)
    /\ UNCHANGED <<up, told, ticking, inbox, status, guiVars>>

(* ... and ends with the frame and the status.                             *)
FinishTick(frames, due) ==
    /\ up /\ ticking /\ batch = <<>> /\ ticking' = FALSE
    /\ LET s == recordFrame(State, frames)
           block == statusBlock(s)
       IN /\ becomes(s)
          /\ IF publishes(block, due) THEN status' = block /\ told' = block
             ELSE UNCHANGED <<status, told>>
    /\ UNCHANGED <<up, batch, inbox, guiVars, events>>

Bundles == [Cameras -> Shapes \cup {Nothing}]

(* The finally block of run(): close() stops the episode. *)
Exit(ok) ==
    /\ up /\ up' = FALSE
    /\ becomes(stop(State, ok))
    /\ ticking' = FALSE /\ batch' = <<>> /\ inbox' = <<>> /\ fault(TRUE)
    /\ UNCHANGED <<told, status, guiVars>>

(* Killed, possibly while end_episode writes. *)
Kill(writing) ==
    /\ up /\ up' = FALSE
    /\ episode' = Nothing /\ error' = FALSE
    /\ disk' = IF writing /\ episode # Nothing THEN written(State, FALSE) ELSE disk
    /\ ticking' = FALSE /\ batch' = <<>> /\ inbox' = <<>> /\ fault(TRUE)
    /\ UNCHANGED <<told, takes, status, guiVars>>

Restart ==
    /\ ~up /\ up' = TRUE
    /\ error' = FALSE /\ told' = Nothing
    /\ UNCHANGED <<episode, disk, takes, ticking, batch, inbox, status, guiVars, events>>
-----------------------------------------------------------------------------
(* rb_gui. *)

(* Mutant: the GUI goes by the command it has last sent. *)
activeByGuess == guess = TRUE

(* _recording_status_block: the store's latest status, whichever runner    *)
(* sent it and however old it is; before the first one, its own guess.     *)
active == IF known # Nothing THEN known ELSE guess = TRUE

(* _toggle_episode_recording *)
Toggle(arrives) ==
    LET command == IF active THEN "stop" ELSE "start"
    IN /\ Len(inbox) < MaxInbox
       /\ command = "start" => takes + Len(batch) + Len(inbox) < MaxTakes
       /\ inbox' = IF arrives /\ up THEN Append(inbox, command) ELSE inbox
       /\ guess' = (command = "start")
       /\ fault(~arrives)
       /\ UNCHANGED <<runnerVars, known, status>>

StatusArrives ==
    /\ status # Nothing /\ status' = Nothing
    /\ known' = status.recording
    /\ UNCHANGED <<runnerVars, guess, inbox, events>>

StatusLost ==
    /\ status # Nothing /\ status' = Nothing
    /\ fault(TRUE)
    /\ UNCHANGED <<runnerVars, guiVars, inbox>>

(* The other runner, which is never told to record, reports to the store.  *)
OtherStatus ==
    /\ known' = FALSE /\ fault(TRUE)
    /\ UNCHANGED <<runnerVars, guess, inbox, status>>

RecordingNext ==
    \/ Drain
    \/ \E frames \in Bundles \cup {Nothing}, due \in BOOLEAN : FinishTick(frames, due)
    \/ \E ok \in BOOLEAN : Dispatch(ok) \/ Exit(ok) \/ Kill(ok) \/ Toggle(ok)
    \/ Restart \/ StatusArrives \/ StatusLost \/ OtherStatus

RecordingSpec == RecordingInit /\ [][RecordingNext]_recordingVars

(* The loop ticks, reports periodically and is restarted; a status that is *)
(* sent again and again arrives; the operator stops what the GUI shows as  *)
(* recording.                                                              *)
FairRecordingSpec ==
    /\ RecordingSpec
    /\ WF_recordingVars(Drain) /\ WF_recordingVars(\E ok \in BOOLEAN : Dispatch(ok))
    /\ SF_recordingVars(\E frames \in Bundles \cup {Nothing} : FinishTick(frames, TRUE))
    /\ WF_recordingVars(Restart) /\ SF_recordingVars(StatusArrives)
    /\ SF_recordingVars(active /\ Toggle(TRUE))
-----------------------------------------------------------------------------
(* Every variable has its type. *)
RecordingTypeOK ==
    /\ up \in BOOLEAN /\ error \in BOOLEAN /\ takes \in Nat /\ events \in 0..MaxEvents
    /\ episode # Nothing =>
          episode \in Episodes /\ {episode.rows, episode.counted} \subseteq 0..MaxRows
    /\ ticking \in BOOLEAN /\ {inbox, batch} \subseteq Seq({"start", "stop"})
    /\ DOMAIN disk \subseteq Nat /\ \A i \in DOMAIN disk : disk[i] \in [take: 1..takes, whole: BOOLEAN]
    /\ known \in {Nothing, TRUE, FALSE} /\ guess \in {Nothing, TRUE, FALSE}
    /\ ~up => episode = Nothing
    /\ ~ticking => batch = <<>>

(* The images of a camera belong to the last rows of the episode, one to   *)
(* each, from the row the camera first delivered: a camera that drops out  *)
(* does not shift its later images against the states, as long as no frame *)
(* was cut short by a change of shape.                                     *)
ImagesContiguous ==
    episode # Nothing /\ ~episode.spoilt =>
        \A c \in Cameras : LET im == episode.images[c] IN
            \A i \in 1..Len(im) : im[i] = episode.rows - Len(im) + i

(* A file, whole or broken, is never written over by a later episode, also *)
(* after a kill and a restart into the same session folder.                *)
NeverOverwrites ==
    [][\A i \in DOMAIN disk : i \in DOMAIN disk' /\ disk'[i] = disk[i]]_recordingVars

(* An episode that ends while the runner lives is on disk as a whole, or   *)
(* the supervisor reports an error.                                        *)
LossIsReported ==
    [][episode # Nothing /\ episode' = Nothing /\ up' =>
          \/ error'
          \/ /\ episode.id \in DOMAIN disk'
             /\ disk'[episode.id] = [take |-> episode.take, whole |-> TRUE]]_recordingVars

(* The operator can end a recording: whatever statuses and commands were   *)
(* lost, and whatever the other runner reported, it ends.                  *)
RecordingEnds == (episode # Nothing) ~> (episode = Nothing)
=============================================================================
