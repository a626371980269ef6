------------------------- MODULE MCPreviewExecution -------------------------
(* Short planning times, and ticks on which at most one thing is unusual.  *)
EXTENDS PreviewExecution

CONSTANTS MaxTime, MaxFrames, MaxFolds, MaxEpoch

MCSetups == {[recovery |-> TRUE, top |-> TRUE], [recovery |-> FALSE, top |-> FALSE]}

Plain == [still |-> TRUE, contact |-> TRUE, cursor |-> "ok", brake |-> MaxBrake,
          peer |-> FALSE, sent |-> TRUE]

MCInputs ==
    {Plain, [Plain EXCEPT !.still = FALSE], [Plain EXCEPT !.contact = FALSE],
     [Plain EXCEPT !.cursor = "late"],
     [Plain EXCEPT !.brake = None], [Plain EXCEPT !.peer = TRUE],
     [Plain EXCEPT !.sent = FALSE]}

Bound ==
    clock <= MaxTime /\ src <= MaxFrames /\ x.gauge <= MaxFolds /\ x.epoch <= MaxEpoch
=============================================================================
