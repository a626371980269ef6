----------------------------- MODULE MCRecording -----------------------------
(* A bounded instance of episode recording. *)
EXTENDS Recording

CONSTANTS wrist, scene

MCCameras == <<wrist, scene>>
=============================================================================
