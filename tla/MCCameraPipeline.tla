-------------------------- MODULE MCCameraPipeline --------------------------
(* Two cameras; long enough for a stall, a restart and three more frames.  *)
EXTENDS CameraPipeline

MCModes == {[hardware |-> FALSE, incomplete |-> FALSE],
            [hardware |-> FALSE, incomplete |-> TRUE],
            [hardware |-> TRUE,  incomplete |-> FALSE]}
=============================================================================
