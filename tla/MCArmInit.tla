------------------------------ MODULE MCArmInit ------------------------------
(* A bounded instance of the arm-init latches and the server's sequencer. *)
EXTENDS ArmInit
=============================================================================
