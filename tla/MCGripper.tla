------------------------------ MODULE MCGripper ------------------------------
(* A bounded instance of the gripper server. *)
EXTENDS Gripper
=============================================================================
