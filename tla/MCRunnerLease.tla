---------------------------- MODULE MCRunnerLease ----------------------------
(* A bounded instance of the runner's lease handling. *)
EXTENDS RunnerLease
=============================================================================
