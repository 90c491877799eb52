---------------------------- MODULE MCAsyncTasks ----------------------------
(* An instance of AsyncTasks for TLC. *)
EXTENDS AsyncTasks
=============================================================================
