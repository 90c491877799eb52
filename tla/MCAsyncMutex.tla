---------------------------- MODULE MCAsyncMutex ----------------------------
(* An instance of AsyncMutex for TLC. *)
EXTENDS AsyncMutex
=============================================================================
