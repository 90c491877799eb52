--------------------------- MODULE MCAsyncContext ---------------------------
(* Instances of AsyncContext for TLC.  Two coroutines, or two senders, are
   interchangeable in the runs that check safety only. *)
EXTENDS AsyncContext, TLC

Symmetry == Permutations(Coroutines) \cup Permutations(Senders)
=============================================================================
