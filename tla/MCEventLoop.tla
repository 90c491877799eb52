---------------------------- MODULE MCEventLoop ----------------------------
(* Instances of EventLoop for TLC: two user threads are interchangeable in
   the runs that check safety only. *)
EXTENDS EventLoop, TLC

Symmetry == Permutations(Users)
=============================================================================
