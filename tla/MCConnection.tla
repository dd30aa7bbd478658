---------------------------- MODULE MCConnection ----------------------------
(* Connection on small instances, for TLC.                                 *)
EXTENDS Connection, TLC

(* Any thread may take any handler, so the threads are interchangeable.    *)
(* Used by the runs without liveness properties only.                      *)
ThreadSymmetry == Permutations(Threads)
=============================================================================
