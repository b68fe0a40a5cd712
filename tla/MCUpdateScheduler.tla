-------------------------- MODULE MCUpdateScheduler --------------------------
(* Small instances of UpdateScheduler: two intervals, three policies posted. *)
EXTENDS UpdateScheduler
=============================================================================
