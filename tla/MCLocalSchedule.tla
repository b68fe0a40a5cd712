--------------------------- MODULE MCLocalSchedule ---------------------------
(* Every schedule there is, up to its id and the length of its delay. *)
EXTENDS LocalSchedule

MCActions == [enabled : BOOLEAN, desiredOn : BOOLEAN]
=============================================================================
