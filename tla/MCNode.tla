------------------------------- MODULE MCNode -------------------------------
(* Node has no constants: the instance is the device. *)
EXTENDS Node
=============================================================================
