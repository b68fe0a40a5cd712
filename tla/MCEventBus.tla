----------------------------- MODULE MCEventBus -----------------------------
(* A small instance of EventBus: a ring of three, drained two at a time, that *)
(* wraps almost twice, and one handler more than there is room for.           *)
EXTENDS EventBus
=============================================================================
