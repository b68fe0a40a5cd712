---------------------------- MODULE OneShotTask ----------------------------
(***************************************************************************)
(* A TaskScheduler task created with TASK_ONCE, as RuleRuntime and         *)
(* LocalScheduleService use it (the library is not part of this            *)
(* repository).  restart() and restartDelayed() enable it for one          *)
(* iteration.  The scheduler counts the iteration down before it runs the  *)
(* callback, and disables the task only on the NEXT pass over it: between  *)
(* the two the task is spent and still isEnabled().                        *)
(***************************************************************************)
EXTENDS Naturals

Task     == [enabled : BOOLEAN, iterations : 0..1]
Disabled == [enabled |-> FALSE, iterations |-> 0]
Once     == [enabled |-> TRUE,  iterations |-> 1]

Spent(t) == t.enabled /\ t.iterations = 0
Armed(t) == t.enabled /\ t.iterations = 1

Restart(t) == Once
Disable(t) == [t EXCEPT !.enabled = FALSE]
CountDown(t) == [t EXCEPT !.iterations = 0]
=============================================================================
