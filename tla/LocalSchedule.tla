---------------------------- MODULE LocalSchedule ----------------------------
(***************************************************************************)
(* LocalScheduleService (src/src/schedules/local_schedule_service.cpp): a  *)
(* persisted delayed action, armed when its configuration is activated and *)
(* run once by the cooperative scheduler when the delay is over.  The HTTP *)
(* task activates configurations, the loop task runs the action, and they  *)
(* share the FSM, the task and the action without a lock: both are cut at  *)
(* the points where they can interleave.  Time is one fact: whether the    *)
(* delay of the armed task is over.                                        *)
(***************************************************************************)
EXTENDS Naturals

CONSTANTS
  Actions,    \* schedules a configuration may hold: [enabled, desiredOn]
  Answers     \* what the target may answer: {TRUE} unless it can be disabled

Work == INSTANCE OneShotTask

\* DelayedAction{}: what action_ is reset to when there is no schedule.
NoAction == [enabled |-> FALSE, desiredOn |-> FALSE]

ASSUME ScheduleAssumption ==
  /\ Actions \subseteq [enabled : BOOLEAN, desiredOn : BOOLEAN]
  /\ Answers \subseteq BOOLEAN /\ TRUE \in Answers

VARIABLES
  state,      \* the schedule FSM
  task,       \* actionTask_
  action,     \* action_
  due,        \* the delay of the last restartDelayed() is over
  output,     \* VirtualActuatorComponent: on or off
  loop,       \* where executeAction() is on the loop task
  accepted,   \* local of executeAction(): the target's answer
  web,        \* where activateDocument() is on the HTTP task
  crossed,    \* history: this activation began while executeAction() ran
  applied     \* history: times this activation's action was applied, up to 2

vars == <<state, task, action, due, output, loop, accepted, web, crossed, applied>>

States == {"DISABLED", "WAITING", "FIRING", "COMPLETED", "FAULT"}

TypeOK ==
  /\ state \in States
  /\ task \in Work!Task
  /\ action \in Actions \cup {NoAction}
  /\ due \in BOOLEAN /\ output \in BOOLEAN
  /\ loop \in {"idle", "fire", "apply", "finish"} /\ accepted \in BOOLEAN
  /\ web \in {"idle", "disable", "rearm", "arm", "restart"}
  /\ crossed \in BOOLEAN /\ applied \in 0..2

Init ==
  /\ state = "DISABLED" /\ task = Work!Disabled /\ action = NoAction
  /\ due = FALSE /\ output = FALSE
  /\ loop = "idle" /\ accepted = FALSE /\ web = "idle"
  /\ crossed = FALSE /\ applied = 0

\* Faults: a misspelt state, a missing Fail, a missing Fire.
TransitionsMisspelt ==
  {<<"DISABLED", "Arm", "WAITING">>, <<"WAITING", "Disable", "DISABLED">>,
   <<"WAITING", "Fire", "RUNNING">>, <<"RUNNING", "Done", "COMPLETED">>}
TransitionsNoFail ==
  {<<"DISABLED", "Arm", "WAITING">>, <<"WAITING", "Disable", "DISABLED">>,
   <<"WAITING", "Fire", "FIRING">>,  <<"FIRING", "Done", "COMPLETED">>}
TransitionsNoFire ==
  {<<"DISABLED", "Arm", "WAITING">>, <<"WAITING", "Disable", "DISABLED">>}

\* configureTransitions(), as <<from, event, to>>; any other event is ignored.
Transitions ==
  {<<"DISABLED", "Arm", "WAITING">>,     <<"WAITING", "Disable", "DISABLED">>,
   <<"WAITING", "Fire", "FIRING">>,      <<"FIRING", "Done", "COMPLETED">>,
   <<"FIRING", "Fail", "FAULT">>,        <<"COMPLETED", "Arm", "WAITING">>,
   <<"COMPLETED", "Disable", "DISABLED">>, <<"FAULT", "Arm", "WAITING">>,
   <<"FAULT", "Disable", "DISABLED">>}

Successors(event) == {t[3] : t \in {u \in Transitions : u[1] = state /\ u[2] = event}}

Trigger(event) ==
  state' \in IF Successors(event) = {} THEN {state} ELSE Successors(event)

loopVars == <<output, loop, accepted, applied>>

-----------------------------------------------------------------------------
(* activateDocument(), on the HTTP task *)

\* Fault: the pending work of the schedule before is left in place.
ActivateOnTop(a) ==
  /\ web = "idle"
  /\ action' = a
  /\ web' = IF a.enabled THEN "rearm" ELSE "disable"
  /\ crossed' = (loop # "idle") /\ applied' = 0
  /\ UNCHANGED <<state, task, due, output, loop, accepted>>

\* Cancel the pending work, then install the new action.
Activate(a) ==
  /\ web = "idle"
  /\ task' = Work!Disable(task)
  /\ action' = a
  /\ web' = IF a.enabled THEN "rearm" ELSE "disable"
  /\ crossed' = (loop # "idle") /\ applied' = 0
  /\ UNCHANGED <<state, due, output, loop, accepted>>

\* Fault: the task is cancelled and the FSM is not told.
WebDisableUntold ==
  /\ web = "disable" /\ web' = "idle"
  /\ UNCHANGED <<state, task, action, due, crossed, loopVars>>

\* No schedule, or a disabled one: nothing more than the FSM.
WebDisable ==
  /\ web = "disable" /\ web' = "idle"
  /\ Trigger("Disable")
  /\ UNCHANGED <<task, action, due, crossed, loopVars>>

Rearm ==
  /\ web = "rearm" /\ web' = "arm"
  /\ IF state = "WAITING" THEN Trigger("Disable") ELSE UNCHANGED state
  /\ UNCHANGED <<task, action, due, crossed, loopVars>>

Arm ==
  /\ web = "arm" /\ web' = "restart"
  /\ Trigger("Arm")
  /\ UNCHANGED <<task, action, due, crossed, loopVars>>

RestartDelayed ==
  /\ web = "restart" /\ web' = "idle"
  /\ task' = Work!Restart(task) /\ due' = FALSE
  /\ UNCHANGED <<state, action, crossed, loopVars>>

-----------------------------------------------------------------------------
(* The loop task *)

Elapse == /\ Work!Armed(task) /\ ~due /\ due' = TRUE
          /\ UNCHANGED <<state, task, action, web, crossed, loopVars>>

\* A scheduler pass over actionTask_: it runs when due, a spent one is retired.
Pass ==
  /\ loop = "idle"
  /\ \/ Work!Armed(task) /\ due /\ task' = Work!CountDown(task) /\ loop' = "fire"
     \/ Work!Spent(task) /\ task' = Work!Disable(task) /\ UNCHANGED loop
  /\ UNCHANGED <<state, action, due, output, accepted, web, crossed, applied>>

Fire ==
  /\ loop = "fire" /\ loop' = "apply"
  /\ Trigger("Fire")
  /\ UNCHANGED <<task, action, due, output, accepted, web, crossed, applied>>

\* The target is driven with whatever action_ says by now.
Apply ==
  /\ loop = "apply" /\ loop' = "finish"
  /\ accepted' \in Answers
  /\ output' = IF accepted' THEN action.desiredOn ELSE output
  /\ applied' = IF applied < 2 THEN applied + 1 ELSE 2
  /\ UNCHANGED <<state, task, action, due, web, crossed>>

Finish ==
  /\ loop = "finish" /\ loop' = "idle"
  /\ Trigger(IF accepted THEN "Done" ELSE "Fail")
  /\ UNCHANGED <<task, action, due, output, accepted, web, crossed, applied>>

-----------------------------------------------------------------------------
LoopStep == Pass \/ Fire \/ Apply \/ Finish
WebStep  == WebDisable \/ Rearm \/ Arm \/ RestartDelayed

Next == \/ \E a \in Actions \cup {NoAction} : Activate(a)
        \/ WebStep \/ LoopStep \/ Elapse

Spec == /\ Init /\ [][Next]_vars
        /\ WF_vars(WebStep) /\ WF_vars(LoopStep) /\ WF_vars(Elapse)

-----------------------------------------------------------------------------
(* Properties *)

\* An activation that crosses an execution never leaves the FSM in FIRING,
\* the one state neither Arm nor Disable gets it out of.
NeverStuckFiring == state = "FIRING" => loop \in {"apply", "finish"}

\* Once an activation is through, a schedule that waits has work that will run
\* it, and one that was removed or disabled has none left (docs/configuration.md:
\* 296: "removing or disabling the schedule cancels pending work").
WorkFollowsSchedule ==
  web = "idle" => /\ state = "WAITING" => Work!Armed(task) \/ loop = "fire"
                  /\ ~action.enabled => ~Work!Armed(task)

\* An activation that did not cross an execution runs its action at most once and
\* not before its own delay is over, and a completed or disabled schedule has no
\* work left after it (docs/architecture.md:433).
RunsOnceUncrossed ==
  ~crossed =>
     /\ applied <= 1 /\ (applied = 1 => due)
     /\ web = "idle" /\ loop = "idle" /\ state \in {"COMPLETED", "DISABLED"}
          => ~Work!Armed(task)

\* A schedule does not wait for ever.
WaitingEnds == state = "WAITING" ~> state # "WAITING"
=============================================================================
