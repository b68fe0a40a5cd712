----------------------------- MODULE RuleRuntime -----------------------------
(***************************************************************************)
(* Automatic rule evaluation: RuleRuntime (src/src/rules/rule_runtime.cpp) *)
(* with what it is wired to in main.cpp.                                   *)
(*                                                                         *)
(*   loop task   each pass runs the scheduler (the one-shot evaluation     *)
(*               task, then the task that feeds the virtual input), then   *)
(*               delivers up to Batch events of the bus;                   *)
(*   HTTP task   activates a configuration (PersistedRuleLoader), and      *)
(*               injects or clears a fault of the input.                   *)
(*                                                                         *)
(* The two tasks share the runtime without a lock, so the activation and   *)
(* the evaluation are cut into the steps at which they can interleave.     *)
(* The event bus is the bounded FIFO that EventBus implements; events are  *)
(* told apart by what RuleRuntime::handleEvent makes of them.              *)
(***************************************************************************)
EXTENDS RuleEngine, Sequences

CONSTANTS
  Rules,      \* rules a configuration may hold: [enabled, onBelow, offAbove]
  NoRule,     \* a configuration without rules
  Readings,   \* values of the virtual input
  Choices,    \* fault policies the configurations in play name
  QueueSize,  \* EventBus::QUEUE_SIZE
  Batch       \* events one call of process() delivers

Task == INSTANCE OneShotTask

VARIABLES
  rule,       \* RuleEngine: rule_, or NoRule when not configured_
  policy,     \* faultPolicy_
  state,      \* the runtime FSM
  task,       \* evaluationTask_
  pending,    \* pending_
  input,      \* VirtualInputComponent: health, value_ and hasValue()
  output,     \* VirtualActuatorComponent: on or off (enabled by setup())
  queue,      \* events posted and not delivered
  loop,       \* where the loop task is
  left,       \* events this call of process() may still deliver
  current,    \* executeEvaluation's locals: the output it read ...
  desired,    \* ... and what it decided
  web,        \* where the HTTP task's activation is
  candidate,  \* the rule and policy it is activating
  missed      \* history: since the last evaluation began, an event of the input
              \* was dropped or a request refused because one was in hand

vars == <<rule, policy, state, task, pending, input, output, queue, loop, left,
          current, desired, web, candidate, missed>>

Events == {"value", "health", "other"}
Input  == [health : {"Disabled", "Ok", "Fault"}, value : Readings, has : BOOLEAN]

ASSUME RuntimeAssumption ==
  /\ Rules \subseteq {r \in [enabled : BOOLEAN, onBelow : Int, offAbove : Int] :
                         WellFormed(r)}
  /\ NoRule \notin Rules
  /\ Readings \subseteq Int /\ 0 \in Readings
  /\ Choices \subseteq Policies /\ "SAFE_OFF" \in Choices
  /\ QueueSize \in Nat \ {0} /\ Batch \in Nat \ {0}

TypeOK ==
  /\ rule \in Rules \cup {NoRule}
  /\ policy \in Choices
  /\ state \in {"DISABLED", "ARMED", "EVALUATING"}
  /\ task \in Task!Task
  /\ pending \in BOOLEAN
  /\ input \in Input
  /\ output \in BOOLEAN
  /\ queue \in Seq(Events) /\ Len(queue) <= QueueSize
  /\ loop \in {"schedule", "callback", "resolve", "decide", "apply", "done",
              "tasks", "deliver"}
  /\ left \in 0..Batch
  /\ current \in BOOLEAN /\ desired \in BOOLEAN
  /\ web \in {"idle", "policy", "refresh", "again", "request"}
  /\ candidate \in [rule : Rules \cup {NoRule}, policy : Choices]
  /\ missed \in BOOLEAN

\* After setup(): no rule yet, the input silent, the output off.
Init ==
  /\ rule = NoRule /\ policy = "SAFE_OFF" /\ state = "DISABLED"
  /\ task = Task!Disabled /\ pending = FALSE
  /\ input = [health |-> "Disabled", value |-> 0, has |-> FALSE]
  /\ output = FALSE /\ queue = <<>>
  /\ loop = "schedule" /\ left = 0 /\ current = FALSE /\ desired = FALSE
  /\ web = "idle" /\ candidate = [rule |-> NoRule, policy |-> "SAFE_OFF"]
  /\ missed = FALSE

engineVars == <<rule, policy>>
fsmVars    == <<state, task, pending>>
loopVars   == <<loop, left, current, desired>>
webVars    == <<web, candidate>>

-----------------------------------------------------------------------------
(* The event bus, seen from outside *)

\* Fault: a bus without bounds.
FittingAll(events) == events

\* What is left of a burst of posts: the bus drops the newest when it is full.
Fitting(events) ==
  LET room == QueueSize - Len(queue)
  IN  SubSeq(events, 1, IF Len(events) < room THEN Len(events) ELSE room)

Post(events) == queue' = queue \o Fitting(events)

\* An event RuleRuntime would have acted on is not among those that fit.
Drops(events) ==
  \E i \in DOMAIN events : i > Len(Fitting(events)) /\ events[i] # "other"

-----------------------------------------------------------------------------
(* RuleRuntime *)

Enabled   == rule # NoRule /\ rule.enabled
Healthy   == input.health = "Ok"       \* and then inputReady_() as well
Suspended == policy = "DISABLE_RULE" /\ ~Healthy
Eligible  == Enabled /\ ~Suspended

\* Fault: a runtime that arms and never disarms.
RefreshedArmsOnly ==
  [state |-> IF Eligible /\ state = "DISABLED" THEN "ARMED" ELSE state,
   task  |-> task, pending |-> pending]

\* refreshEligibility: how it leaves the FSM, the work task and the flag.
Refreshed ==
  IF Eligible
  THEN [state   |-> IF state = "DISABLED" THEN "ARMED" ELSE state,
        task    |-> task, pending |-> pending]
  ELSE [state |-> "DISABLED", task |-> Task!Disable(task), pending |-> FALSE]

Refresh == /\ state' = Refreshed.state /\ task' = Refreshed.task
           /\ pending' = Refreshed.pending

\* requestEvaluation, when the refresh it begins with finds the runtime ARMED:
\* coalesce with an enabled task, or enable it.
Granted == /\ Eligible /\ Refreshed.state = "ARMED"
           /\ state' = "ARMED" /\ pending' = TRUE
           /\ task' = IF task.enabled THEN task ELSE Task!Restart(task)
           /\ UNCHANGED missed

Refused == /\ ~(Eligible /\ Refreshed.state = "ARMED")
           /\ Refresh
           /\ missed' = (missed \/ Eligible)

RequestEvaluation == Granted \/ Refused

-----------------------------------------------------------------------------
(* The loop task *)

\* Fault: TASK_FOREVER where TASK_ONCE is meant.
ScheduleForever ==
  /\ loop = "schedule"
  /\ loop' = IF Task!Armed(task) THEN "callback" ELSE "tasks"
  /\ UNCHANGED <<engineVars, fsmVars, input, output, queue, left, current, desired,
                 webVars, missed>>

\* The scheduler comes to evaluationTask_: a spent task is disabled now.
Schedule ==
  /\ loop = "schedule"
  /\ \/ Task!Armed(task) /\ task' = Task!CountDown(task) /\ loop' = "callback"
     \/ Task!Spent(task) /\ task' = Task!Disable(task) /\ loop' = "tasks"
     \/ ~task.enabled /\ UNCHANGED task /\ loop' = "tasks"
  /\ UNCHANGED <<engineVars, state, pending, input, output, queue, left, current,
                 desired, webVars, missed>>

Begin == state' = IF state = "ARMED" THEN "EVALUATING" ELSE state

\* executeEvaluation up to the FSM's EVALUATING; under a fault the policy has
\* been resolved by then.
Callback ==
  /\ loop = "callback"
  /\ missed' = FALSE
  /\ \/ /\ ~Eligible /\ Refresh /\ loop' = "tasks"
        /\ UNCHANGED <<current, desired>>
     \/ /\ Eligible /\ Healthy
        /\ pending' = FALSE /\ Begin /\ loop' = "decide"
        /\ current' = output /\ UNCHANGED <<task, desired>>
     \/ /\ Eligible /\ ~Healthy
        /\ pending' = FALSE /\ Begin /\ loop' = "resolve"
        /\ desired' = Resolve(policy, output) /\ UNCHANGED <<task, current>>
  /\ UNCHANGED <<engineVars, input, output, queue, left, webVars>>

\* VirtualActuatorComponent::applyDesired.
ApplyDesired == /\ output' = desired
                /\ IF desired = output THEN UNCHANGED queue ELSE Post(<<"other">>)

\* The fault branch: the resolved output is applied, EventDone follows.
ResolveFault ==
  /\ loop = "resolve" /\ loop' = "tasks"
  /\ ApplyDesired
  /\ state' = IF state = "EVALUATING" THEN "ARMED" ELSE state
  /\ UNCHANGED <<engineVars, task, pending, input, left, current, desired, webVars,
                 missed>>

\* RuleEngine::evaluate, on the rule and the reading of this moment.
Decide ==
  /\ loop = "decide"
  /\ IF Enabled
     THEN /\ desired' = Desired(rule, input.value, current)
          /\ Post(<<"other">>) /\ loop' = "apply"
     ELSE loop' = "done" /\ UNCHANGED <<desired, queue>>
  /\ UNCHANGED <<engineVars, fsmVars, input, output, left, current, webVars, missed>>

Apply ==
  /\ loop = "apply" /\ loop' = "done"
  /\ ApplyDesired
  /\ UNCHANGED <<engineVars, fsmVars, input, left, current, desired, webVars, missed>>

\* Fault: EventDone is all there is, and only while there is a rule.
DoneWithRule ==
  /\ loop = "done" /\ loop' = "tasks"
  /\ state' = IF state = "EVALUATING" /\ Enabled THEN "ARMED" ELSE state
  /\ UNCHANGED <<engineVars, task, pending, input, output, queue, left, current,
                 desired, webVars, missed>>

\* EventDone, or EventDisarm when the rule went away meanwhile.
Done ==
  /\ loop = "done" /\ loop' = "tasks"
  /\ state' = IF state # "EVALUATING" THEN state
              ELSE IF Enabled THEN "ARMED" ELSE "DISABLED"
  /\ UNCHANGED <<engineVars, task, pending, input, output, queue, left, current,
                 desired, webVars, missed>>

\* EventBus::process: each event is popped, then handed to handleEvent.
Deliver ==
  /\ loop = "deliver" /\ left > 0 /\ queue # <<>>
  /\ queue' = Tail(queue) /\ left' = left - 1
  /\ IF Head(queue) = "other" THEN UNCHANGED <<fsmVars, missed>>
                              ELSE RequestEvaluation
  /\ UNCHANGED <<engineVars, input, output, loop, current, desired, webVars>>

EndPass ==
  /\ loop = "deliver" /\ (left = 0 \/ queue = <<>>)
  /\ loop' = "schedule" /\ left' = 0
  /\ UNCHANGED <<engineVars, fsmVars, input, output, queue, current, desired,
                 webVars, missed>>

-----------------------------------------------------------------------------
(* The virtual input (the endpoints of the lab build, and the task they arm) *)

Posts(events) == Post(events) /\ missed' = (missed \/ Drops(events))

\* transitionTo: a change of state and of health come together here.
HealthTo(h) == IF input.health = h THEN <<>> ELSE <<"other", "health">>

SetValue(v) == /\ input' = [health |-> "Ok", value |-> v, has |-> TRUE]
               /\ Posts(Append(HealthTo("Ok"), "value"))

\* A second fault, under another code, is a change of health alone.
InjectFault == /\ input' = [input EXCEPT !.health = "Fault"]
               /\ \/ Posts(HealthTo("Fault"))
                  \/ input.health = "Fault" /\ Posts(<<"health">>)

Recover == LET h == IF input.has THEN "Ok" ELSE "Disabled"
           IN  input' = [input EXCEPT !.health = h] /\ Posts(HealthTo(h))

\* The tasks behind evaluationTask_ in the chain: when ruleTestInputTask is
\* due it feeds the input, the others do not touch this component.
FeedInput ==
  /\ loop = "tasks" /\ loop' = "deliver" /\ left' = Batch
  /\ \E v \in Readings : SetValue(v)
  /\ UNCHANGED <<engineVars, fsmVars, output, current, desired, webVars>>

OtherTasks ==
  /\ loop = "tasks" /\ loop' = "deliver" /\ left' = Batch
  /\ UNCHANGED <<engineVars, fsmVars, input, output, queue, current, desired,
                 webVars, missed>>

InputRequest ==
  /\ web = "idle"
  /\ (\E v \in Readings : SetValue(v)) \/ InjectFault \/ Recover
  /\ UNCHANGED <<engineVars, fsmVars, output, loopVars, webVars>>

-----------------------------------------------------------------------------
(* PersistedRuleLoader::applyParsed, on the HTTP task *)

Configure(r, p) ==
  /\ web = "idle" /\ web' = "policy"
  /\ candidate' = [rule |-> r, policy |-> IF r = NoRule THEN "SAFE_OFF" ELSE p]
  /\ rule' = r
  /\ UNCHANGED <<policy, fsmVars, input, output, queue, loopVars, missed>>

SetFaultPolicy ==
  /\ web = "policy" /\ web' = "refresh"
  /\ policy' = candidate.policy
  /\ UNCHANGED <<rule, fsmVars, input, output, queue, loopVars, candidate, missed>>

\* setFaultPolicy() refreshes, and applyParsed() refreshes once more.
WebRefresh ==
  /\ \/ web = "refresh" /\ web' = "again"
     \/ web = "again" /\ web' = IF candidate.rule = NoRule THEN "idle" ELSE "request"
  /\ Refresh
  /\ UNCHANGED <<engineVars, input, output, queue, loopVars, candidate, missed>>

\* Fault: a new rule waits for the next event of the input.
WebRequestForgotten ==
  /\ web = "request" /\ web' = "idle"
  /\ Refresh
  /\ UNCHANGED <<engineVars, input, output, queue, loopVars, candidate, missed>>

WebRequest ==
  /\ web = "request" /\ web' = "idle"
  /\ RequestEvaluation
  /\ UNCHANGED <<engineVars, input, output, queue, loopVars, candidate>>

-----------------------------------------------------------------------------
LoopStep == \/ Schedule \/ Callback \/ ResolveFault \/ Decide \/ Apply \/ Done
            \/ OtherTasks \/ Deliver \/ EndPass          \* a pass of loop()
Activation == SetFaultPolicy \/ WebRefresh \/ WebRequest
WebStep == \/ Activation \/ InputRequest
           \/ \E r \in Rules \cup {NoRule}, p \in Choices : Configure(r, p)

Next == LoopStep \/ FeedInput \/ WebStep

Spec == Init /\ [][Next]_vars /\ WF_vars(LoopStep \/ FeedInput) /\ WF_vars(Activation)

-----------------------------------------------------------------------------
(* Properties *)

Evaluating == loop \in {"resolve", "decide", "apply", "done"}

\* The FSM is never left in EVALUATING (where every request is refused) by an
\* activation that crosses an evaluation.
NeverStuckEvaluating == state = "EVALUATING" => Evaluating

\* Between activations the runtime is armed only for an enabled rule.
ArmedOnlyForRule == web \in {"idle", "again", "request"} /\ ~Evaluating /\ ~Enabled =>
                       state = "DISABLED" /\ ~Task!Armed(task)

\* Nothing is queued, scheduled or in hand.
AtRest == /\ queue = <<>> /\ ~task.enabled /\ web = "idle"
          /\ loop \in {"schedule", "tasks", "deliver"}

\* The output is what the rule, or the fault policy, makes of the input.
OutputAgrees ==
  Eligible => output = IF Healthy THEN Desired(rule, input.value, output)
                                  ELSE Resolve(policy, output)

\* At rest the output is stale only if an input event was dropped, a request
\* met an evaluation in hand, or one was coalesced with a task already spent
\* (and then pending_ is still up).
RestingOutputAgrees == AtRest /\ ~missed /\ ~pending => OutputAgrees

\* Once nobody touches the configuration or the input, the runtime comes to
\* rest: an evaluation never causes another.
ComesToRest == <>[][LoopStep \/ Activation]_vars => <>[]AtRest
=============================================================================
