----------------------------- MODULE RuleEngine -----------------------------
(***************************************************************************)
(* The pure part of rule evaluation: RuleEngine::evaluate's hysteresis     *)
(* (src/src/rules/rule_engine.cpp) and the fault policy the runtime turns  *)
(* to when the input is not healthy (src/src/rules/actuator_fault_policy). *)
(* Readings are integers: only their order against the thresholds counts.  *)
(***************************************************************************)
EXTENDS Integers

Policies == {"SAFE_OFF", "SAFE_ON", "KEEP_LAST_STATE", "DISABLE_RULE", "ALARM_ONLY"}

\* RuleEngine::configure takes a rule only with room between its thresholds.
WellFormed(rule) == rule.onBelow < rule.offAbove

\* What an enabled rule wants of an output that is now `current`.
Desired(rule, reading, current) ==
  \/ reading < rule.onBelow
  \/ reading <= rule.offAbove /\ current

\* The output a fault leaves behind under each policy.
Resolve(policy, current) ==
  CASE policy = "SAFE_OFF" -> FALSE
    [] policy = "SAFE_ON"  -> TRUE
    [] OTHER               -> current
=============================================================================
