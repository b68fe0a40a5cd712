---------------------------- MODULE MCRuleRuntime ----------------------------
(* A small instance of RuleRuntime: of two readings, the lower one turns the *)
(* output on under either rule, the higher one turns it off under the first  *)
(* and keeps it as it is under the second; a third rule is disabled.         *)
EXTENDS RuleRuntime

CONSTANT none

MCRules == {[enabled |-> TRUE,  onBelow |-> 1, offAbove |-> 2],
            [enabled |-> TRUE,  onBelow |-> 2, offAbove |-> 3],
            [enabled |-> FALSE, onBelow |-> 1, offAbove |-> 2]}
MCReadings == {0, 3}
=============================================================================
