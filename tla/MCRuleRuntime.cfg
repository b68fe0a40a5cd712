SPECIFICATION Spec
CONSTANTS
  none = none
  NoRule = none
  Rules <- MCRules
  Readings <- MCReadings
  Choices = {"SAFE_OFF", "DISABLE_RULE"}
  QueueSize = 3
  Batch = 1
INVARIANTS TypeOK NeverStuckEvaluating ArmedOnlyForRule RestingOutputAgrees
PROPERTY ComesToRest
