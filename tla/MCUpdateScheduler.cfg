SPECIFICATION Spec
CONSTANTS
  Intervals = {1, 2}
  MaxRevision = 3
INVARIANTS TypeOK TaskFollowsObserved
PROPERTIES DisabledStops EnabledChecks
