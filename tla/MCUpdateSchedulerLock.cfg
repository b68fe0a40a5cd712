SPECIFICATION Spec
CONSTANTS
  Intervals = {1, 2}
  MaxRevision = 3
INVARIANT EnabledIsArmed
