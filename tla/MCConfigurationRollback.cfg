SPECIFICATION Spec
CONSTANTS
  empty = empty
  docA = docA
  docB = docB
  legacy = legacy
  Docs <- MCDocs
  Accepted <- MCAccepted
  Empty = empty
  MaxRev = 4
  Unreadable = Unreadable
  Decaying = {}

INVARIANT RollbackTargetWasActive
