SPECIFICATION Spec
CONSTANTS
  Events = {e1, e2}
  Handlers = {log, rules, extra}
  QUEUE_SIZE = 3
  MAX_HANDLERS = 2
  maxEvents = 2
  Posts = 5
CHECK_DEADLOCK FALSE
INVARIANTS TypeOK InOrderToEveryHandler
PROPERTIES FifoSpec AllDelivered
