SPECIFICATION Spec
CONSTANTS
  Actions <- MCActions
  Answers = {TRUE, FALSE}
INVARIANTS TypeOK NeverStuckFiring WorkFollowsSchedule RunsOnceUncrossed
PROPERTY WaitingEnds
