SPECIFICATION Spec
CONSTANTS
  Session = {s1, s2}
  Client = {ui}
  Worker = {control}
  QueueBound = 1
  None = none
INVARIANT TerminationIsOwn
CHECK_DEADLOCK FALSE
