SPECIFICATION FairSpec
CONSTANTS
  Session = {s1}
  Client = {ui, pad}
  Worker = {control}
  QueueBound = 1
  None = none
PROPERTIES
  StopIsObeyed
  TerminationEndsLoop
CHECK_DEADLOCK FALSE
