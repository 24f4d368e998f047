SPECIFICATION Spec
CONSTANTS
  Session = {s1, s2}
  Client = {ui}
  Worker = {control}
  QueueBound = 1
  None = none
INVARIANTS
  CoreBelongsToOwner
  WakeHitsLiveQueue
  InputReachesOwnCore
  ReportsAreOwn
PROPERTY
  ImplementsLease
CHECK_DEADLOCK FALSE
