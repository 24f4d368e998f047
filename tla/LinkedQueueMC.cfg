SPECIFICATION MCSpec
CONSTANTS
  Caller = {c1, c2}
  Reader = reader
  Item = {a, b}
  Bound = 2
  Nobody = nobody
  Thread = {t1, t2, t3, t4}
  NoThread = noThread
INVARIANTS
  NoLostWakeup
  NoStrandedSleeper
PROPERTIES
  RaiseEndsRead
  ImplementsQueue
  WaitersMakeProgress
  ImplementsMutex
