CONSTANTS
  Worker = {w1, w2}
  NoWorker = NoWorker
SPECIFICATION Spec
INVARIANT StreamCanBeStopped
CHECK_DEADLOCK FALSE
