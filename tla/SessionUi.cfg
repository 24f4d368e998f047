CONSTANTS
  Worker = {w1, w2}
  NoWorker = NoWorker
SPECIFICATION FairSpec
INVARIANTS BusyPhaseOwned HandleLive PatientCanStop
PROPERTY BusyPhasesEnd
CHECK_DEADLOCK FALSE
