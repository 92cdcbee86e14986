SPECIFICATION FairTimerSpec
CONSTANTS
  Handlers = {h1, h2}
  OpenAttempts = 2
  MaxSamples = 2
  MaxObjects = 2
  MaxFaults = 1
INVARIANTS
  TimerTypeOK
  WholeRecords
PROPERTIES
  NeverBackwards
  SamplesReachDashboard
  StopEnds
CHECK_DEADLOCK FALSE
