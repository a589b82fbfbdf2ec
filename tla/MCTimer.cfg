CONSTANTS
  MaxTime = 4
  Delays  = {0, 1, 2}
  MaxSets = 3
SPECIFICATION FairSpec
CHECK_DEADLOCK FALSE
INVARIANTS
  TimerSound
PROPERTIES
  CallsOnTime
  DueIsCalled
