CONSTANTS
  MaxOpens   = 3
  MaxSignals = 3
SPECIFICATION FairSpec
CHECK_DEADLOCK FALSE
INVARIANTS
  EventSound
PROPERTIES
  ClosedIsSilent
  SignalArrives
