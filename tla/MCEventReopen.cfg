\* The event opened again: violates ReopenWorks, and FlagIsAlive (both with -continue).
CONSTANTS
  MaxOpens   = 3
  MaxSignals = 2
SPECIFICATION Spec
CHECK_DEADLOCK FALSE
INVARIANTS
  ReopenWorks
  FlagIsAlive
