\* Elements of which the pipe takes a part: violates ResultsAreWhole.
CONSTANTS
  Producers     = {p1}
  Consumers     = {c1}
  ElementSize   = 2
  WriteMax      = 2
  Batch         = 2
  PipeSize      = 4
  PipeBuf       = 2
  MaxPushes     = 4
  MaxInterrupts = 0
  MaxCloses     = 2
  MaxReopens    = 0
SPECIFICATION Spec
CHECK_DEADLOCK FALSE
INVARIANT
  ResultsAreWhole
