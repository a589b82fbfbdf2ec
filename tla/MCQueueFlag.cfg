\* A consumer that is closed in its callback, opened again and closed once more:
\* violates FlagIsAlive.
CONSTANTS
  Producers     = {p1}
  Consumers     = {c1}
  ElementSize   = 1
  WriteMax      = 2
  Batch         = 2
  PipeSize      = 2
  PipeBuf       = 0
  MaxPushes     = 2
  MaxInterrupts = 0
  MaxCloses     = 2
  MaxReopens    = 1
SPECIFICATION Spec
CHECK_DEADLOCK FALSE
INVARIANT
  FlagIsAlive
