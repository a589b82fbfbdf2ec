\* Two producers and two consumers share a pipe that takes writes whole.
CONSTANTS
  Producers     = {p1, p2}
  Consumers     = {c1, c2}
  ElementSize   = 2
  WriteMax      = 1
  Batch         = 2
  PipeSize      = 4
  PipeBuf       = 4
  MaxPushes     = 3
  MaxInterrupts = 0
  MaxCloses     = 2
  MaxReopens    = 1
SYMMETRY AnyThread
SPECIFICATION Spec
CHECK_DEADLOCK FALSE
INVARIANTS
  PoppedSound
PROPERTIES
  ClosedIsSilent
