\* One producer and one consumer, and a pipe that takes any part of a write.
CONSTANTS
  Producers     = {p1}
  Consumers     = {c1}
  ElementSize   = 1
  WriteMax      = 2
  Batch         = 2
  PipeSize      = 2
  PipeBuf       = 0
  MaxPushes     = 5
  MaxInterrupts = 1
  MaxCloses     = 2
  MaxReopens    = 0
SPECIFICATION FairSpec
CHECK_DEADLOCK FALSE
INVARIANTS
  BuffersSound
PROPERTIES
  ImplementsChannel
  PushedIsPopped
