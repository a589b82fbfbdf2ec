CONSTANTS
  Scripts <- MCScripts
  SizeMod = 128
  IntMod  = 64
SPECIFICATION FairSpec
INVARIANTS
  HttpSound
  ResponseExact
PROPERTIES
  RequestsAreRead
CHECK_DEADLOCK FALSE
