\* Sizes that do not fit the types: violates SizesHold.
CONSTANTS
  Scripts <- MCScripts
  SizeMod = 128
  IntMod  = 64
SPECIFICATION Spec
INVARIANTS
  SizesHold
CHECK_DEADLOCK FALSE
