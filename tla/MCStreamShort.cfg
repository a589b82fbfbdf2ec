\* Writes to a file or a pipe that are not taken whole: violates AlwaysInOrder.
CONSTANTS
  Kinds    = {"file", "pipe"}
  MaxOut   = 3
  MaxIn    = 1
  MaxReads = 1
SPECIFICATION Spec
CHECK_DEADLOCK FALSE
PROPERTIES
  AlwaysInOrder
