CONSTANTS
  Kinds    = {"socket", "file"}
  MaxOut   = 4
  MaxIn    = 2
  MaxReads = 2
SPECIFICATION FairSpec
CHECK_DEADLOCK FALSE
INVARIANTS
  StreamSound
PROPERTIES
  OutputInOrder
  FlushedMeansSent
  OutputDrains
