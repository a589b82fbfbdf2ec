CONSTANTS
  pa = pa
  pb = pb
  pc = pc
  file1 = file1
  file2 = file2
  Paths      = {pa, pb, pc}
  File <- MCFile
  MaxAdds    = 3
  MaxEvents  = 3
  BufferSize = 2
SPECIFICATION FairSpec
CHECK_DEADLOCK FALSE
PROPERTY
  EveryCloseEnds
