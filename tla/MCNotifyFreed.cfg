\* The notify used too late, or its buffer too early: violates NothingAfterDestruct, and
\* BufferKept (both with -continue).
CONSTANTS
  pa = pa
  pb = pb
  pc = pc
  file1 = file1
  file2 = file2
  Paths      = {pa, pb, pc}
  File <- MCFile
  MaxAdds    = 3
  MaxEvents  = 3
  BufferSize = 2
SPECIFICATION Spec
CHECK_DEADLOCK FALSE
INVARIANTS
  NothingAfterDestruct
  BufferKept
