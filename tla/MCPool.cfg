CONSTANTS
  Items     = {i1, i2, i3, i4}
  AppLists  = {requests, entries}
  Chunks    = poolChunks
  ChunkSize = 2
  MaxChunks = 2
  Junk      = junk
SYMMETRY Addresses
SPECIFICATION Spec
INVARIANTS
  HeapSound
PROPERTIES
  ImplementsSlots
