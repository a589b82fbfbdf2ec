\* Hashes around the end of the table, for capacities of 2, 4 and 8.
CONSTANTS
  Keys        = {ka, kb, kc}
  Values      = {va, vb}
  Hashes      = {0, 1, 6, 7}
  MinCapacity = 2
  MaxReserve  = 4
SPECIFICATION FairSpec
CHECK_DEADLOCK FALSE
INVARIANTS
  MapSound
PROPERTIES
  ImplementsDictionary
  CallsEnd
