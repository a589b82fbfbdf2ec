CONSTANTS
  Clients     = {c1, c2}
  MaxRequests = 2
SPECIFICATION FairSpec
CHECK_DEADLOCK FALSE
INVARIANTS
  ServerSound
PROPERTIES
  RequestIntact
  RequestsAreServed
