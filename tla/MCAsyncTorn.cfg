\* A cancellation that meets the thread: violates PairIntact.
CONSTANTS
  Resolvers = {r1}
  MaxAsyncs = 1
SPECIFICATION Spec
CHECK_DEADLOCK FALSE
INVARIANT
  PairIntact
