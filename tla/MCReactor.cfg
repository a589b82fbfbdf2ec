CONSTANTS
  Users    = {u1, u2}
  NoUser   = NoUser
  SqSize   = 1
  CqSize   = 4
  MaxOps   = 5
  MaxShots = 1
SPECIFICATION FairSpec
INVARIANTS
  UsersSound
  IdsValid
  CancelHitsItsTarget
  LoopSound
PROPERTIES
  CallbacksSound
  ImplementsOperations
  CancelledEnds
  NextIsCalled
