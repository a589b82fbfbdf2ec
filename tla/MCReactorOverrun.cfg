CONSTANTS
  Users    = {u1, u2}
  NoUser   = NoUser
  SqSize   = 1
  CqSize   = 1
  MaxOps   = 3
  MaxShots = 2
SPECIFICATION Spec
INVARIANT RequestKeepsUser
