SPECIFICATION Spec
CONSTANTS
  Users = {alice, bob, carol}
  Keys = {k1, k2, k3}
  UsersCapacity = 2
  MessagesCapacity = 3
  MaxPushes = 5
INVARIANTS WellFormed NewestKept
PROPERTY EvictsLeastRecentlyUsed
CHECK_DEADLOCK FALSE
