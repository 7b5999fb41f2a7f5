SPECIFICATION Spec
CONSTANTS
  Users = {alice, bob}
  Tasks = {ui}
  Nobody = Nobody
  MaxOpens = 1
  MaxMsgs = 1
  MaxStops = 0
  BatchSize = 2
INVARIANT NothingLost
CHECK_DEADLOCK FALSE
