SPECIFICATION Spec
CONSTANTS
  Peers = {bob, carol}
  MinPrekeys = 2
  Limit = 2
  MaxKeys = 5
  MaxOpenings = 3
  MaxStops = 1
INVARIANTS OpeningsSucceed ServerKeysStored
PROPERTY ToppedUp
CHECK_DEADLOCK FALSE
