SPECIFICATION SyncSpec
CONSTANTS
  Peers = {p, q}
  Strangers = {t}
  Deleted = {t}
  BatchSize = 2
  MaxSent = 4
  MaxOpens = 2
  MaxOvertakes = 2
  MaxStops = 1
INVARIANTS AllAccounted 
PROPERTIES KeyMovesForward SyncEnds
CHECK_DEADLOCK FALSE
