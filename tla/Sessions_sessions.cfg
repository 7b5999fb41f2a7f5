SPECIFICATION Spec
CONSTANTS
  Users = {alice, bob}
  Tasks = {ui, chat}
  Nobody = Nobody
  MaxOpens = 2
  MaxMsgs = 2
  MaxStops = 2
  BatchSize = 2
INVARIANTS DirectionsDisjoint SessionKeysKept KeyReachesPeer
PROPERTY LostOnlyInRace
CHECK_DEADLOCK FALSE
