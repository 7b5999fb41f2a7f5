SPECIFICATION Spec
CONSTANTS
  Users = {alice, bob}
  Passwords = {p, q}
  Default = Default
  None = None
  Taken = {bob}
  MaxTries = 2
  Convs = {c, d}
  Peers = {x, y}
  PerConv = 2
  Cap = 1
  MaxNews = 2
  MaxFails = 1
INVARIANTS
  SelectionIsValid ProfilesAreUsable SignUpStaysInPlace ListIsStored ChatIsStored
PROPERTIES
  AttemptEnds ShownIsRead
\* a closed program, and an interface nobody types in, stop
CHECK_DEADLOCK FALSE
