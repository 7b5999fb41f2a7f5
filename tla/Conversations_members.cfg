SPECIFICATION Spec
CONSTANTS
  Users = {a, b, c, d}
  Gone = {d}
  NoConv = NoConv
  MaxMsgs = 1
  MaxAdds = 2
  MaxFails = 1
  MaxDeletes = 1
INVARIANTS MembersAgree MembersExist
PROPERTIES IgnoredOnlyInRace InvitationsReachAll
CHECK_DEADLOCK FALSE
