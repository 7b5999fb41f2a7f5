SPECIFICATION Spec
CONSTANTS
  Author = alice
  Readers = {bob, carol}
  NoRow = NoRow
  Faulty = TRUE
  MaxTasks = 2
  MaxTexts = 2
  MaxActors = 3
  MaxTransit = 1
SYMMETRY Symmetry
INVARIANTS StatusIsTrue Converges ReadIsShown
PROPERTY DeletedStaysDeleted
CHECK_DEADLOCK FALSE
