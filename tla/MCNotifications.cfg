SPECIFICATION FairSpec
CONSTANTS
  Users = {u1, u2}
  Workers = {p1, p2}
  SlotsPerDay = 2
  MaxClock = 1
  MaxChanges = 1
  MaxFailures = 1
INVARIANTS
  TypeOK
  OnlyAtChosenTime
  OncePerSlot
  EverybodyTried
  ChoiceKept
PROPERTIES
  RunsEnd
CHECK_DEADLOCK FALSE
