SPECIFICATION Spec
CONSTANTS
  Chats = {c1, c2}
  Never = Never
  DayLength = 2
  west = west
  east = east
  Zones = {west, east}
  Offset <- MCOffset
  MaxClock = 9
SYMMETRY MCSymmetry
INVARIANTS
  TypeOK
  StreakEarned
  StreakIsExact
