SPECIFICATION ActivitySpec
CONSTANTS
  west = west
  east = east
  Chats = {c1}
  Never = Never
  DayLength = 2
  Zones = {west, east}
  Offset <- MCOffset
  MaxClock = 6
  WeekLength = 3
  MonthLength = 2
  MonthsPerYear = 2
  MaxPaged = 1
  MaxChanges = 1
INVARIANTS
  CountsMatchDates
  CalendarTellsStreak
PROPERTIES
  MonthAsPaged
CHECK_DEADLOCK FALSE
