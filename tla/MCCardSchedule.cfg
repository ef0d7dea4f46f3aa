SPECIFICATION ScheduleSpec
CONSTANTS
  OwnChats = {c1, c2}
  Qualities <- MCQualities
  MaxRatings = 5
  MaxDay = 2
SYMMETRY MCSymmetry
INVARIANTS
  ScheduleTypeOK
  ScheduleWellFormed
  PassLengthens
  RepetitionsSound
  DueWithinInterval
CHECK_DEADLOCK FALSE
