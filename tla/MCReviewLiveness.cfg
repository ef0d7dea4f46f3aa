SPECIFICATION FairSpec
CONSTANTS
  Chats = {c1, c2}
  Cards = {k1, k2}
  Limit = 2
  MaxFailures = 1
  MaxReviews = 1
  MaxDay = 0
PROPERTIES
  SessionEnds
