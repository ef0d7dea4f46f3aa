SPECIFICATION Spec
CONSTANTS
  Chats = {c1, c2}
  Cards = {k1, k2}
  Limit = 2
  MaxFailures = 1
  MaxReviews = 2
  MaxDay = 1
SYMMETRY MCSymmetry
INVARIANTS
  TypeOK
  LogCoversReviews
  SessionInOrder
  EndIsHonest
  EarlyOnlyIfContested
