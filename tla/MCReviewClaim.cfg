SPECIFICATION Spec
CONSTANTS
  Chats = {c1}
  Cards = {k1, k2}
  Limit = 1
  MaxFailures = 0
  MaxReviews = 1
  MaxDay = 1
INVARIANTS
  SessionCompleteMessage
