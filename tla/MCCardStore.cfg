SPECIFICATION Spec
CONSTANTS
  a1 = a1
  a2 = a2
  b1 = b1
  ana = ana
  ben = ben
  Chats = {a1, a2, b1}
  Users = {ana, ben}
  UserOf <- MCUserOf
  w1 = w1
  w2 = w2
  Words = {w1, w2}
  Names = {n1, n2}
  NoRequest = NoRequest
  MaxDecks = 1
  MaxCards = 2
SYMMETRY MCSymmetry
INVARIANTS
  TypeOK
  ConstraintsKept
PROPERTIES
  OwnersOnly
  ImplementsLibrary
