SPECIFICATION Spec
CONSTANTS
  Names = {n1, n2}
  NoName = NoName
  CardsPerPage = 2
  MaxDecks = 2
  MaxCards = 4
  MaxElsewhere = 1
SYMMETRY MCSymmetry
INVARIANTS
  TypeOK
  PagerReachesAll
PROPERTIES
  DeletesWhatItNamed
