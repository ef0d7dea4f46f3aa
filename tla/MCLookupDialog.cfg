SPECIFICATION Spec
CONSTANTS
  house = house
  House = House
  home = home
  w1 = w1
  w2 = w2
  tsbm = tsbm
  rbs10 = rbs10
  Chats = {c1, c2}
  Queries = {w1}
  Heads = {house, House, home}
  Norm <- MCNorm
  NoHead = NoHead
  Dictionaries = {tsbm, rbs10}
  Articles <- MCArticles
  Priority <- MCPriority
  MaxArticles = 2
  MaxDecks = 1
  MaxCards = 2
  MaxFailures = 1
  MaxDay = 1
SYMMETRY MCSymmetry
INVARIANTS
  TypeOK
  AddedIsCounted
PROPERTIES
  ResultsAsFound
  AddedAsShown
