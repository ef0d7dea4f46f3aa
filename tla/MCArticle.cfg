SPECIFICATION Spec
CONSTANTS
  Dictionaries = {"explanatory", "rbs10", "klyshka"}
  Texts = {"word", "number", "bars", "lozenge"}
  MaxPieces = 5
  MaxTags = 6
INVARIANTS
  TypeOK
  
CHECK_DEADLOCK FALSE
