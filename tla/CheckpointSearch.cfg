\* All series of up to five entries with ids up to six and two values.
SPECIFICATION SearchSpec
CONSTANTS
  MaxId = 6
  MaxLength = 5
  Value = {0, 1}
CHECK_DEADLOCK FALSE
INVARIANTS
  SearchCorrect
PROPERTIES
  SearchEnds
