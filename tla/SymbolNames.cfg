SPECIFICATION SpecIndexes
CONSTANTS
  Characters <- Written
  Names <- Declared
  Counts = {0, 1, 2, 13}
  Most = 3
  MostDiagnosed = 1
  Bits = 4
  MaxDigits = 2
  Spellings <- Asked
INVARIANTS LookupIsEarliest
PROPERTIES ImplementsNameSpace
CHECK_DEADLOCK FALSE
