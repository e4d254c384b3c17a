SPECIFICATION Spec
CONSTANTS
  Names = {"a", "f"}
  Ranges <- Places
  Texts <- Given
INVARIANTS ReferencesAsWritten PriorIsTextual OwnedIsDefinition AliasesBound
