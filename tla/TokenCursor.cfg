SPECIFICATION CursorSpec
CONSTANTS
  Kinds = {"Ident", "Comma"}
  MaxSource = 5
  MaxLexed = 8
PROPERTY ImplementsStream
