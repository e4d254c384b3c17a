SPECIFICATION Spec
CONSTANTS
  Alphabet = {"Literal", "Ident", "Cast", "Not", "Sign", "Star", "Or", "Question", "Colon", "LParen",
              "RParen", "LBrace", "RBrace", "Comma", "Eq", "Other"}
  MaxTokens = 7
  maxConstantTreeDepth = 3
INVARIANTS AcceptedFits RefusedIsTooDeep RecursionBounded Grouping
