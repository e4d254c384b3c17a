SPECIFICATION Spec
CONSTANTS
  Alphabet <- BodyKinds
  MaxTokens = 8
  kMaxNestedBlockDepth = 1
INVARIANT FunctionAnchorsPreserved
