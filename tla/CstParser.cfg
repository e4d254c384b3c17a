SPECIFICATION FairSpec
CONSTANTS
  Alphabet <- MoreKinds
  MaxTokens = 7
  kMaxNestedBlockDepth = 2
INVARIANTS TypeOK ChildrenTile EofTakenOnce CleanNesting
PROPERTIES IterationConsumes Terminates BoundaryReachesModule
