SPECIFICATION FairSpec
CONSTANTS
  Inputs <- Graphs
  Sizes = {1, 3}
  MaxEdges = 4
INVARIANTS ComponentsAreMutual
PROPERTIES Terminates
