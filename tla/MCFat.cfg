CONSTANTS
  LastCluster = 10
  S = 4
  NumFats = 2
  Names <- NameSet
  Parts <- PartsOf
  ShortNames = {"a", "d"}
  Basis <- BasisOf
  Tilde <- TildeOf
  MaxTail = 1
  Handles = {h1, h2}
  Depth = 3
  Paths <- PathSet
  Moves <- MoveSet
  Chunks <- ChunkSet
  Positions = {0, 3}
  Cards <- CardSet
  MaxOps = 4
  MaxGen = 1
SYMMETRY Streams
SPECIFICATION Spec
INVARIANTS RecordedIntact AtRest
PROPERTY ImplementsVolume
CHECK_DEADLOCK FALSE
