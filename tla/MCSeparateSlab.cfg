SPECIFICATION MCSpec
CONSTANTS
  c1 = c1
  c2 = c2
  Class = {c1, c2}
  SizeClass <- Sizes
  BlockBytes = 16
  Block = {b1, b2, b3}
  WideBlocks = {b3}
  MaxPages <- Limits
  WordBits = 3
  Align = {1, 16, 32}
  MaxTake = 3
  MaxGive = 2
  EmptyLimit = 0
  Null = Null
  PageLimit = 4
  EmptyMax = 1
  NoPage = NoPage
VIEW View
SYMMETRY Symmetry
CHECK_DEADLOCK FALSE
INVARIANT RingsPartitionPages
INVARIANT BitsMatchLive
INVARIANT RadixMatchesPages
INVARIANT NoOverlap
PROPERTY ImplementsRings
