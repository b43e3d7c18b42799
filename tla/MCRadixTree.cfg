CONSTANTS
  Thread = {t1, t2}
  Leaves = 2
  LeafSize = 8
  InsertSplit = 4
  RemoveSplit = 2
  Block <- Blocks
  Null = Null
SPECIFICATION Spec
SYMMETRY Symmetry
INVARIANT EntriesMatchBlocks
INVARIANT NoNodeLeak
PROPERTY ImplementsMap
