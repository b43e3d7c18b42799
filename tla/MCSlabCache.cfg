CONSTANTS
  Thread = {t1, t2}
  NClass = 2
  Block = {b1, b2, b3}
  MaxPages = 4
  PgCount <- PgCountTwo
  Align = {1, 2}
  AlignedTo <- AlignedToSlot0
  Slot0Blocks = {b1, b2, b3}
  EmptyLimit = 0
  Null = Null
SPECIFICATION Spec
SYMMETRY Symmetry
INVARIANT TypeOK
INVARIANT RingsPartitionPages
INVARIANT PageAccounting
INVARIANT LengthIsExact
INVARIANT AssertionsHold
INVARIANT EmptyPagesBounded
INVARIANT OnePlacePerObject
INVARIANT NoLeak
INVARIANT RadixMatchesPages
PROPERTY AllocIsAligned
PROPERTY ImplementsContract
