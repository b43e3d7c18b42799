CONSTANTS
  Thread = {t1}
  NClass = 1
  Block = {b1, b2}
  MaxPages = 2
  PgCount <- PgCountOne
  Align = {1, 2}
  AlignedTo <- AlignedToSlot0
  Slot0Blocks = {b1}
  EmptyLimit = 0
  Null = Null
SPECIFICATION Spec
PROPERTY AllocIsAligned
