CONSTANTS
  Thread = {t1, t2}
  NClass = 2
  Block = {b1, b2}
  MaxPages = 3
  PgCount <- PgCountTwo
  Align = {1}
  AlignedTo <- AlignedToSlot0
  Slot0Blocks = {b1, b2}
  EmptyLimit = 0
  Null = Null
SPECIFICATION FairSpec
INVARIANT DeadHoldNothing
PROPERTY ExitCompletes
