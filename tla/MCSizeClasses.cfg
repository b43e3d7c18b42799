CONSTANTS
  FixedHeap = FALSE
  Requests <- AllRequests
  Resizes <- Boundaries
SPECIFICATION SizeSpec
INVARIANT FreedToItsClass
INVARIANT RoundsUpToNext
INVARIANT SlotsInBlock
