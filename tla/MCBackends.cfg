CONSTANTS
  Thread = {t1, t2}
  NPages = 9
  Region = 3
  BackendMaxPage = 2
  Request = {1, 2, 3}
  MaxHeld = 2
  MmapFails = FALSE
  SelfLinks = FALSE
  Null = Null
  Caller = {t1, t2}
  Slot = {s1, s2}
  Size = {0, 1, 3, 5, 8, 15, 16}
  BASE_ORDER = 1
  MAX_ORDER = 2
  Width = 5
SPECIFICATION MCSpec
SYMMETRY Symmetry
INVARIANT BlocksTileMemory
INVARIANT MarksMatchLists
INVARIANT LinksReadAreMapped
PROPERTY ImplementsContract
INVARIANT TreeMatchesLive
INVARIANT NullOnlyWhenFull
PROPERTY HeapImplementsContract
