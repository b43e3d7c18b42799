CONSTANTS
  Thread = {t1, t2}
  NPages = 9
  Region = 3
  BackendMaxPage = 2
  Request = {1, 2, 3}
  MaxHeld = 2
  MmapFails = FALSE
  SelfLinks = TRUE
  Null = Null
SPECIFICATION Spec
SYMMETRY Symmetry
INVARIANT CombinesFreeBlocks
