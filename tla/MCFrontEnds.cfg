SPECIFICATION MCSpec
CONSTANTS
  e = e
  y = y
  CacheThread = {t1, t2}
  Core = {p1, p2}
  SmallObject = {a, b, c, d}
  WideObject = {a}
  LargeObject = {z}
  CWND = 3
  Capacity = 2
  Nil = Nil
  Owner = {t1, t2}
  MemObject <- Objects
  ClassOf <- Classes
  PageObjects <- Pages
  MemWide <- WideObjects
  NoObject = NoObject
  Thread = {t1, t2}
  Cpu = {p1, p2}
  Item = {b, c, d}
  NUM_ARRS = 2
  DATA_LEN = 48
  None = None
SYMMETRY Symmetry
VIEW View
 
INVARIANT OnePlace
PROPERTY ImplementsStacks
CHECK_DEADLOCK FALSE
