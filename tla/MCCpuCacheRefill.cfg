SPECIFICATION CpuSpec
CONSTANTS
  CacheThread = {t1, t2}
  Core = {p1, p2}
  SmallObject = {a, b, c, d}
  WideObject = {a}
  LargeObject = {z}
  CWND = 3
  Capacity = 2
  Nil = Nil
INVARIANT ObjectsInOnePlace
CHECK_DEADLOCK FALSE
