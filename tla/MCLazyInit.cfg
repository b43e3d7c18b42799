CONSTANTS
  Thread = {t1, t2, t3}
  ZoneUnits = 3
  PageUnits = 2
  RegionUnits = 14
  MaxRegions = 2
  Null = Null
SPECIFICATION Spec
SYMMETRY Symmetry
INVARIANT OneInstance
INVARIANT OneOwnerPerUnit
INVARIANT NoMetaLeak
