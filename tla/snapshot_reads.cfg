SPECIFICATION Spec
CONSTANTS
  Ticks = {t1, t2}
  Masters = {1, 2}
  Facts = {}
  MaxLoads = 3
  MaxFaults = 2
  NoTick = NoTick
  Readers = {r1}
  PageSize = 1
SYMMETRY ReadSymmetry
INVARIANTS IndInv SnapshotCommitted PagesCommitted PagesComplete
PROPERTIES LoadFinal SnapshotForward
