SPECIFICATION Spec
CONSTANTS
  Ticks = {t1}
  Masters = {1, 2}
  Facts = {}
  MaxLoads = 3
  MaxFaults = 0
  NoTick = NoTick
  Readers = {r1}
  PageSize = 1
PROPERTY SnapshotStaysWhole
