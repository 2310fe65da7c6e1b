SPECIFICATION FairSpec
CONSTANTS
  Ticks = {t1, t2}
  Masters = {}
  Facts = {1}
  MaxLoads = 3
  MaxFaults = 2
  NoTick = NoTick
  Readers = {}
  PageSize = 1
PROPERTY LoadsEnd
