SPECIFICATION Spec
CONSTANTS
  MasterBatch = 2
  FactBatch = 3
  RowsPerLine = 4
  MaxRuns = 2
  MaxOddities = 2
  Ids <- MCIds
  Numbers <- MCNumbers
  Dates <- MCDates
  MaxTable = 3
  Limits = {1, 2}
  MaxPages = 3
  RetryMax = 2
  TTL = 5
  Leeway = 3
  MaxClock = 9
  MaxRequests = 2
  Products = {p1, p2}
  Suppliers = {s1}
  Histories <- MCHistories
  Rows <- MCRows
  Scores <- MCScores
  Masters <- MCMasters
  AsOf = 31
  Horizon = 2
  Scale = 2
  Tracked = p1
  NULL = NULL
  MaxLines = 8
  KpiScopes = {"product_location", "supplier", "global"}
  NoValue = NoValue
CHECK_DEADLOCK FALSE
INVARIANTS CommittedLoadWhole ForeignKeysHold PagesEveryRowOnce FetchSound ReadyHasBody PoolOutlivesRequests
INVARIANTS ForecastNeutral OrdersMeetDemand KpisSound
