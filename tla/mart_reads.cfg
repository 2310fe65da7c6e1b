SPECIFICATION Spec
CONSTANTS
    MaxRuns = 2
    MaxLoads = 2
    MaxFaults = 1
    WindowDays = 2
INVARIANTS
    ServedVersionsCommitted
    ReadComplete
PROPERTIES
    RunsEnd
    CacheCatchesUp
CHECK_DEADLOCK FALSE
