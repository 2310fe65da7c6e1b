SPECIFICATION EtlSpec
CONSTANTS
    MaxRuns = 2
    MaxLoads = 1
    MaxFaults = 0
    WindowDays = 1
INVARIANTS
    ReaderSeesMart
CHECK_DEADLOCK FALSE
