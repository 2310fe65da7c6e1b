SPECIFICATION EtlSpec
CONSTANTS
    MaxRuns = 3
    MaxLoads = 2
    MaxFaults = 1
    WindowDays = 1
INVARIANTS
    EtlInv
    MartsFlipTogether
    VersionOfTheRows
PROPERTIES
    ImplementsVersions
CHECK_DEADLOCK FALSE
