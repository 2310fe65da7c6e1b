SPECIFICATION Spec
CONSTANTS
    Ticks = {c1}
    Triggers = {t1}
    NoSession = NoSession
    MaxFaults = 1
    MaxRuns = 2
    MaxMarts = 1
    MaxRefreshes = 1
    MaxKpiRuns = 2
    MaxCalibrations = 1
INVARIANTS
    LockExcludes
    RunsWhole
    ReadsForward
    RefreshedWhole
PROPERTIES
    EnginesEnd
CHECK_DEADLOCK FALSE
