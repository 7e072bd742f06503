SPECIFICATION Spec
CONSTANTS
    Interval = 2
    LineLength = 2
    MaxDepth = 2
    GcPeriod = 2
    FullGcPeriod = 3
    MaxLeaks = 1
    EnableFfi = TRUE
    None = None
INVARIANTS
    ContextWhereNeeded
CHECK_DEADLOCK FALSE
