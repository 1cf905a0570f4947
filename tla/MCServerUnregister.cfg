SPECIFICATION Spec
CONSTANTS
    MaxRuns = 1
    MaxExchanges = 1
INVARIANTS StaysUnregistered
CHECK_DEADLOCK FALSE
