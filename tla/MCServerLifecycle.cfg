SPECIFICATION Spec
CONSTANTS
    MaxRuns = 3
    MaxExchanges = 2
INVARIANTS ReadyMeansServing ExitStatus
PROPERTIES StopsOnSignal
CHECK_DEADLOCK FALSE
