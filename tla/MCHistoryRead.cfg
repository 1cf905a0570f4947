SPECIFICATION Spec
CONSTANTS
    Readers = {r1, r2}
    NumSlots = 2
    NumSamples = 3
    MaxPages = 3
    Windows <- MCWindows
    PageSizes = {0, 1}
    MaxRuns = 2
INVARIANTS TypeOK PagesInOrder ExitZeroComplete
PROPERTIES ReleasedStaysReleased CommandEnds ImplementsCursor
CHECK_DEADLOCK FALSE
