SPECIFICATION Spec
CONSTANTS
    Readers = {r1, r2}
    NumSlots = 1
    NumSamples = 3
    MaxPages = 3
    Windows <- MCFullWindow
    PageSizes = {1}
    MaxRuns = 2
INVARIANTS SessionLocalPages
CHECK_DEADLOCK FALSE
