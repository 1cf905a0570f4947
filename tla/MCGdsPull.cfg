SPECIFICATION Spec
CONSTANTS
    Chunk = 2
    FileLengths = {2}
    Clients = {c1, c2}
    FlagSets <- MCFlagSets
    PollInterval = 1
    FinishTimeouts = {2}
INVARIANTS SuccessIsComplete PollsInTime
PROPERTIES PullEnds
CHECK_DEADLOCK FALSE
