SPECIFICATION Spec
CONSTANTS
    Chunk = 2
    FileLengths = {3, 4}
    FlagSets <- MCFlagSets
INVARIANTS AllOrNothing NotInstalled ExitTellsEffect TrustListsRead
PROPERTIES PushEnds
CHECK_DEADLOCK FALSE
