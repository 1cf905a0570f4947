SPECIFICATION Spec
CONSTANTS
    Archive <- MCArchive
    BaseType = "Base"
    ReadArgs <- MCReadArgs
    UpdateArgs <- MCUpdateArgs
    MaxPages = 3
    KeysPerEvent = 2
INVARIANTS PagesAreHistory NoPointLeft ExitTellsNodes UpdateIsFaithful
CHECK_DEADLOCK FALSE
