SPECIFICATION Spec
CONSTANTS
    Commands = {"publishing"}
    Asked = {1}
    QueueAsked = 2
    MaxNotifications = 20
    MaxEvents = 2
    Sizes = {1, 5}
    Initials = {0}
    Revisions <- MCRevisions
    MaxChanges = 3
    MaxFaults = 0
INVARIANTS OverflowReported
CHECK_DEADLOCK FALSE
