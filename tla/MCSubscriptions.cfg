SPECIFICATION Spec
CONSTANTS
    Commands = {"subscribe", "events", "revise", "publishing", "monitoring", "delete"}
    Asked = {2, 3}
    QueueAsked = 2
    MaxNotifications = 20
    MaxEvents = 2
    Sizes = {1, 5}
    Initials = {103}
    Revisions <- MCRevisions
    MaxChanges = 3
    MaxFaults = 1
INVARIANTS SilentWhileOff WindowVerdict ReportingIsTheWrite Collected SubscriptionDeleted
PROPERTIES CommandEnds
CHECK_DEADLOCK FALSE
