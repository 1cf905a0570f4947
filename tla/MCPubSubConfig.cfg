SPECIFICATION ConfigSpec
CONSTANTS
    Groups = {"g1", "g2"}
    Users = {"w1", "r1", "w2"}
    GroupOf <- MCGroupOf
    MaxSecured = 2
    MaxFailures = 3
    Configs <- MCConfigs
    MaxComponents = 3
INVARIANTS OnePull KeysInPlace AppliedWhole WiredAsConfigured ChildrenFirst
PROPERTIES KeysArrive
CHECK_DEADLOCK FALSE
