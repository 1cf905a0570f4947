SPECIFICATION Spec
CONSTANTS
    Conditions <- MCConditions
    MaxEvs = 5
    MaxConds = 2
    Contested = {"alarm"}
    MaxOthers = 2
    CommandLines <- MCCommandLines
    MayFail = {7}
INVARIANTS ExitTells RefreshComplete ResetArms
PROPERTIES AlarmsEnds
CHECK_DEADLOCK FALSE
