SPECIFICATION RecoverySpec
CONSTANTS
    conn = conn
    wg = wg
    rg = rg
    dsw = dsw
    Components = {conn, wg, rg, dsw}
    Kind <- MCKind
    ConfigOn = {conn, wg, dsw}
    MinDelay = 1
    MaxDelay = 3
    MaxErrors = 4
INVARIANTS ErrorIsScheduled OneRecovery
PROPERTIES ErrorsAreRecovered
CHECK_DEADLOCK FALSE
