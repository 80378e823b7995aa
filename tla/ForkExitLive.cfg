CONSTANTS
    NR_PROCS = 6
    LAST_FEW = 0
    MaxPid = 13
    Uids = {0}
    KillSignals = {9}
    Services = FALSE
    TraceForks = {TRUE}
    WaitKinds = {"grp"}
    InitExits = FALSE
    Sessions = TRUE
SPECIFICATION SessionSpec
ACTION_CONSTRAINT Bounded
PROPERTIES OrphanGroupHungUp ExitReturns CallsReturn
CHECK_DEADLOCK FALSE
