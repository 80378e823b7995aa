CONSTANTS
    NR_PROCS = 5
    LAST_FEW = 1
    MaxPid = 11
    Uids = {0, 1}
    KillSignals = {9}
    Services = TRUE
    TraceForks = {TRUE, FALSE}
    WaitKinds = {"any", "pid"}
    InitExits = TRUE
    Sessions = FALSE
SPECIFICATION Spec
INVARIANTS TypeOK CountIsExact NoFault FamilyAlive NoLostExit ToldIsTransient
CHECK_DEADLOCK FALSE
