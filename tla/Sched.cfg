CONSTANTS
    Procs = {init, p1, p2}
    INIT_PROC = init
    NR_SCHED_QUEUES = 4
    USER_Q = 2
    UINT_MAX = 15
    Policies = {"A03", "A05"}
    Niceness = {0, 3, 4}
    ForkRaces = FALSE
SPECIFICATION FairSpec
INVARIANTS ViewsAgree WithinBounds
PROPERTIES QuantumRenewed PulledUp
