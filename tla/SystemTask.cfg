CONSTANTS
    PM = pm
    Others = {a, b}
    StaticIds = {"st"}
    DynIds = {"dy"}
    Maps <- SmallMaps
    Signals = {"SIGSNDELAY", "SIGKMESS"}
    Lethal = {"SIGSEGV"}
    Workloads <- OneAtATime
SPECIFICATION FairSpec
INVARIANTS NobodyWaitsForTheDead SignalsTracked MasksAgree NoPanic
PROPERTY SignalsFetched
CHECK_DEADLOCK FALSE
