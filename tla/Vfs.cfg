CONSTANTS
    Procs = {p1, p2, p3}
    Names = {"a", "b"}
    LinkNames = {"b"}
    Home = {}
    Other = {}
    Inodes = {i1, i2}
    NR_FILPS = 2
    OPEN_MAX = 1
    NR_VNODES = 2
    PIPE_BUF = 2
    MaxSize = 2
    Workloads <- OneAtATime
SPECIFICATION Spec
INVARIANTS CountsExact SizesAgree NoLostWakeup  DeviceBalanced
CHECK_DEADLOCK FALSE
SYMMETRY Symmetric
