CONSTANTS
    Files = {f1, f2}
    IMM = 2
    BLOCK_SIZE = 3
    MaxSize = 4
    Bytes = {a, b}
    Workloads <- OneAtATime
SPECIFICATION Spec
SYMMETRY Symmetric
INVARIANTS ZonesAccounted ReadIsRight
PROPERTIES  ImplementsPosix
CHECK_DEADLOCK FALSE
