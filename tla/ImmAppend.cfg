CONSTANTS
    Files = {f1, f2}
    IMM = 2
    BLOCK_SIZE = 3
    MaxSize = 4
    Bytes = {a, b}
    Workloads <- Appends
SPECIFICATION Spec
INVARIANT SizeKnown
CHECK_DEADLOCK FALSE
