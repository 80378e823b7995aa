CONSTANTS
    Names = {A, B, C}
    Cases <- Both
    Again = FALSE
SPECIFICATION Spec
INVARIANTS BlocksSound FreeMemoryUsable
PROPERTY ImplementsAllocator
CHECK_DEADLOCK FALSE
