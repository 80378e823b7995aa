CONSTANTS
    Sizes <- SmallSizes
    Capacity = 4
SPECIFICATION FairSpec
PROPERTIES ImplementsFilter ProgramEnds
CHECK_DEADLOCK FALSE
