CONSTANTS
    Width = 3
    Height = 4
    MaxRuns = 2
SPECIFICATION FairSpec
INVARIANT FinalImage
PROPERTY EndsUnlessStarved
CHECK_DEADLOCK FALSE
