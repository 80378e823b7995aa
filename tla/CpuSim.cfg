CONSTANTS
    SjfInputs <- SjfJobs
    RrInputs <- RrJobs
    MaxTime = 30
SPECIFICATION FairSpec
INVARIANTS WorkInOrder StatsRight QueueMatchesLists
PROPERTIES TakesTurns SjfEnds
CHECK_DEADLOCK FALSE
