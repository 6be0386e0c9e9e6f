SPECIFICATION FairSpec
CONSTANTS
    MaxJobs = 3
    MaxBreaks = 2
    None = None
INVARIANTS
    NoPromiseForgotten
    OwnAnswers
PROPERTIES
    EveryJobSettles
CHECK_DEADLOCK FALSE
