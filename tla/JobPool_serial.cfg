\* Calls do not overlap a threadpool_destroy, as in main.
SPECIFICATION FairSpec
CONSTANTS
    Workers = {w1, w2}
    Clients = {c1, c2}
    Destroyers = {c1}
    Capacity = 2
    Concurrent = FALSE
    MaxJobs = 4
    MaxSpurious = 1
    None = None
INVARIANTS
    NoUseAfterFree
PROPERTIES
    EveryJobRuns
    AddReturns
