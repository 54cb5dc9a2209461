\* The program may hang in pthread_join, and it ends: it really may stop.
SPECIFICATION FairSpec
CONSTANTS
    Workers = {w1, w2, w3}
    Main = main
    MaxJobs = 4
    MaxSpurious = 1
    None = None
CHECK_DEADLOCK FALSE
INVARIANTS
    StartedInOrder
    AwakeForEachJob
    AllDoneAtReturn
PROPERTIES
    EveryJobRuns
