\* The program may hang in pthread_join, and it ends: it really may stop.
SPECIFICATION FairSpec
CONSTANTS
    Workers = {w1, w2}
    Main = main
    MaxJobs = 1
    MaxSpurious = 0
    None = None
CHECK_DEADLOCK FALSE
PROPERTIES
    DestroyReturns
