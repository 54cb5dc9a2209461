\* Two clients add and destroy at any time.
SPECIFICATION FairSpec
CONSTANTS
    Workers = {w1, w2}
    Clients = {c1, c2}
    Destroyers = {c1, c2}
    Capacity = 2
    Concurrent = TRUE
    MaxJobs = 3
    MaxSpurious = 1
    None = None
INVARIANTS
    TypeOK
    CountMatchesList
    StartedInOrder
    NoLostWakeup
    OneDestroyer
    GracefulDestroy
PROPERTIES
    ImplementsFairService
    DestroyCompletes
