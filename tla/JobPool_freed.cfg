\* Two clients add and destroy at any time.
SPECIFICATION Spec
CONSTANTS
    Workers = {w1, w2}
    Clients = {c1, c2}
    Destroyers = {c1, c2}
    Capacity = 1
    Concurrent = TRUE
    MaxJobs = 2
    MaxSpurious = 1
    None = None
INVARIANTS
    NoUseAfterFree
