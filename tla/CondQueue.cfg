SPECIFICATION FairSpec
CONSTANTS
    Producers = {p1, p2, p3}
    Consumers = {c1, c2, c3}
    MaxQueued = 3
    MaxSpurious = 1
INVARIANTS
    AwakeForEachMsg
PROPERTIES
    NeverStuck
