\* The semaphores of main.  A fault stops the program.
SPECIFICATION FairSpec
CONSTANTS
    Producers = {p1, p2, p3, p4}
    Consumers = {c1, c2, c3, c4}
    Slots = 5
    Tokens = 2
CHECK_DEADLOCK FALSE
INVARIANTS
    SlotsAccounted
    TokensAccounted
PROPERTIES
    KeepsMoving
