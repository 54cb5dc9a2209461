\* The semaphores of main.  A fault stops the program.
SPECIFICATION Spec
CONSTANTS
    Producers = {p1, p2}
    Consumers = {c1, c2}
    Slots = 5
    Tokens = 2
CHECK_DEADLOCK FALSE
INVARIANTS
    ConsumerFindsNode
