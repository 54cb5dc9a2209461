\* gRPC calls may fail, other clients register and query.
SPECIFICATION Spec
CONSTANTS
    Empty = Empty
    Deleted = Deleted
    text = text
    binary = binary
    Contents <- MCContents
    Cut <- MCCut
    CheckAfter <- MCCheckAfter
    Messages = 3
    Modulus = 8
    MaxFaults = 1
\* The client exits, or its tester thread ends: the program stops.
CHECK_DEADLOCK FALSE
INVARIANTS
    TypeOK
    NeverTestError
    EntriesLive
    AnswersKept
    AnswerFirst
    InOrder
PROPERTIES
    FailureIsFinal
    WaitsForTheRightSide
