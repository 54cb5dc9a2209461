\* The shell, ls, the echo client and server, and the object table.
CONSTANTS
    Lines <- MCLines
    Home <- MCHome
    Dirs <- MCDirs
    Name <- MCName
    MAXPATH = 3
    Directories <- MCDirectories
    Size <- MCSize
    PipeCap = 1
    MaxLines = 3
    MaxProcs = 3
    MaxOut = 2
    Letters = {"s", "r", "l"}
    Rows = 5
    Addresses = 2
    MAXSLEEP = 128
    MaxRequests = 4
    Threads = {t1, t2}
    Nobody = Nobody
    NHASH = 2
    Ids = {0, 1, 2}
    MaxFoo = 3
    MaxHolds = 2

SPECIFICATION Spec

INVARIANTS
    TypeOK
    ForegroundWaited
    WaitReturns
    OutputKept
    RowsAreFiles
    SizesBehind
    RetriesBounded
    SomethingComes
    TableComplete
    NumberCounts

PROPERTIES
    DashReturns
    ShownOnce

\* Programs end, or wait for ever.
CHECK_DEADLOCK FALSE
