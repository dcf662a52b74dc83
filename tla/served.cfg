SPECIFICATION FairSpec
CONSTANTS
    NClients = 1
    NServers = 2
    a = a
    b = b
    Commands = {a, b}
    Electable = {2}
    FailingFiles = {}
    MaxTerm = 1
    MaxInFlight = 1
    EagerEntries = 1
    CommandsFile <- OneCommand
    MaxOutstanding = 1
    Inputs <- AddCrashOrStop
    Impatient = TRUE
INVARIANTS
    ExactlyOnce
    NoAbort
    AcksAreEarned
    EveryOrderCounts
PROPERTIES
    EveryCommandServed
    StopAllEnds
CHECK_DEADLOCK FALSE
