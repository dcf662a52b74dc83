SPECIFICATION Spec
CONSTANTS
    NClients = 1
    NServers = 2
    a = a
    b = b
    Commands = {a, b}
    Electable = {2}
    FailingFiles = {2}
    MaxTerm = 1
    MaxInFlight = 1
    EagerEntries = 1
    CommandsFile <- OneCommand
    MaxOutstanding = 2
    Inputs <- Faults
    Impatient = FALSE
INVARIANTS
    TypeOK
    PrefixOfLeader
    AcksAreCounted
PROPERTIES
    ImplementsReplicatedLog
CHECK_DEADLOCK FALSE
