SPECIFICATION Spec
CONSTANTS
    NClients = 1
    NServers = 2
    a = a
    b = b
    Commands = {a, b}
    Electable = {2}
    FailingFiles = {}
    MaxTerm = 1
    MaxInFlight = 1
    EagerEntries = 1
    CommandsFile <- TwoCommands
    MaxOutstanding = 2
    Inputs <- StartOnly
    Impatient = FALSE
INVARIANTS
    AcksAreEarned
CHECK_DEADLOCK FALSE
