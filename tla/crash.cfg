SPECIFICATION Spec
CONSTANTS
    NClients = 1
    NServers = 2
    Commands = {a, b}
    Electable = {2}
    FailingFiles = {2, 3}
    MaxTerm = 1
    MaxInFlight = 2
    EagerEntries = 1
    MaxRequests = 2
    RequestKinds = {"NEW_LOG_ENTRY"}
    MaxOrders = 2
    OrderKinds = {"PROCESS_CRASH", "PROCESS_RECOVER"}
    OrderTargets = {2, 3}
SYMMETRY Symmetry
INVARIANTS
    PrefixOfLeader
    FilesFollowLeader
    CommitWithinLog
PROPERTIES
    DeadIsSilent
CHECK_DEADLOCK FALSE
