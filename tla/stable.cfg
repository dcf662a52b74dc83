SPECIFICATION Spec
CONSTANTS
    NClients = 1
    NServers = 2
    Commands = {a, b}
    Electable = {2}
    FailingFiles = {2, 3}
    MaxTerm = 1
    MaxInFlight = 3
    EagerEntries = 1
    MaxRequests = 3
    RequestKinds = {"NEW_LOG_ENTRY"}
    MaxOrders = 0
    OrderKinds = {}
    OrderTargets = {}
SYMMETRY Symmetry
INVARIANTS
    TypeOK
    PrefixOfLeader
    CommitWithinLog
    AckMatchesEntry
PROPERTIES
    ImplementsReplicatedLog
    LogsOnlyGrow
