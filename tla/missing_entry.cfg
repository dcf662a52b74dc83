SPECIFICATION FairSpec
CONSTANTS
    NClients = 1
    NServers = 2
    Commands = {a}
    Electable = {2}
    FailingFiles = {}
    MaxTerm = 1
    MaxInFlight = 2
    EagerEntries = 2
    MaxRequests = 2
    RequestKinds = {"NEW_LOG_ENTRY"}
    MaxOrders = 0
    OrderKinds = {}
    OrderTargets = {}
PROPERTIES
    EveryEntryApplied
