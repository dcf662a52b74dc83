SPECIFICATION Spec
CONSTANTS
    NClients = 1
    NServers = 3
    Commands = {a}
    Electable = {2, 3, 4}
    FailingFiles = {}
    MaxTerm = 1
    MaxInFlight = 1
    EagerEntries = 1
    MaxRequests = 0
    RequestKinds = {"NEW_LOG_ENTRY"}
    MaxOrders = 0
    OrderKinds = {}
    OrderTargets = {}
INVARIANTS
    OneLeaderPerTerm
