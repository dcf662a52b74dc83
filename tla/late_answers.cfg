SPECIFICATION Spec
CONSTANTS
    NClients = 1
    NServers = 3
    Commands = {a, b}
    Electable = {2}
    FailingFiles = {}
    MaxTerm = 1
    MaxInFlight = 2
    EagerEntries = 1
    MaxRequests = 2
    RequestKinds = {"NEW_LOG_ENTRY"}
    MaxOrders = 0
    OrderKinds = {}
    OrderTargets = {}
SYMMETRY Symmetry
INVARIANTS
    CommittedOnMajority
