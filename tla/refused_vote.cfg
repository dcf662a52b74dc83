SPECIFICATION Spec
CONSTANTS
    NClients = 1
    NServers = 2
    Commands = {a}
    Electable = {2, 3}
    FailingFiles = {}
    MaxTerm = 2
    MaxInFlight = 1
    EagerEntries = 1
    MaxRequests = 1
    RequestKinds = {"NEW_LOG_ENTRY"}
    MaxOrders = 1
    OrderKinds = {"SERVER_TIMEOUT"}
    OrderTargets = {3}
PROPERTIES
    UpdatedGetsVote
CHECK_DEADLOCK FALSE
