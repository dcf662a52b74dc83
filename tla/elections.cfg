SPECIFICATION Spec
CONSTANTS
    NClients = 1
    NServers = 2
    Commands = {a}
    Electable = {2, 3}
    FailingFiles = {}
    MaxTerm = 2
    MaxInFlight = 2
    EagerEntries = 1
    MaxRequests = 2
    RequestKinds = {"NEW_LOG_ENTRY"}
    MaxOrders = 1
    OrderKinds = {"PROCESS_DISPLAY", "PROCESS_STOP", "PROCESS_RECOVER", "SERVER_TIMEOUT"}
    OrderTargets = {2}
PROPERTIES
    CommittedStays
CHECK_DEADLOCK FALSE
