SPECIFICATION ScheduledSpec
CONSTANTS
    NClients = 1
    NServers = 3
    Commands = {a, b}
    Electable = {2, 3}
    FailingFiles = {}
    MaxTerm = 2
    MaxInFlight = 3
    EagerEntries = 2
    MaxRequests = 3
    RequestKinds = {"NEW_LOG_ENTRY"}
    MaxOrders = 2
    OrderKinds = {"PROCESS_CRASH", "PROCESS_RECOVER"}
    OrderTargets = {2}
    Schedule <- ConflictSchedule
INVARIANTS
    AppliedAgree
CHECK_DEADLOCK FALSE
