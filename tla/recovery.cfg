SPECIFICATION FairSpec
CONSTANTS
    NClients = 1
    NServers = 2
    Commands = {a}
    Electable = {2}
    FailingFiles = {3}
    MaxTerm = 1
    MaxInFlight = 1
    EagerEntries = 1
    MaxRequests = 3
    RequestKinds = {"NEW_LOG_ENTRY"}
    MaxOrders = 2
    OrderKinds = {"PROCESS_CRASH", "PROCESS_RECOVER"}
    OrderTargets = {3}
INVARIANTS
    MatchIsReplicated
    CommittedOnMajority
    NoAbort
PROPERTIES
    EveryEntryApplied
