\* Three platforms and three parties; the table changes once while a message
\* is relayed two parties at a time.
CONSTANTS
    hub = hub
    nobody = nobody
    cpo = cpo
    emsp = emsp
    nsp = nsp
    HubParty = hub
    NoParty = nobody
    Platforms <- MCPlatforms
    Registrations <- MCRegistrations
    InitialTable <- MCInitialTable
    Requests <- MCRequests
    Concurrency = 2
    Verbatim = FALSE
    MaxAttempts = 2
    MaxChanges = 1
SPECIFICATION FairSpec
INVARIANTS TypeOK NoMisreadDocument FanOutBounded ToldTheTruth AskedByOneTable
PROPERTY EveryMessageTold
