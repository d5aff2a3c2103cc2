\* A merge patch of agreed fields, relayed from 2.3.0 to 2.2.1.
CONSTANTS
    hub = hub
    nobody = nobody
    cpo = cpo
    emsp = emsp
    nsp = nsp
    HubParty = hub
    NoParty = nobody
    Platforms <- MCPlatforms
    Registrations <- MCRegistrations
    InitialTable <- MCInitialTable
    Requests <- MCPatchOnly
    Concurrency = 2
    Verbatim = FALSE
    MaxAttempts = 2
    MaxChanges = 1
SPECIFICATION Spec
PROPERTY AgreedPatchCrosses
