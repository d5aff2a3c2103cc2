\* Three objects, up to two more written, pages of one object: every page
\* boundary is a place where a change can shift the list. The
\* peer may answer any page with a Link to itself.
CONSTANTS
    InitialCount = 3
    MaxVersion = 5
    Limit = 1
    MaxPages = 7
    MaxAttempts = 2
    Loops = TRUE
SPECIFICATION FairSpec
INVARIANTS TypeOK CrawlInv CrawlComplete RewindRepeatsOne
PROPERTIES KeepsPromise Terminates
CHECK_DEADLOCK FALSE
