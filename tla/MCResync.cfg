\* A skew and a delay that just use up the overlap, three writes of two
\* objects -- one of them updated while the other stays, as a rough crawl
\* needs -- and time for a pull after the last of them.
CONSTANTS
    a = a
    b = b
    Objects = {a, b}
    Overlap = 2
    Skew = 1
    Delay = 1
    LastWrite = 0
    MaxTime = 3
    MaxChanges = 3
SPECIFICATION FairSpec
INVARIANTS TypeOK NothingSlips
PROPERTY EverythingPulled
CHECK_DEADLOCK FALSE
