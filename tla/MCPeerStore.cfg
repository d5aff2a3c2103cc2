\* Two handlers at a time, three messages, in any order, on two ids of each
\* kind that a PATCH can rename.
CONSTANTS
    h1 = h1
    h2 = h2
    Handlers = {h1, h2}
    Locations = {"l1", "l2"}
    Evses = {"e1"}
    Connectors = {"c1", "c2"}
    PutWith = {"c1"}
    Mergeable = {"s1", "s2"}
    Removable = {"tariff"}
    Cdrs = {"cdr"}
    MaxStamp = 3
SPECIFICATION Spec
INVARIANTS TypeOK AtomicUnlessOverlapped CreatedOncePerLife
CHECK_DEADLOCK FALSE
