\* One fault at a time, pages of two objects, one change under the run. The run
\* is over once every module was looked at.
CONSTANTS
    Faulty <- MCFaulty
    Offered <- MCOffered
    Lists <- MCLists
    PageLimit = 2
    ServerLimits = {1, 3}
    MaxChanges = 1
SPECIFICATION Spec
INVARIANTS FaultsAreFound
PROPERTIES BlamelessUnlessShifted
CHECK_DEADLOCK FALSE
