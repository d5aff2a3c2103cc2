\* Every object that changed between the versions, edited twice.
CONSTANTS
    Null = Null
    Junk = Junk
    Unfit = Unfit
    Coined = Coined
    MaxEdits = 2
    Documents <- MCDocuments
    Edits <- MCEdits
SPECIFICATION Spec
INVARIANTS TypeOK CopyFollows RoundTripTold Settles JudgedAlike
\* The owner stops after MaxEdits, and an object that may not be sent stays where it is.
CHECK_DEADLOCK FALSE
