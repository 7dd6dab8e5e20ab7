SPECIFICATION Spec
CONSTANTS
    Files <- AllFiles
    MaxObjects = 2
    MaxDepth = 4
INVARIANTS AcceptedIsSound ReadsAreChecked HashingEnds RejectedForCause
PROPERTIES Terminates
CHECK_DEADLOCK FALSE
