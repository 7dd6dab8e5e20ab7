SPECIFICATION Spec
CONSTANTS
    Files <- FormatFiles
    MaxObjects = 2
    MaxDepth = 4
INVARIANTS OldFilesAreRefused
CHECK_DEADLOCK FALSE
