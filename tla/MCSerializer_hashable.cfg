CONSTANTS
    Inline <- NoNumbers
    Cached <- NoNumbers
    Blob <- NoTexts
    Native = {}
    NativeItem = {1}
    Table = {"SET"}
    Base = 4
    MaxValues = 4
    MaxItems = 2
SPECIFICATION Spec
CHECK_DEADLOCK FALSE
INVARIANTS HashableHoldsHashable
