CONSTANTS
    Inline <- NoNumbers
    Cached <- NoNumbers
    Blob <- NoTexts
    Native = {"VECTOR_I64"}
    NativeItem = {1}
    Table = {}
    Base = 2
    MaxValues = 2
    MaxItems = 3
SPECIFICATION Spec
CHECK_DEADLOCK FALSE
INVARIANTS LargeVectorsAreFaithful
