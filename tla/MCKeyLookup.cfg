CONSTANTS
    Word = 16
    Exact = 8
    Wide = 4
    PackedMax = 3
    HalfMax = 3
    ByteBits = 2
    Key <- Objects
    OtherKey <- Others
    Query <- Queries
    IntArg <- Ints
    TextArg <- Strings
    Path <- Paths
    Wanted = {"any", "VECTOR_U32", "BOOLEAN"}
    Payload <- Held
    Folds = {1}
    MaxKeys = 2
SPECIFICATION Spec
CHECK_DEADLOCK FALSE
INVARIANTS WriterIsExact PythonFindsKeys SameKeysIsExact HelpersFindKeys
