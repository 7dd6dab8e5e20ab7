CONSTANTS
    Inline <- Numbers
    Cached <- CachedNumbers
    Blob <- Texts
    Native = {"VECTOR_I16"}
    NativeItem = {1}
    Table = {"SET", "MAP"}
    Base = 4
    MaxValues = 5
    MaxItems = 3
SPECIFICATION Spec
CONSTRAINT FewOrTables
CHECK_DEADLOCK FALSE
INVARIANTS FileIsFaithful KeysHashedAsRead EverythingIsFreed
