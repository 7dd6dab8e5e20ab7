CONSTANTS
    Key = {1, 2, 3, 4, 5, 6, 7, 8, 9, 10, 11, 12, 13, 14, 15, 16, 17, 18, 19, 20, 21, 22, 23}
    Hashable = {1, 2, 3, 4, 5, 6, 7, 8, 9, 10, 11, 12, 13, 14, 15, 16, 17, 18, 20, 21, 22, 23}
    CreateHash <- MCCreateHash
    ReadHash <- MCReadHash
    CreateCmp <- MCCreateCmp
    ReadCmp <- MCReadCmp
    Empty = Empty
    WordSize = 16
    Perturb = 4
    KeyLists <- MCKeyLists
SPECIFICATION FairSpec
CHECK_DEADLOCK FALSE
INVARIANTS DuplicatesAreReported LookupIsExact PopulatedIsValid
PROPERTIES Completes
