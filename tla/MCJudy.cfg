CONSTANTS
  Radix = 6
  Levels = 4
  SubSize = 3
  ImmedMax <- MCImmedMax
  LeafMax <- MCLeafMax
  LeafWMax = 2
  BranchLMax = 2
  BranchLMaxPop = 4
  BtoUIncrement = 1
  BranchBMaxPop = 5
  BranchBMinPop = 3
  Keys <- MCKeys
  Probes <- MCProbes
  Fuels = {0, 1, 99}
  Nothing = Nothing
SPECIFICATION Spec
INVARIANTS TreeIsWellFormed MemoryIsAccounted SearchIsExact
PROPERTY ImplementsMap
