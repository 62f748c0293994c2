CONSTANTS
  Drivers = {"fat", "vfs"}
  Partitions = {1, 2}
  Written = {1}
  Slots = {1, 2}
  Clusters = {1, 2}
  ValidStems = {"a", "A"}
  Refused = {"x/", "x:"}
  Safe <- MCSafe
  Fold <- MCFold
  StemLength <- MCLength
  Names <- MCNames
  Patterns <- MCPatterns
  Types = {"PRG", "SEQ"}
  Settings <- MCSettings
  Cards <- MCCards
  AnyRename = FALSE
  MaxNum = 1
  CacheSize = 1
  DirLength = 1
  Finds = {TRUE, FALSE}
SPECIFICATION Spec
INVARIANTS NameCacheTrue FoundAsNamed
PROPERTY ScratchesWhatMatches
CHECK_DEADLOCK FALSE
