CONSTANTS
  Drivers = {"fat", "vfs"}
  Names <- AllNames
  Parts = 2
  Dirs <- AllDirs
  Files <- AllFiles
  Inner <- InnerDirs
  Lists <- AllLists
  Cds <- SomeCds
  Paths <- SomePaths
  NewNames = {"a"}
  Depth = 1
  LastLine = 3
  MaxOpen = 1
SPECIFICATION Spec
INVARIANTS ListedDisk FilesOfMounted DirsExist
CHECK_DEADLOCK FALSE
