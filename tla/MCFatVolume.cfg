CONSTANTS
  Types = {16, 32}
  Names = {"S", "L"}
  Slots <- MCSlots
  Short <- MCShort
  DirName = "D"
  SS = 3
  FPS = 3
  CSize = 2
  MaxClust = 6
  RootSects = 1
  Chunk = 2
  Positions = {7}
  MaxSize = 8
  MaxChanges = 4
SPECIFICATION Spec
INVARIANTS ReadsBack ClustersAccounted FullMeansFull
CHECK_DEADLOCK FALSE
