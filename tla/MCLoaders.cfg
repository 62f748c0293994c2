CONSTANTS
  FileLoaders = {"turbodisk", "ar6", "eload", "epyx", "fc3", "fc3freezed", "oldfreeze", "gijoe", "n0sdos", "dolphin", "sams", "wheels_s1"}
  Savers = {"fc3save", "dolphinsave", "samssave", "ar6save"}
  SectorLoaders = {"uload3", "dreamload", "nippon", "geos", "geos_s1", "wheels", "mmzak"}
  Drivers = {"fat", "d64"}
  Block = 2
  Texts <- AllTexts
  Images <- TwoDisks
  Sent <- SomeBytes
  Slots = 3
  Tells = {"turbodisk", "eload", "fc3", "fc3freezed", "gijoe", "dolphin", "sams", "epyx", "oldfreeze", "wheels_s1", "uload3", "geos", "wheels", "mmzak"}
  MaxTurns = 3
  KeysInSave = FALSE
  LeavesInWrite = FALSE
  FastComputer = FALSE
SPECIFICATION Spec
INVARIANTS WholeOrTold SavedAsSent  BuffersKept
CHECK_DEADLOCK FALSE
