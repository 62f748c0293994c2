CONSTANTS
  None = None
  Names = {a, b}
  Channels = {c1, c2}
  Entries = 3
  Sectors = 3
  SectorSize = 2
  NameSectors = 2
  ListSectors = 2
  Block = 3
  Rests = {1}
  MaxCuts = 1
  OpenAfterCut = 1
  AnyAppend = FALSE
  AnyCut = FALSE
  AnyTear = TRUE
  LowByte = 2
SPECIFICATION Spec
SYMMETRY Symmetric
INVARIANTS Bookkeeping NothingShared ReadsOn
PROPERTIES Stores
