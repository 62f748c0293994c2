CONSTANTS
  None = None
  Types = {"D41", "D71", "D81", "DNP"}
  Half = 3
  Middle = 2
  DnpTracks = 3
  DnpBamTracks = 2
  DnpReserved = 5
  DirSectors <- MCDirSectors
  TrackSectors <- MCTrackSectors
  EntriesPerSector = 1
  FileInterleave = 1
  Tries = 3
  Names = {a, b}
  MaxBlocks = 2
  MayFail <- MCMayFail
  MaxFaults = 1
  MaxAccesses = 8
  QuickFormatD71 = FALSE
  WritesOn = FALSE
SPECIFICATION Spec
SYMMETRY Symmetric
CHECK_DEADLOCK FALSE
INVARIANTS BamTrue ReadsBack
PROPERTIES FullMeansFull
