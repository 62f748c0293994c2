CONSTANTS
  Count = 4
  Host = {0, 2}
  Parts = {p1, p2}
  Lengths = {3}
  NoPart = NoPart
  NULL = NULL
SPECIFICATION Spec
SYMMETRY PartSymmetry
INVARIANTS
  TypeOK
  Accounting
  ChannelUnique
  ChainIntact
  BamBuffersOwned
  NothingUnsticky
PROPERTY
  OneChannelTouched
