SPECIFICATION Spec
CONSTANTS
  Drivers = {"vfs"}
  Uses <- AllUses
  Block = 3
  Header = 2
  RecLens = {2, 3}
  RelBytes = {1}
  Capacity = 9
  MaxText = 4
  Wrap = 32
  MaxFaults = 1
INVARIANT ReplaceSaves
CHECK_DEADLOCK FALSE
