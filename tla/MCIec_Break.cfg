CONSTANTS
  None = None
  Channels = {2}
  CommandSize = 1
  Lengths = {1}
  FileSize = 1
  Prompt = TRUE
  CanBreak = TRUE
SPECIFICATION FairSpec
PROPERTIES OperationsEnd
