CONSTANTS
  None = None
  Channels = {2}
  CommandSize = 1
  Lengths = {1, 2}
  FileSize = 2
  Prompt = TRUE
  CanBreak = FALSE
SPECIFICATION FairSpec
INVARIANTS LinesAsExpected AnswersAfterCommand
PROPERTIES Serves OperationsEnd
