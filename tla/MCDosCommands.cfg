CONSTANTS
  None = None
  Nothing = Nothing
  Groups = {"clock", "settings", "programs"}
  Dates <- MCDates
  Times <- MCTimes
  Spans <- MCSpans
  Builds <- MCBuilds
  MaxPasses = 1
  Jumpers = {8, 9}
  Addresses = {2, 10}
  RomNames = {0, 200}
  MaxSettings = 2
  MaxStores = 2
  MaxBoots = 1
  Programs <- MCPrograms
  Block = 2
  MaxUploads = 2
  MaxRuns = 3
SPECIFICATION Spec
INVARIANTS AnswersWhole TimeTold RunsWhatWasUploaded
PROPERTY ConfigWhole
CHECK_DEADLOCK FALSE
