SPECIFICATION Spec
CONSTANTS
  v0 = v0 v3 = v3
  Months = {1, 2, 3}
  Batches = {v0, v3}
  MonthsOf <- MonthsOfBatch
  SplitOf <- SplitOfMonth
  SplitsOf <- SplitsOfBatch
  Surveyed = {v3}
  Committed = {v0}
  Built = {v0}
  Republished = {2}
  LastVersion = 2
  LastCommand <- CommandsOf
  MaxAttempts = 2
  None = None
  Torn = Torn
CHECK_DEADLOCK FALSE
INVARIANTS ArchivesWhole SplitsFromSource
PROPERTY RecordsTrue DownloadEnds
