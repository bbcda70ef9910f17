SPECIFICATION Spec
CONSTANTS
  s1 = s1 v9 = v9 v10 = v10
  Count = 2
  Day <- SecondDay
  Windows <- TwoWindows
  MaxDays = 2
  PageSize = 1
  ScanLimit = 2
  Versions = {v9, v10}
  Rank <- Lexicographic
  Sessions = {s1}
  MaxLoads = 2
  MaxReports = 1
  None = None
CHECK_DEADLOCK FALSE
INVARIANTS QueriesAreComplete AuditIsTrue ActiveModelIsOnRecord
