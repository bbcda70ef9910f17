SPECIFICATION Spec
CONSTANTS
  o1 = o1 o2 = o2 r1 = r1 r2 = r2 elsewhere = elsewhere
  Operators = {o1, o2}
  Recoveries = {}
  Sources = {o1}
  Datasets = {1}
  SourceData = 1
  Times = {1}
  LastCommit = 1
  None = None
CHECK_DEADLOCK FALSE
INVARIANT OneDecember
