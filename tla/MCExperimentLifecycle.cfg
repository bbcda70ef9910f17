SPECIFICATION Spec
CONSTANTS
  o1 = o1 o2 = o2
  Operators = {o1, o2}
  Checkouts <- Trees
  None = None
SYMMETRY Symmetry
CHECK_DEADLOCK FALSE
INVARIANTS CompletedIsWhole MeasuresTheFrozen CandidateEarned
PROPERTY ImplementsSeal
