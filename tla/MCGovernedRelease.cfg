SPECIFICATION Spec
CONSTANTS
  o1 = o1 o2 = o2 l1 = l1 l2 = l2
  Operators = {o1, o2}
  Locks = {l1, l2}
  MaxCommands = 6
  Torn = Torn
  None = None
SYMMETRY Symmetry
INVARIANTS FinalTestOnce CompleteIsRecorded LockedIsMeasured
PROPERTY ProductionEarned
