SPECIFICATION Spec
CONSTANTS
  o1 = o1 o2 = o2 r1 = r1 r2 = r2 elsewhere = elsewhere
  Operators = {o1}
  Recoveries = {r1, r2}
  Sources = {o1, elsewhere}
  Datasets = {1, 2}
  SourceData = 1
  Times = {1}
  LastCommit = 3
  None = None
SYMMETRY Symmetry
CHECK_DEADLOCK FALSE
INVARIANTS CompletedIsWhole OpenedAsFrozen AdoptionFaithful RecoveryVouched
PROPERTY OutputsImmutable ImplementsSeal
