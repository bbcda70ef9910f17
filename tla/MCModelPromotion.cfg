SPECIFICATION Spec
CONSTANTS
  p1 = p1 p2 = p2
  Promoters = {p1, p2}
  Versions = {1, 2, 3}
  Aliases = {"production"}
  Ranking <- TwoRules
  Values = {1, 2}
  Pins = {None, 1}
  None = None
SYMMETRY Symmetry
VIEW View
INVARIANTS PromotedEligible SelectionIsPolicy
PROPERTY MovesUp
