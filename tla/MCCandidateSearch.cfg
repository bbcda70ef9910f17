\* A search stops at its decision.
SPECIFICATION SearchSpec
CHECK_DEADLOCK FALSE
CONSTANTS
  NoRow = NoRow
  Unit = 2520
  Limits <- MCLimits
  Results <- MCResults
  Matrix <- MCMatrix
  Methods <- MCMethods
  Scorings <- MCScorings
  Assessments <- MCAssessments
  Labels <- MCLabels
  Confirmed = 2
  Advanced = 1
  Ensembles = 1
INVARIANTS SearchForetellsNovember ChoiceIsUnique ConfirmationDecides WinnerEarned
