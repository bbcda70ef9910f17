SPECIFICATION Spec
CONSTANTS
  p1 = p1 d1 = d1 a1 = a1 m1 = m1 s1 = s1
  ApiIds = {p1}
  Replicas = {a1}
  Sessions = {m1}
  Scripts = {s1}
  DemoOrder <- LabelledDemo
  DemoAnswer <- Answers
  MaxRevision = 2
  Absent = Absent
  NoFeedback = NoFeedback
  Missing = Missing
INVARIANTS NoPartialItem ConfirmedIsKept ConfirmationsAdvance LatestConfirmedSurvives
PROPERTY ImplementsLedger
