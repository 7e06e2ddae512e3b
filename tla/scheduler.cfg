SPECIFICATION Spec
CONSTANTS
  t1 = t1
  c1 = c1
  c2 = c2
  None = None
  Tasks = {t1}
  Payloads <- Requests
  Candidates = {c1, c2}
  Offers <- Reports
  MaxRetry = 2
  MaxChanges = 2
CHECK_DEADLOCK FALSE
INVARIANTS
  AnswersRight
PROPERTIES
  EveryTaskSettles
