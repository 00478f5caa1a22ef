SPECIFICATION Spec
CONSTANTS
  a = a
  b = b
  p = p
  q = q
  Ids = {a, b}
  Repos = {p, q}
  Submissions <- LiveSubmissions
  Retriers = {}
  Limit = 1
  MaxOutstanding = 3
  HistoryLimit = 1
  MaxJobs = 3

PROPERTIES EveryJobAnswered
CHECK_DEADLOCK FALSE
