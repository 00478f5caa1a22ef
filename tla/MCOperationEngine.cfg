SPECIFICATION Spec
CONSTANTS
  a = a
  b = b
  p = p
  q = q
  Ids = {a, b}
  Repos = {p, q}
  Submissions <- MCSubmissions
  Retriers = {t}
  Limit = 2
  MaxOutstanding = 2
  HistoryLimit = 1
  MaxJobs = 3
INVARIANTS SnapshotTruthful RetentionBounded
PROPERTIES AnsweredOnce ServesSerially
CHECK_DEADLOCK FALSE
