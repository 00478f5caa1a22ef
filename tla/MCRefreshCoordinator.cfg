SPECIFICATION Spec
CONSTANTS
  Runners = {r1, r2}
  NoRunner = NoRunner
  Contexts = {c1}
  Closers = {k1}
  MaxRequests = 3
  MaxVersion = 2
INVARIANTS NoLostRequest QuietMeansPublished QuietAfterClose
PROPERTIES ResultsInOrder RequestAnswered KeepsPromise
CHECK_DEADLOCK FALSE
