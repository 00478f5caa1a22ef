\* Rows of the old repository after a switch: no auxiliary pane is needed.
SPECIFICATION Spec
CONSTANTS
  Repos = {A, B}
  NoRepo = NoRepo
  Panes = {}
  MaxSessions = 2
  MaxVersion = 1
  MaxStimuli = 2
  MaxCount = 3
INVARIANTS OperationsMatchRows
CHECK_DEADLOCK FALSE
