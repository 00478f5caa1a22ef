SPECIFICATION Spec
CONSTANTS
  Repos = {A, B}
  NoRepo = NoRepo
  Panes = {"tree", "submodules", "branches"}
  MaxSessions = 2
  MaxVersion = 1
  MaxStimuli = 2
  MaxCount = 3
INVARIANTS QuietMeansFresh NoLeakedWatcher
PROPERTIES SnapshotsStayHome
CHECK_DEADLOCK FALSE
