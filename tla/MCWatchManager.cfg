SPECIFICATION Spec
CONSTANTS
  Root = worktree
  Metadata = {gitdir, linked}
  DotGit = {gitdir}
  Subdirs = {sub}
  Closers = {c1}
  OutCap = 1
  EventsCap = 1
  QueueCap = 2
  MaxChanges = 2
INVARIANTS NoChangeDropped
PROPERTIES HintArrives GoroutinesEnd
CHECK_DEADLOCK FALSE
