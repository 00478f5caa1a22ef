SPECIFICATION Spec
CONSTANTS
  Parts = {"batch", "submodules", "registry", "fetch"}
  A = A
  B = B
  Paths = {A, B}
  Detached = {B}
  Workers = 1
  MaxBatches = 2
  Modules = {m1, m2, m3}
  Invalid = {m3}
  MaxModules = 2
  BulkWorkers = 1
  MaxOps = 2
  MaxGeneration = 1
  Known = {A, B}
  Home = A
  Roots = {A, B}
  Grouped = {A}
  MaxRepositories = 2
  MaxCached = 1
  MaxLoads = 2
  MaxOpens = 1
  Remotes = {A, B}
  Registries = {{A, B}, {A}}
  IntervalFor <- MCIntervalFor
  BackoffMax = 2
  FetchWorkers = 1
  MaxTracked = 1
  MaxTime = 2
  MaxRuns = 3
INVARIANTS BatchAccountsForEach SubmoduleDialogTruthful
PROPERTIES BatchEnds  FetchesSpaced
CHECK_DEADLOCK FALSE
