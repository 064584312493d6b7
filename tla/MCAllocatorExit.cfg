SPECIFICATION MCSpec
CONSTANTS
  Threads = {t1, t2}
  Chunks = {c1, c2}
  NClasses = 2
  NRuns = 3
  RunSize = 2
  BatchSize = 1
  CacheSize = 2
  MaxRuns = 2
  Registered = {t1}
  None = None
  StackThreads = {t1, t2, t3}
  Nodes = {n1, n2, n3}
  Null = Null
  Tags = 4
SYMMETRY Symmetry
INVARIANT NothingStranded
