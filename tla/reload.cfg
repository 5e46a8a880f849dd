CONSTANTS
  c1 = c1  s1 = s1  s2 = s2  p1 = p1  p2 = p2
  Callers = {c1}
  Watcher = Watcher
  Catalogs <- SmallCatalogs
  FirstCatalog <- OldCatalog
  Broken = Broken  Mixed = Mixed
  Faults = {"scheduler", "registry", "plugins", "undo"}
  MaxEdits = 3
  NoProc = NoProc
  Leasers = {l1, l2}
  Servers = {i1, i2}
  MaxPools = 2
  MaxDiffs = 2
  NoPool = NoPool  NoServer = NoServer
  Editors = {e1, e2}
  ServerNames = {s1, s2}
  PluginNames = {p1, p2}
  Sections = {runtime}
  FirstFiles <- MCFirstFiles
  MaxEditCalls = 2
  Absent = Absent  Unreadable = Unreadable  Truncated = Truncated
SPECIFICATION AllFairSpec
CHECK_DEADLOCK FALSE
INVARIANTS  RevisionsAgree PoolTableInv EditorInv
PROPERTIES ReloadEnds RemovedSpecEnds
