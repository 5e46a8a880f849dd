CONSTANTS
  Calls = {c1, b1, b2}
  Constant = {b1, b2}
  MaxAsks = 1
  NoCall = NoCall
  Instances = {i1}
  Stoppers = {t1, t2}
  MaxAttempts = 2
  NoInstance = NoInstance
  SpecKeys = {a, b}
  Kinds <- OneKind
  MinReadySpecs = {a}
  Limits = {1}
  MaxReloads = 1
SPECIFICATION Spec
CHECK_DEADLOCK FALSE
INVARIANTS ConnectionInv ProcessInv BootstrapInv
PROPERTIES DetachedFromCaller ServersSettle
