CONSTANTS
  c1 = c1  c2 = c2  c3 = c3  s1 = s1  s2 = s2  t1 = t1  r1 = r1  p1 = p1
  i1 = i1  i2 = i2  i3 = i3  k1 = k1
  Callers = {c1, c2}
  Setters = {s1}
  Stoppers = {t1}
  Reapers = {r1}
  Probers = {p1}
  Instances = {i1, i2}
  RoutingKeys = {k1}
  Strategy = "stateful"
  MaxConcurrent = 2
  MaxTarget = 1
  MaxGeneration = 1
  Faults = {"stopFail"}
  NoInst = NoInst  NoKey = NoKey  NoProc = NoProc
SPECIFICATION Spec
SYMMETRY PoolSymmetry
CONSTRAINT SettersFirst
INVARIANTS Routing
PROPERTIES NoStopWhileLeased
