CONSTANTS
  p1 = p1  p2 = p2  A = A  B = B  U = U  x = x  y = y
  auth = auth  edit = edit  watch = watch
  Callers = {p1, p2}
  Reloader = Reloader
  Clients = {A, B}
  Internal = {}
  Specs = {x, y}
  AlwaysOn = {x}
  Selectors <- MCSelectors
  Catalogs <- MCCatalogs
  NoClient = NoClient
  Versions = {v1, v2}
  Empty = Empty  Absent = Absent  Nothing = Nothing
  MaxPublishes = 2
  MaxFlips = 1
  MaxWatches = 2
  Plugins = {auth, edit, watch}
  Required = {auth}
  Observing = {watch}
  Order <- MCOrder
  Content = {edit}
  PluginSpecs <- MCPluginSpecs
  Askers = {q1}
  MaxReloads = 1
  NoPlugin = NoPlugin
  Tasks = {t1, t2}
  Owners = {o1, o2}
  Waiters = {w1}
  PageSize = 1
  NoTask = NoTask
SPECIFICATION AllSpec
SYMMETRY RegistrySymmetry
CHECK_DEADLOCK FALSE
INVARIANTS CountsMatch ActiveIffUsed StreamInv  
 
