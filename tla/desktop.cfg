CONSTANTS
  Syncers = {resources}
  Paged = {resources}
  Bridge = logs
  MaxVersion = 2
  MaxCrashes = 1
  Nobody = Nobody
  Selectors = {k1, k2}
  Requests = {q1, q2}
  MaxInstances = 1
  MaxRuntimes = 3
  NoRuntime = NoRuntime
  MaxServed = 1
  MaxApplies = 1
  MaxProcs = 2
  GatewayConfigs <- TwoConfigs
  Stopper = Stopper
  Page = Page
  MaxCores = 2
  MaxCalls = 4
  Clients = {c1}
  Current = 0
  PreReleases = {1}
  MaxReleases = 2
  MaxStarts = 2
  MaxSettings = 2
  AssetLists <- AssetChoices
  Arch = "arm64"
  Stamps = {1, 2}
  MaxUpdates = 4
  Nothing = Nothing
  CutShort = CutShort
SPECIFICATION Spec
CHECK_DEADLOCK FALSE
INVARIANTS  ApplicationInv
PROPERTIES DesktopSettles
