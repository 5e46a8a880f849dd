CONSTANTS
  Servers = {a}
  Refreshers = {r1, r2}
  FailureThreshold = 2
  MaxOffer = 2
  MaxSpecUpdates = 1
  Updater = Updater  NoRunner = NoRunner
  Loops = {l1, l2, l3}
  Configs = {"hidden", "slow", "fast"}
  MaxUpdates = 1
  NoLoop = NoLoop
  Keys = {k1}
  StatusStates = {pending, failed}
  Failed = failed
  Gone = Gone
  MaxStatusChanges = 2
  MaxViews = 1
  MaxEntries = 3
  MaxSessions = 2
  Levels = {1, 3}
  BroadcastMin = 1
  Warn = 3
  SourceCap = 1
  OutCap = 1
  EmitCap = 1
  RingCap = 2
  QueueCap = 2
  Addresses = {a1, a2}
  DefaultAddress = a1
  Unset = Unset
  DefaultEnabled = TRUE
  AppContext = AppContext
  CallContexts = {call}
  MaxApplies = 3
  RpcServers = {1, 2}
  MaxRpcCalls = 2
  MaxReloads = 1
  MaxWindowCalls = 1
  HasBootstrap = TRUE
SPECIFICATION Spec
CHECK_DEADLOCK FALSE
INVARIANTS IndexInv  CoreInv
PROPERTIES ServicesSettle
