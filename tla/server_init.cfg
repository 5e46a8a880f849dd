SPECIFICATION LiveSpec
CONSTANTS
  Callers = {c1, c2}
  s1 = s1
  Specs <- SpecSet
  Active <- ActiveDef
  Catalogs <- CatalogSet
  MaxRetries = 2
  MaxFailed = 1
  NoStatus = NoStatus
INVARIANTS PendingIsDriven
PROPERTIES StopEndsWorkers UnwantedWorkerEnds
