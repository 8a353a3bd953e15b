SPECIFICATION Spec
CONSTANTS
  d1 = d1
  d2 = d2
  timer = timer
  admin = admin
  None = None
  Domains = {d1}
  Cleaners = {timer}
  ActionMode = "block"
  CollectBatch = 2
  EngineBatch = 2
  KeepLatest = 1
  FirstRules = {"none", "allow", "block"}
  MaxQueries = 1
  MaxExpiries = 1
  MaxCommands = 1
  MaxCleanups = 1
  MaxFaults = 1
  MaxCrashes = 1
CHECK_DEADLOCK FALSE
INVARIANTS
  TypeOK
  ProcessedIsDecided
  CacheIsNewestDecision
  ActedOnce
  LostActionsAreBounded
  BlocklistMatchesAudit
