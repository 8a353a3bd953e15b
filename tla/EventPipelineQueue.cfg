SPECIFICATION FairSpec
CONSTANTS
  d1 = d1
  d2 = d2
  timer = timer
  admin = admin
  None = None
  Domains = {d1, d2}
  Cleaners = {timer}
  ActionMode = "off"
  CollectBatch = 2
  EngineBatch = 1
  KeepLatest = 2
  FirstRules = {"none"}
  MaxQueries = 3
  MaxExpiries = 0
  MaxCommands = 0
  MaxCleanups = 1
  MaxFaults = 0
  MaxCrashes = 1
CHECK_DEADLOCK FALSE
INVARIANTS
  NoQueryLost
  RepeatsAreBounded
PROPERTIES
  PendingIsHandled
  QueriesAreIngested
  CleanupKeepsNewest
