SPECIFICATION LifecycleSpec
CONSTANTS
  a = a
  b = b
  engine = engine
  timer = timer
  Launcher = launcher
  Nobody = nobody
  Admins = {a, b}
  StartOrder <- Order
  Timers <- TimerOrder
  Releases <- SchemaOf
  Migrators = {a, b, engine}
  Supports <- NoCode
  FirstVersions = {0, 1}
  MaxBusy = 0
  MaxDeaths = 0
  Commands = {"install", "install --no-start", "install --no-enable", "uninstall", "upgrade", "enable", "disable", "start", "stop", "restart"}
  MaxCommands = 2
  MaxTroubles = 1
SYMMETRY AdminSymmetry
CHECK_DEADLOCK FALSE
INVARIANTS
  NoDaemonOnOldSchema
  NothingLeftWithoutUnit
  LockHolderRuns
PROPERTIES
  FailedUpgradeRestores
