SPECIFICATION FairMigrationSpec
CONSTANTS
  service = service
  command = command
  oldService = oldService
  Migrators = {service, command, oldService}
  Supports <- Codes
  FirstVersions = {0, 4, 7, 10}
  MaxBusy = 1
  MaxDeaths = 1
CHECK_DEADLOCK FALSE
INVARIANTS
  VersionsArePrefix
  RecordLinkedOnce
  RemoteIsUsable
PROPERTIES
  ReachesLatest
