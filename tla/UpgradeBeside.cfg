\* Every command beside a running upgrade: no lock excludes them.
CONSTANTS
  Versions <- MCVersions
  PreReleases <- MCPreReleases
  Migrations <- MCMigrations
  ShipsWith <- MCShipsWith
  InVolume <- MCInVolume
  Installed = 1
  Commands = {"setup", "checkout", "start", "stop", "restore"}
  Concurrent = TRUE
  MaxCommands = 2
  MaxFaults = 1
  MaxPoints = 1
SPECIFICATION Spec
INVARIANTS LedgerSound StoppedDuringScripts
PROPERTY ResumesInOrder
