\* Upgrades one after the other, with start, stop and scoped restores between,
\* and retried unattended until one succeeds.
CONSTANTS
  Versions <- MCVersions
  PreReleases <- MCPreReleases
  Migrations <- MCMigrations
  ShipsWith <- MCShipsWith
  InVolume <- MCInVolume
  Installed = 1
  Commands = {"start", "stop", "restore", "checkout"}
  Concurrent = FALSE
  MaxCommands = 2
  MaxFaults = 2
  MaxPoints = 2
SPECIFICATION FairSpec
INVARIANTS TypeOK HalfDoneIsLast PlatformMigrated
PROPERTIES ImplementsRelease ReachesLatest
