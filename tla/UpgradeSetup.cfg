\* setup between a failed upgrade and its retry.
CONSTANTS
  Versions <- MCVersions
  PreReleases <- MCPreReleases
  Migrations <- MCMigrations
  ShipsWith <- MCShipsWith
  InVolume <- MCInVolume
  Installed = 1
  Commands = {"setup"}
  Concurrent = FALSE
  MaxCommands = 1
  MaxFaults = 1
  MaxPoints = 0
SPECIFICATION Spec
INVARIANT PlatformMigrated
