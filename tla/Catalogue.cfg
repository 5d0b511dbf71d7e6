\* Two processes, beside each other or not, each of them killed anywhere.
CONSTANTS
  Manager = Manager
  Cron = Cron
  Procs = {Cron, Manager}
  MaxPoints = 3
  MaxBeside = 2
  Retentions = {0, 1}
  Day = 4
  MaxDays = 2
  MaxCrashes = 1
SPECIFICATION Spec
SYMMETRY Interchangeable
INVARIANTS CatalogueReadable RestoreTakesBackup OnlyCondemnedDamaged
PROPERTY EntriesKept
CHECK_DEADLOCK FALSE
