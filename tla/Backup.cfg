\* Two runs at a time, with every command, every signal and every failure.
CONSTANTS
  Database = Database
  Service = Service
  Runs = {r1, r2}
  Containers <- MCContainers
  Planned <- MCPlanned
  Kind <- MCKind
  Writers <- MCWriters
  Labelled <- MCSameName
  Commands = {"pause", "unpause", "start", "stop"}
  Signals = {"term", "int"}
  Failing = {"plan", "ps", "inspect", "pause", "unpause", "tar", "missing",
             "results", "manifest", "kill"}
  MaxCommands = 1
  MaxSignals = 1
  MaxFaults = 1
  MaxEvents = 2
SPECIFICATION FairSpec
INVARIANTS TypeOK ResultTruthful PausedForItsArchive FrozenDuringArchive
PROPERTIES OperatorPauseKept AlwaysReleased
CHECK_DEADLOCK FALSE
