\* Restores of every kind, of a restore point that has lost an archive.
CONSTANTS
  Chat = Chat
  Rag = Rag
  Mgr = Mgr
  Agent = Agent
  ChatData = ChatData
  Models = Models
  RagData = RagData
  MgrData = MgrData
  OldData = OldData
  AgentDir = AgentDir
  ReadDir = ReadDir
  Bundle = Bundle
  Profiles <- MCProfiles
  Addons <- MCAddons
  Core = "papaia"
  Volumes <- MCVolumes
  Dirs <- MCDirs
  Config = Bundle
  Project <- MCProject
  Compose <- MCCompose
  Declared <- MCDeclared
  Existing <- MCExisting
  Unlabelled = {Models}
  Mounts <- MCMounts
  EnabledThen <- MCEnabledThen
  Unarchived = {}
  Modules = {Chat, Rag, Mgr}
  NoModule = "none"
  Manager = Mgr
  MaxSelectors = 2
  Users <- MCUsers
  Needs <- MCNeeds
  EnabledNow <- MCUnits
  Missing = {Models}
  Vanished = {}
  SamePlace = FALSE
  Modes = {"full", "clean", "scoped", "no-restart", "scoped no-restart"}
  MaxRuns = 2
  MaxFaults = 1
SPECIFICATION Spec
INVARIANTS TypeOK NeverUnderUsers ResultTruthful BroughtBack
PROPERTIES ScopedLeavesRest UnrestorableKept
CHECK_DEADLOCK FALSE
