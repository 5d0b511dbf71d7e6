\* A full restore into the config directory that was archived.
CONSTANTS
  Chat = Chat
  Rag = Rag
  Mgr = Mgr
  Agent = Agent
  ChatData = ChatData
  Models = Models
  RagData = RagData
  MgrData = MgrData
  OldData = OldData
  AgentDir = AgentDir
  ReadDir = ReadDir
  Bundle = Bundle
  Profiles <- MCProfiles
  Addons <- MCAddons
  Core = "papaia"
  Volumes <- MCVolumes
  Dirs <- MCDirs
  Config = Bundle
  Project <- MCProject
  Compose <- MCCompose
  Declared <- MCDeclared
  Existing <- MCExisting
  Unlabelled = {Models}
  Mounts <- MCMounts
  EnabledThen <- MCEnabledThen
  Unarchived = {}
  Modules = {Chat, Rag, Mgr}
  NoModule = "none"
  Manager = Mgr
  MaxSelectors = 2
  Users <- MCUsers
  Needs <- MCNeeds
  EnabledNow <- MCUnits
  Missing = {}
  Vanished = {}
  SamePlace = TRUE
  Modes = {"full"}
  MaxRuns = 1
  MaxFaults = 0
SPECIFICATION Spec
INVARIANT BundleReplayed
CHECK_DEADLOCK FALSE
