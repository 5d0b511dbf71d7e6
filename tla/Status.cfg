\* Every report, while the world moves on once.
CONSTANTS
  Chat = Chat
  Rag = Rag
  Web = Web
  Job = Job
  Search = Search
  Agent = Agent
  P = P
  Core = "papaia"
  Addons = {"agent"}
  Profiles = {Chat, Rag}
  Services <- MCServices
  Declared = {Web, Job, Search, Agent}
  Project <- MCProject
  ProfilesOf <- MCProfilesOf
  ModuleOf <- MCModuleOf
  Port <- MCPort
  Containers = {Web, Job, Search, Agent}
  ServiceOf <- MCServiceOf
  Label <- MCLabel
  Policy <- MCPolicy
  Ungrouped = "other"
  Verdict <- MCVerdict
  Mode = "enforce"
  Initial <- MCInitial
  MaxChanges = 1
SPECIFICATION Spec
INVARIANTS OutageSeen NoInventedOutage PortsBlamedRightly PassedIsStartable
CHECK_DEADLOCK FALSE
