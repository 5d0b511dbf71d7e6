\* The add-on commands, one at a time, killed anywhere.
CONSTANTS
  Chat = Chat
  Rag = Rag
  Web = Web
  Proxy = Proxy
  Names <- MCNames
  Services <- MCServices
  Cores <- MCCores
  Manifests <- MCManifests
  Mode = "enforce"
  WithData = {Chat}
  LocalCa = {Rag}
  ExternalOidc = TRUE
  MaxSecrets = 2
  MaxFaults = 1
SPECIFICATION Spec
INVARIANTS StartSeesAddons OverridesNameServices SecretsFitData NothingLeft
PROPERTY OnlyToleratedStart
