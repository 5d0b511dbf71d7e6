\* Setup, start and module-purge in any order over two releases.
CONSTANTS
  Order <- MCOrder
  Keys <- MCKeys
  DirOf <- MCDirOf
  Ships <- MCShips
  Generated <- MCGenerated
  Aliases <- MCAliases
  Renamed <- MCRenamed
  Removed <- MCRemoved
  Profiles = "COMPOSE_PROFILES"
  Provider = "AUTH_PROVIDER"
  Root = ""
  Keycloak = "infra/keycloak"
  Rag = "ai/rag"
  Volumes = {"rag"}
  KeptBy <- MCKeptBy
  Options <- MCOptions
  Editable <- MCEditable
  MaxSecrets = 2
  MaxKills = 1
SPECIFICATION Spec
INVARIANTS SecretsFitData NoPlaceholders AliasesAgree EditsKept
