\* The second release moves a password into a directory that is new.
CONSTANTS
  Order <- MCMovedOrder
  Keys <- MCMovedKeys
  DirOf <- MCMovedDirOf
  Ships <- MCMovedShips
  Generated <- MCMovedGenerated
  Aliases <- MCMovedAliases
  Renamed <- MCMovedRenamed
  Removed <- MCMovedRemoved
  Profiles = "COMPOSE_PROFILES"
  Provider = "AUTH_PROVIDER"
  Root = ""
  Keycloak = "infra/keycloak"
  Rag = "ai/rag"
  Volumes = {"nginx", "rag"}
  KeptBy <- MCMovedKeptBy
  Options <- MCOptions
  Editable = {}
  MaxSecrets = 2
  MaxKills = 0
SPECIFICATION Spec
INVARIANT SecretsFitData
