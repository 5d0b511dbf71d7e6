\* Two runs beside each other, broken off at any call and repeated.
CONSTANTS
  R1 = R1
  R2 = R2
  User = User
  Admin = Admin
  Manage = Manage
  Lost = Lost
  Chat = Chat
  Rag = Rag
  Alice = Alice
  Site = Site
  Litellm = Litellm
  Runs <- MCRuns
  Definitions <- MCDefinitions
  Domains = {Site}
  Services = {Litellm}
  Roles = {User, Admin}
  PapaiaAdmin = Admin
  ClientRoles = {Manage}
  Clients = {Chat, Rag}
  Mappers <- MCMappers
  Users = {Alice}
  MaxFaults = 1
  MaxEdits = 1
  MaxRenders = 2
SPECIFICATION FairSpec
INVARIANT SyncedWhenDone
PROPERTIES Additive Converges
